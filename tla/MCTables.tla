------------------------------ MODULE MCTables ------------------------------
(***************************************************************************)
(* The crate's copies of what the box holds, each run by itself: the lock  *)
(* table, the three ordered tables, and the catch subscriptions.           *)
(***************************************************************************)
EXTENDS HeldLocks, HeldTables, CatchTable

CONSTANTS bulk, key, i1, i2, ffff, every, s1, s2, s3

VARIABLE part
allVars == <<part, lockVars, tableVars, catchVars>>

At(c, i, d, n) == [class |-> c, id |-> i, direction |-> d, capture |-> n]

\* Each pair of addresses that shadow, tie or merge, what is refused, and unions that
\* grow past the table, or need no clear, when a stream leaves them.
MCAsks == {
  {},
  {At(bulk, ffff, "both", 0)},
  {At(key, i1, "both", 8)},
  {At(key, i1, "with", 0)},
  {At(key, every, "positive", 0)},
  {At(every, every, "negative", 0)},
  {At(every, every, "both", 8), At(every, every, "positive", 8)},
  {At(every, every, "both", 8), At(every, every, "positive", 8), At(bulk, i1, "both", 8), At(bulk, i2, "both", 8)},
  {At(bulk, every, "both", 0)},
  {At(bulk, every, "negative", 16)},
  {At(bulk, i1, "positive", 16)},
  {At(bulk, i1, "negative", 0), At(bulk, i2, "both", 8)},
  {At(bulk, i1, "positive", 8), At(bulk, i1, "negative", 8)}}

MCCaptures == {0, 8, 16}

-----------------------------------------------------------------------------
Init ==
  /\ part \in {"locks", "tables", "catch"}
  /\ LocksInit /\ TablesInit /\ CatchInit
  /\ part # "locks" => \A n \in ButtonCounts : n <= declared /\ n <= lockBox.buttons
  /\ part # "tables" => allowed

Next ==
  /\ UNCHANGED part
  /\ \/ part = "locks" /\ LocksNext /\ UNCHANGED <<tableVars, catchVars>>
     \/ part = "tables" /\ TablesNext /\ UNCHANGED <<lockVars, catchVars>>
     \/ part = "catch" /\ CatchNext /\ UNCHANGED <<lockVars, tableVars>>

\* As CatchSpec has it, where the catch table is the part that runs.
Fairness ==
  /\ WF_allVars(part = "catch" /\ Step /\ UNCHANGED <<part, lockVars, tableVars>>)
  /\ WF_allVars(part = "catch" /\ Resend /\ UNCHANGED <<part, lockVars, tableVars>>)

Spec == Init /\ [][Next]_allVars /\ Fairness

=============================================================================
