-------------------------------- MODULE Feed --------------------------------
(***************************************************************************)
(* What a stream of the crate promises its consumer, whatever its queue:   *)
(* the events come in order, each at most once, and one that is skipped    *)
(* was counted, which happens only while a whole queue of them waits.      *)
(***************************************************************************)
EXTENDS Naturals

CONSTANT Capacity  \* the depth of the queue

VARIABLES
  offered, \* the events there were, numbered from 1
  last,    \* the number of the last one taken
  skipped, \* those before it that were not taken
  missed   \* what the stream says was dropped

vars == <<offered, last, skipped, missed>>

Init == offered = 0 /\ last = 0 /\ skipped = 0 /\ missed = 0

\* An event arrives; with a full queue waiting, one is given up for it.
Offer ==
  /\ offered' = offered + 1
  /\ \/ missed' = missed
     \/ offered - last >= Capacity /\ missed' = missed + 1
  /\ UNCHANGED <<last, skipped>>

\* The next event that is left, past those given up.
Take ==
  \E k \in last + 1 .. offered :
    /\ last' = k
    /\ skipped' = skipped + (k - last - 1)
    /\ skipped' <= missed
    /\ UNCHANGED <<offered, missed>>

Next == Offer \/ Take

Spec == Init /\ [][Next]_vars
=============================================================================
