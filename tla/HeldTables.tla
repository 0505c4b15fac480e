----------------------------- MODULE HeldTables -----------------------------
(***************************************************************************)
(* The ordered tables the crate keeps for the box: rewrite rules, field    *)
(* transforms and packet triggers (DesiredState in                         *)
(* src/src/link/reconcile.rs).  Order matters in all three: it breaks ties *)
(* between rules and between triggers, and transforms apply in it.  The    *)
(* crate predicts what the box will do with each frame (its overwrites,    *)
(* its limits, its opt-in) and must undo a prediction whose frame was      *)
(* never sent; later a tick, a recovery or a reconnect sends the tables.   *)
(*                                                                         *)
(* A mutator holds `catch_lock` from the prediction to the end of the      *)
(* send, so it is one step; only set_rewrite's question whether the box    *)
(* has its opt-in on comes before, as a step of its own.                   *)
(***************************************************************************)
EXTENDS Retain, Integers, SequencesExt, FiniteSets

CONSTANTS
  RuleKeys, FieldPairs, TriggerKeys, \* the keys the tables are held under
  Values,                            \* what an entry does: two differ in action, payload or op
  Consuming,                         \* the values of a trigger that consumes its packet
  TableLimit,                        \* the entries the box has room for, by table
  MaxTableCalls,                     \* bounds on the mutators called, on those whose frame is not
  MaxTableFailures,                  \* sent, and on the box's releases
  MaxTableReleases

Kinds == {"rewrite", "transform", "trigger"}

ASSUME ConsumingAssumption == Consuming \subseteq Values
ASSUME TableLimitAssumption == TableLimit \in Nat \ {0}
ASSUME TableBoundAssumption == MaxTableCalls \in Nat /\ MaxTableFailures \in Nat /\ MaxTableReleases \in Nat

VARIABLES
  held,      \* rewrites, transforms, clip.packet_triggers
  boxTables, \* the box's three tables
  allowed,   \* the box's opt-in (imperfect.allowed)
  up,        \* is the box's clone up?
  passed,    \* has a set_rewrite been told that the opt-in is on?
  tableRift, \* history: how the box's table may differ from the crate's
  tableCalls, tableFailures, tableReleases

tableBounds == <<tableCalls, tableFailures, tableReleases>>
tableVars == <<held, boxTables, allowed, up, passed, tableRift, tableCalls, tableFailures, tableReleases>>

Keys == [rewrite |-> RuleKeys, transform |-> FieldPairs, trigger |-> TriggerKeys]
Entries(kind) == Keys[kind] \X Values
KeysOf(t) == [i \in DOMAIN t |-> t[i][1]]

-----------------------------------------------------------------------------
Holds(t, k) == k \in ToSet(KeysOf(t))
Place(t, k) == CHOOSE i \in DOMAIN t : t[i][1] = k
Without(t, k) == IF Holds(t, k) THEN RemoveAt(t, Place(t, k)) ELSE t

InPlace(t, e) ==
  IF Holds(t, e[1]) THEN [t EXCEPT ![Place(t, e[1])] = e] ELSE Append(t, e)
AtEnd(t, e) ==
  IF e \in ToSet(t) THEN t ELSE Append(Without(t, e[1]), e)

\* Fault: a changed rule keeps its place.
RecordedInPlace(kind, t, e) == InPlace(t, e)

(* The crate's side: apply_rewrite, apply_transform, clip_packet_bind.      *)
Recorded(kind, t, e) == IF kind = "rewrite" THEN AtEnd(t, e) ELSE InPlace(t, e)

\* Fault: it goes back to the end.
RestoredAtEnd(t, was, k) ==
  IF ~Holds(was, k) THEN Without(t, k)
  ELSE Append(Without(t, k), was[Place(was, k)])

\* restore_rewrite, restore_transform: back to the place it had, or out.
Restored(t, was, k) ==
  IF ~Holds(was, k) THEN Without(t, k)
  ELSE LET rest == Without(t, k)
           at == IF Place(was, k) <= Len(rest) THEN Place(was, k) ELSE Len(rest) + 1
       IN  InsertAt(rest, at, was[Place(was, k)])

\* The limit is checked before a rule or a transform is sent; the triggers'
\* is the box's to refuse.
HasRoom(kind, k) ==
  kind = "trigger" \/ Holds(held[kind], k) \/ Len(held[kind]) < TableLimit

DropConsuming(t) == Retain(t, {e \in ToSet(t) : e[2] \notin Consuming})

-----------------------------------------------------------------------------
(* The box's side: apply_rewrite_frame, apply_transform_frame and           *)
(* PacketTriggers::set refuse or take an entry whole.  Every transform here *)
(* names a field its device has (transform_field_present, mock/mod.rs:1088) *)
(* and every entry fits the byte pools; the limits are module Options'.     *)

Refuses(kind, t, e) ==
  \/ ~Holds(t, e[1]) /\ Len(t) >= TableLimit
  \/ kind = "rewrite" /\ ~allowed
  \/ kind = "transform" /\ ~up
  \/ kind = "trigger" /\ e[2] \in Consuming /\ ~allowed

Taken(kind, t, e) ==
  IF Refuses(kind, t, e) THEN t
  ELSE IF kind = "rewrite" THEN AtEnd(t, e) ELSE InPlace(t, e)

\* A whole table sent, in the crate's order.
SentTable(kind) ==
  LET upTo[n \in 0..Len(held[kind])] ==
        IF n = 0 THEN boxTables[kind] ELSE Taken(kind, upTo[n - 1], held[kind][n])
  IN  upTo[Len(held[kind])]

Emptied == [kind \in Kinds |-> <<>>]

-----------------------------------------------------------------------------
TablesInit ==
  /\ held = Emptied
  /\ boxTables = Emptied
  /\ allowed \in BOOLEAN
  /\ up = TRUE
  /\ passed = FALSE
  /\ tableRift = [kind \in Kinds |-> {}]
  /\ tableCalls = 0
  /\ tableFailures = 0
  /\ tableReleases = 0

TableCall == tableCalls < MaxTableCalls /\ tableCalls' = tableCalls + 1 /\ UNCHANGED <<tableFailures, tableReleases>>
FailedCall ==
  /\ tableCalls < MaxTableCalls /\ tableFailures < MaxTableFailures
  /\ tableCalls' = tableCalls + 1 /\ tableFailures' = tableFailures + 1
  /\ UNCHANGED tableReleases

\* set_rewrite asks the box before it takes the lock.
RequireImperfect ==
  /\ allowed /\ ~passed
  /\ passed' = TRUE
  /\ UNCHANGED <<held, boxTables, allowed, up, tableRift, tableBounds>>

MayAsk(kind) == kind = "rewrite" => passed
Answered(kind) == passed' = (passed /\ kind # "rewrite")

RiftAfterSet(kind, e) ==
  IF Refuses(kind, boxTables[kind], e)
  THEN IF kind = "transform" /\ ~up THEN {"owed"} ELSE {"refused"}
  ELSE IF boxTables[kind] # held[kind] THEN {"late"} ELSE {}

\* set_rewrite_checked, Device::transform, ClipHandle::bind_packet.
Set(kind, e) ==
  /\ TableCall
  /\ MayAsk(kind) /\ Answered(kind)
  /\ HasRoom(kind, e[1])
  /\ held' = [held EXCEPT ![kind] = Recorded(kind, @, e)]
  /\ boxTables' = [boxTables EXCEPT ![kind] = Taken(kind, @, e)]
  /\ tableRift' = [tableRift EXCEPT ![kind] = @ \cup RiftAfterSet(kind, e)]
  /\ UNCHANGED <<allowed, up>>

\* A trigger is recorded once it is sent, so there is nothing to undo.
SetFails(kind, e) ==
  /\ FailedCall
  /\ MayAsk(kind) /\ Answered(kind)
  /\ HasRoom(kind, e[1])
  /\ IF kind = "trigger" THEN UNCHANGED held
     ELSE held' = [held EXCEPT ![kind] = Restored(Recorded(kind, @, e), @, e[1])]
  /\ UNCHANGED <<boxTables, allowed, up, tableRift>>

\* remove_rewrite, untransform, unbind_packet.
Unset(kind, k) ==
  /\ TableCall
  /\ held' = [held EXCEPT ![kind] = Without(@, k)]
  /\ boxTables' = [boxTables EXCEPT ![kind] = Without(@, k)]
  /\ UNCHANGED <<allowed, up, passed, tableRift>>

UnsetFails(kind, k) ==
  /\ FailedCall
  /\ IF kind = "trigger" THEN UNCHANGED held
     ELSE held' = [held EXCEPT ![kind] = Restored(Without(@, k), @, k)]
  /\ UNCHANGED <<boxTables, allowed, up, passed, tableRift>>

\* clear_rewrite, clear_transforms, clear_triggers.
Clear(kind) ==
  /\ TableCall
  /\ held' = [held EXCEPT ![kind] = <<>>]
  /\ boxTables' = [boxTables EXCEPT ![kind] = <<>>]
  /\ tableRift' = [tableRift EXCEPT ![kind] = {}]
  /\ UNCHANGED <<allowed, up, passed>>

\* The entries of before are recorded again, one by one.
Rerecorded(kind, t, entries) ==
  LET upTo[n \in 0..Len(entries)] ==
        IF n = 0 THEN t ELSE Recorded(kind, upTo[n - 1], entries[n])
  IN  upTo[Len(entries)]

TableClearFails(kind) ==
  /\ FailedCall
  /\ IF kind = "trigger" THEN UNCHANGED held
     ELSE held' = [held EXCEPT ![kind] = Rerecorded(kind, <<>>, @)]
  /\ UNCHANGED <<boxTables, allowed, up, passed, tableRift>>

\* allow_imperfect_clones(false): the rules go, and the triggers that consume.
Disallow ==
  /\ TableCall
  /\ held' = [held EXCEPT !["rewrite"] = <<>>, !["trigger"] = DropConsuming(@)]
  /\ boxTables' = [boxTables EXCEPT !["rewrite"] = <<>>, !["trigger"] = DropConsuming(@)]
  /\ allowed' = FALSE
  /\ tableRift' = [tableRift EXCEPT !["rewrite"] = {}]
  /\ UNCHANGED <<up, passed>>

DisallowFails ==
  /\ FailedCall
  /\ LET consuming == Retain(held["trigger"], {e \in ToSet(held["trigger"]) : e[2] \in Consuming})
     IN  held' = [held EXCEPT
           !["rewrite"] = Rerecorded("rewrite", <<>>, @),
           !["trigger"] = Rerecorded("trigger", DropConsuming(@), consuming)]
  /\ UNCHANGED <<boxTables, allowed, up, passed, tableRift>>

\* allow_imperfect_clones(true).
Allow ==
  /\ TableCall
  /\ allowed' = TRUE
  /\ UNCHANGED <<held, boxTables, up, passed, tableRift>>

\* reset_frame: the crate forgets first, and does not take it back.
TablesReset ==
  /\ TableCall
  /\ held' = Emptied
  /\ boxTables' = Emptied
  /\ tableRift' = [kind \in Kinds |-> {}]
  /\ UNCHANGED <<allowed, up, passed>>

TablesResetFails ==
  /\ TableCall
  /\ held' = Emptied
  /\ tableRift' = [kind \in Kinds |-> {"orphaned"}]
  /\ UNCHANGED <<boxTables, allowed, up, passed>>

\* The box drops its tables, and its clone or not (release_session); the
\* opt-in is kept in its flash.
TablesReleased ==
  /\ tableReleases < MaxTableReleases
  /\ tableReleases' = tableReleases + 1
  /\ boxTables' = Emptied
  /\ up' \in BOOLEAN
  /\ tableRift' = [kind \in Kinds |-> (tableRift[kind] \cap {"refused"}) \cup {"owed"}]
  /\ UNCHANGED <<held, allowed, passed, tableCalls, tableFailures>>

CloneUp ==
  /\ ~up
  /\ up' = TRUE
  /\ UNCHANGED <<held, boxTables, allowed, passed, tableRift, tableBounds>>

\* Nothing is owed any more; of more triggers than the box has room for, some are refused.
RiftAfterSend(kind) ==
  (tableRift[kind] \ {"owed"}) \cup IF Len(held[kind]) > TableLimit THEN {"refused"} ELSE {}

Resent(kinds) ==
  /\ boxTables' = [kind \in Kinds |-> IF kind \in kinds THEN SentTable(kind) ELSE boxTables[kind]]
  /\ tableRift' = [kind \in Kinds |->
       IF kind \in kinds /\ (kind = "transform" => up)
       THEN RiftAfterSend(kind) ELSE tableRift[kind]]

\* A keepalive tick sends all but the triggers.
Tick ==
  /\ Resent({"rewrite", "transform"})
  /\ UNCHANGED <<held, allowed, up, passed, tableBounds>>

\* A recovery sends all of them, the clone being up (restart::step).
Recover ==
  /\ up
  /\ Resent(Kinds)
  /\ UNCHANGED <<held, allowed, up, passed, tableBounds>>

\* A reconnect takes the triggers from the box, if it can read them, and sends
\* the rest (clip_adopt, reapply_held_locked).
Reconnect ==
  /\ \/ UNCHANGED held
     \/ held' = [held EXCEPT !["trigger"] = boxTables["trigger"]]
  /\ boxTables' = [boxTables EXCEPT !["rewrite"] = SentTable("rewrite"), !["transform"] = SentTable("transform")]
  /\ tableRift' = [kind \in Kinds |->
       IF kind = "trigger" THEN IF held' = held THEN tableRift[kind] ELSE {}
       ELSE IF kind = "transform" /\ ~up THEN tableRift[kind] ELSE RiftAfterSend(kind)]
  /\ UNCHANGED <<allowed, up, passed, tableBounds>>

TablesNext ==
  \/ RequireImperfect
  \/ \E kind \in Kinds : \E e \in Entries(kind) : Set(kind, e) \/ SetFails(kind, e)
  \/ \E kind \in Kinds : \E k \in Keys[kind] : Unset(kind, k) \/ UnsetFails(kind, k)
  \/ \E kind \in Kinds : Clear(kind) \/ TableClearFails(kind)
  \/ Disallow \/ DisallowFails \/ Allow
  \/ TablesReset \/ TablesResetFails
  \/ TablesReleased \/ CloneUp
  \/ Tick \/ Recover \/ Reconnect

TablesSpec == TablesInit /\ [][TablesNext]_tableVars

-----------------------------------------------------------------------------
OrderedAlike(kind) ==
  KeysOf(boxTables[kind]) = Retain(KeysOf(held[kind]), ToSet(KeysOf(boxTables[kind])))

(* The crate's table is the box's, entry for entry and in its order ("In the
   box's order, which breaks ties", reconcile.rs:174), once the box has been
   sent all of it; while it is owed a table or has refused an entry, what it
   does hold is in the crate's order.  The two differ only where an entry came
   late or a RESET was never sent.  Rules and transforms the box has no room for
   are never taken for held (rewrite.rs:55). *)
InStep ==
  \A kind \in Kinds :
    /\ kind # "trigger" => Len(held[kind]) <= TableLimit
    /\ tableRift[kind] = {} => boxTables[kind] = held[kind]
    /\ tableRift[kind] \subseteq {"owed", "refused"} => OrderedAlike(kind)

(* A mutator whose frame was never sent leaves the crate's tables as they were,
   places included (restore_rewrite and its like, reconcile.rs:514-522). *)
RollbackIsExact == [][tableFailures' # tableFailures => UNCHANGED held]_tableVars

(* What the crate sends again comes back in the order the box had it
   (tests/restart.rs:816), whatever was set in the meantime. *)
OrderKept ==
  \A kind \in Kinds : ToSet(boxTables[kind]) = ToSet(held[kind]) => boxTables[kind] = held[kind]
=============================================================================
