----------------------------- MODULE CatchTable -----------------------------
(***************************************************************************)
(* Catch subscriptions (src/src/link/catch.rs): the registry of a          *)
(* process's subscriptions, the box's one table of filters, and the frames *)
(* that keep the second the union of the first.                            *)
(*                                                                         *)
(* A call holds `catch_lock` from its change of the registry to its last   *)
(* frame, so there is one job at a time; each of its frames is a step of   *)
(* its own, because the box may be released, or a write fail, between two. *)
(* The keepalive and the replays send the whole table again, adds only.    *)
(***************************************************************************)
EXTENDS CatchFilters, FiniteSets

CONSTANTS
  Subs,             \* the streams
  Asks,             \* what catch_events may be called with: sets of filters
  InputClasses,     \* the classes that arrive decoded, with no packet
  Reserved,         \* the id whose wire form is the class blanket's
  CatchLimit,       \* CATCH_MAX_ENTRIES
  MaxCatchCalls,    \* bounds on the calls, on the frames that cannot be
  MaxCatchFailures, \* written, and on the times the box drops its session
  MaxCatchReleases

ASSUME AddressAssumption == IsFiniteSet(Classes) /\ IsFiniteSet(Ids)
ASSUME SubsAssumption == Subs # {}
ASSUME CatchLimitAssumption == CatchLimit \in Nat
ASSUME InputClassesAssumption == InputClasses \subseteq Classes
ASSUME AsksAssumption ==
  \A filters \in Asks : \A f \in filters :
    f \in Filter \/ (f.direction \in Relative /\ [f EXCEPT !.direction = "both"] \in Filter)
ASSUME CatchBoundAssumption == MaxCatchCalls \in Nat /\ MaxCatchFailures \in Nat /\ MaxCatchReleases \in Nat

VARIABLES
  subs,     \* CatchReg: what each stream asked for, {} when not registered
  desired,  \* DesiredState::catch
  catchBox, \* the box's table
  job,      \* what the holder of catch_lock has still to send
  rift,     \* history: how the box may have come to differ
  catchCalls, catchFailures, catchReleases

catchBounds == <<catchCalls, catchFailures, catchReleases>>
catchVars == <<subs, desired, catchBox, job, rift, catchCalls, catchFailures, catchReleases>>

\* "owed": the box was released, or cleared for a subscription that failed, and not sent
\* the whole table since.  "stale": a removal was never delivered.  "full": the box had
\* no room; "over": no room for a union that grew too large when a stream left it.
Rifts == SUBSET {"owed", "stale", "full", "over"}

Ops == {"none", "subscribe", "narrow", "unsubscribe", "resend", "reset"}

\* Frames to send: removals, then the clear of everything, then entries.
\* `clean`: no frame of a re-send failed and the box was not released since.
Job == [op : Ops, sub : Subs, off : SUBSET Filter, clear : BOOLEAN,
        on : SUBSET Filter, clean : BOOLEAN]

LockFree == job.op = "none"
AllSent == job.off = {} /\ ~job.clear /\ job.on = {}

CatchTypeOK ==
  /\ subs \in [Subs -> SUBSET Filter]
  /\ desired \in SUBSET Filter
  /\ catchBox \in SUBSET Filter
  /\ Cardinality(catchBox) <= CatchLimit /\ \A f, g \in catchBox : SameAddress(f, g) => f = g
  /\ job \in Job
  /\ rift \in Rifts
  /\ catchCalls \in 0 .. MaxCatchCalls
  /\ catchFailures \in 0 .. MaxCatchFailures
  /\ catchReleases \in 0 .. MaxCatchReleases

Asked(registry) == UNION {registry[s] : s \in Subs}
\* CatchReg::effective.
Union(registry) == Effective(Asked(registry))

\* The checks of `prepare`: something is asked for, no capture on an input
\* class, no exact id that would be sent as the blanket, no direction that
\* depends on the bearing of the moment.
Prepared(filters) ==
  /\ filters # {}
  /\ \A f \in filters : f.direction \in Directions
  /\ \A f \in filters : f.class \in InputClasses => f.capture = Whole
  /\ \A f \in filters : f.id # Reserved

-----------------------------------------------------------------------------
(* The frames of one change.                                                *)

Keyed(table, f) == \E g \in table : SameAddress(f, g)

\* Unsubscribing a wildcard is, on the wire, the clear of everything.
Clears(prev, next) == \E f \in prev : f.class = Every /\ ~Keyed(next, f)

\* catch_sync: what changed, or all of `next` after a clear.
Sync(op, sub, prev, next) ==
  [op |-> op, sub |-> sub,
   off |-> {f \in prev : ~Keyed(next, f) /\ f.class # Every},
   clear |-> Clears(prev, next),
   on |-> IF Clears(prev, next) THEN next ELSE next \ prev,
   clean |-> TRUE]

Idle == [op |-> "none", sub |-> job.sub, off |-> {}, clear |-> FALSE, on |-> {}, clean |-> TRUE]

\* The wire form of a filter: the reserved id is the blanket's sentinel.
OnWire(f) == [f EXCEPT !.id = IF @ = Reserved THEN Every ELSE @]

\* The box: one entry per address, a new one only where there is room.
Removed(table, f) == {g \in table : ~SameAddress(g, OnWire(f))}
Room(table, f) == Keyed(table, OnWire(f)) \/ Cardinality(table) < CatchLimit
Added(table, f) == IF Room(table, f) THEN Removed(table, f) \cup {OnWire(f)} ELSE table

-----------------------------------------------------------------------------
CatchInit ==
  /\ subs = [s \in Subs |-> {}]
  /\ desired = {}
  /\ catchBox = {}
  /\ job = [op |-> "none", sub |-> CHOOSE s \in Subs : TRUE,
            off |-> {}, clear |-> FALSE, on |-> {}, clean |-> TRUE]
  /\ rift = {}
  /\ catchCalls = 0 /\ catchFailures = 0 /\ catchReleases = 0

Called == LockFree /\ catchCalls < MaxCatchCalls /\ catchCalls' = catchCalls + 1 /\ UNCHANGED <<catchFailures, catchReleases>>

\* catch_subscribe: registered, then counted; a union too large for the box
\* leaves everything as it was.
Subscribe(s, filters) ==
  LET registry == [subs EXCEPT ![s] = Collapse(filters)]
      next == Union(registry)
  IN  /\ Called
      /\ subs[s] = {}
      /\ Prepared(filters)
      /\ IF Cardinality(next) > CatchLimit
           THEN UNCHANGED <<subs, desired, job>>
           ELSE /\ subs' = registry
                /\ desired' = next
                /\ job' = Sync("subscribe", s, Union(subs), next)
      /\ UNCHANGED <<catchBox, rift>>

\* detach_sub.
Detach(s) ==
  /\ subs' = [subs EXCEPT ![s] = {}]
  /\ desired' = Union(subs')

\* catch_unsubscribe, on close or on the drop of the last handle.
Unsubscribe(s) ==
  /\ Called
  /\ subs[s] # {}
  /\ Detach(s)
  /\ job' = Sync("unsubscribe", s, Union(subs), desired')
  /\ UNCHANGED <<catchBox, rift>>

\* reset: catch_disconnect_all_locked, then the RESET frame.
CatchReset ==
  /\ Called
  /\ subs' = [s \in Subs |-> {}]
  /\ desired' = {}
  /\ job' = [Idle EXCEPT !.op = "reset", !.clear = TRUE]
  /\ UNCHANGED <<catchBox, rift>>

ResendNone ==
  LockFree /\ desired # {} /\ job' = [Idle EXCEPT !.op = "resend"]
  /\ UNCHANGED <<subs, desired, catchBox, rift, catchBounds>>
\* A tick of the keepalive, or a replay: every entry again.
Resend ==
  /\ LockFree
  /\ desired # {}
  /\ job' = [Idle EXCEPT !.op = "resend", !.on = desired]
  /\ UNCHANGED <<subs, desired, catchBox, rift, catchBounds>>

-----------------------------------------------------------------------------
(* The frames.                                                              *)

SendOff ==
  \E f \in job.off :
    /\ catchBox' = Removed(catchBox, f)
    /\ job' = [job EXCEPT !.off = @ \ {f}]
    /\ UNCHANGED <<subs, desired, rift, catchBounds>>

SendClear ==
  /\ job.off = {} /\ job.clear
  /\ catchBox' = {}
  /\ job' = [job EXCEPT !.clear = FALSE]
  /\ rift' = rift \ {"stale", "full", "over"}
  /\ UNCHANGED <<subs, desired, catchBounds>>

SendOn ==
  /\ job.off = {} /\ ~job.clear
  /\ \E f \in job.on :
       /\ catchBox' = Added(catchBox, f)
       /\ rift' = IF Room(catchBox, f) THEN rift
                  ELSE rift \cup {IF Cardinality(desired) > CatchLimit THEN "over" ELSE "full"}
       /\ job' = [job EXCEPT !.on = @ \ {f}]
  /\ UNCHANGED <<subs, desired, catchBounds>>

Failed == catchFailures < MaxCatchFailures /\ catchFailures' = catchFailures + 1 /\ UNCHANGED <<catchCalls, catchReleases>>

SubscribeFailsHere ==
  job.op = "subscribe" /\ ~AllSent /\ Failed /\ Detach(job.sub) /\ job' = Idle
  /\ UNCHANGED <<catchBox, rift>>

\* The clear of this subscription went out, and the way back has none: what both unions
\* hold is not sent again.
ClearedForGood ==
  ~job.clear /\ Clears(desired', desired) /\ ~Clears(desired, desired')

\* A frame of a subscription cannot be written: the stream is taken back, and
\* the box narrowed to what the others asked for.
SubscribeFails ==
  /\ job.op = "subscribe" /\ ~AllSent
  /\ Failed
  /\ Detach(job.sub)
  /\ job' = Sync("narrow", job.sub, desired, desired')
  /\ rift' = IF ClearedForGood THEN rift \cup {"owed"} ELSE rift
  /\ UNCHANGED catchBox

\* A frame of a removal cannot be written: the rest is not tried, and nobody
\* is told.
NarrowFails ==
  /\ job.op \in {"narrow", "unsubscribe"} /\ ~AllSent
  /\ Failed
  /\ job' = Idle
  /\ rift' = rift \cup {"stale"}
  /\ UNCHANGED <<subs, desired, catchBox>>

\* A frame of a re-send cannot be written: the next one is tried.
ResendFails ==
  /\ job.op = "resend"
  /\ \E f \in job.on : job' = [job EXCEPT !.on = @ \ {f}, !.clean = FALSE]
  /\ Failed
  /\ UNCHANGED <<subs, desired, catchBox, rift>>

\* The clear of a reset cannot be written: RESET is tried all the same.
ClearFails ==
  /\ job.op = "reset" /\ job.clear
  /\ job' = [job EXCEPT !.clear = FALSE]
  /\ Failed
  /\ UNCHANGED <<subs, desired, catchBox, rift>>

\* RESET is the last frame of a reset, and clears the box's table too.
SendReset ==
  /\ job.op = "reset" /\ ~job.clear
  /\ job' = Idle
  /\ \/ catchBox' = {} /\ rift' = {} /\ UNCHANGED catchBounds
     \/ Failed /\ UNCHANGED catchBox /\ rift' = IF catchBox = {} THEN rift ELSE rift \cup {"stale"}
  /\ UNCHANGED <<subs, desired>>

\* The last frame is out: the lock is released.
Return ==
  /\ job.op \in Ops \ {"none", "reset"} /\ AllSent
  /\ job' = Idle
  /\ rift' = IF job.op = "resend" /\ job.clean THEN rift \ {"owed"} ELSE rift
  /\ UNCHANGED <<subs, desired, catchBox, catchBounds>>

\* The box drops its session: silence on the link, a reboot, a re-present.
CatchReleased ==
  /\ catchReleases < MaxCatchReleases /\ catchReleases' = catchReleases + 1
  /\ catchBox' = {}
  /\ rift' = {"owed"}
  /\ job' = [job EXCEPT !.clean = FALSE]
  /\ UNCHANGED <<subs, desired, catchCalls, catchFailures>>

Step ==
  SendOff \/ SendClear \/ SendOn \/ SendReset \/ Return

CatchNext ==
  \/ \E s \in Subs : Unsubscribe(s) \/ \E filters \in Asks : Subscribe(s, filters)
  \/ CatchReset \/ Resend \/ Step
  \/ SubscribeFails \/ NarrowFails \/ ResendFails \/ ClearFails
  \/ CatchReleased

\* The holder of the lock runs on; the keepalive ticks.
CatchSpec == CatchInit /\ [][CatchNext]_catchVars /\ WF_catchVars(Step) /\ WF_catchVars(Resend)

-----------------------------------------------------------------------------
(* Properties.                                                              *)

\* Every event of a sign or edge that one of the filters matches is taken by
\* an entry of the table that keeps as many bytes as the filter asked for.
Takes(table, f, e) ==
  /\ Resolved(table, e) # {}
  /\ \A r \in Resolved(table, e) : Keeps(r.capture, f.capture)
EdgeEvents == {e \in Event : e.direction \in Edges}
Serves(table, filters) ==
  \A f \in filters, e \in EdgeEvents : Matches(f, e) => Takes(table, f, e)

\* With no call under way the table the crate re-sends is the union of what
\* is subscribed, so a refused or failed subscription leaves no trace; and
\* the box holds exactly it, unless it was released or a removal failed, or a
\* subscription failed past its clear.  The box is never asked for more entries
\* than it has, so that it drops none unseen (the check before the first frame,
\* removals first), unless the union outgrew it when a stream left.
CatchInStep ==
  /\ LockFree =>
       /\ desired = Union(subs)
       /\ rift = {} => catchBox = desired
       /\ rift = {"owed"} => catchBox \subseteq desired
  /\ "full" \in rift => "stale" \in rift

\* One narrow entry of another subscription never cuts a packet that a broad
\* one wants whole: each subscriber is served as if it were alone (the
\* widening in `effective`), and nothing nobody asked for is streamed.  While
\* a table is being sent, a subscriber that stays may miss an event only if an
\* entry still to be sent in the same call takes it.
EachServed ==
  rift = {} =>
    /\ LockFree =>
         /\ \A s \in Subs : Serves(catchBox, subs[s])
         /\ \A e \in Event : Resolved(catchBox, e) # {} => \E f \in Asked(subs) : Matches(f, e)
    /\ job.op # "reset" =>
         \A s \in Subs \ (IF job.op = "subscribe" THEN {job.sub} ELSE {}) :
           \A f \in subs[s], e \in EdgeEvents :
             Matches(f, e) =>
               \/ Takes(catchBox, f, e)
               \/ \E g \in job.on : Matches(g, e) /\ Keeps(g.capture, f.capture)

\* A table the box lost, or was refused an entry of, is whole again in the
\* end: the keepalive re-sends it, whatever failed.  Only a union that outgrew
\* the box when a stream left cannot be.
Heals ==
  [](~(desired \subseteq catchBox) =>
       <>(desired \subseteq catchBox \/ "stale" \in rift \/ Cardinality(desired) > CatchLimit))
=============================================================================
