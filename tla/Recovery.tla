------------------------------ MODULE Recovery ------------------------------
(***************************************************************************)
(* What the box holds for the host (locks, held usages, rules, the clip    *)
(* ring) is session state: a device-chip boot, a detach, a link drop or a  *)
(* re-clone takes it away.  The crate keeps its own copy (`desired`) and   *)
(* sends it again.  Three actors share the work:                           *)
(*                                                                         *)
(*   - user threads change `desired` and send, under `catch_lock`;         *)
(*   - the reader thread takes what the box says, and notes the hello of a *)
(*     chip that booted (RestartWatch, src/src/link/restart.rs);           *)
(*   - the keepalive thread (src/src/link/keepalive.rs) watches the box's  *)
(*     session counter and runs the recovery (restart::step).              *)
(*                                                                         *)
(* The box is the one of src/src/mock/mod.rs: it takes a frame as it is    *)
(* written and queues what it says; the reader lags behind that queue.     *)
(* The line keeps order, so a frame's time on the way to the box cannot be *)
(* told from the host having been slower to write it.                      *)
(***************************************************************************)
EXTENDS Integers, Sequences, FiniteSets

CONSTANTS
  Keys,         \* what the host can hold on the box, by wire key
  TickKeys,     \* the keys each keepalive tick sends again (catch, rewrites,
                \* transforms); the others go out once and at a recovery
  BlindSets,    \* whether users set keys while no clone is up and no re-send
                \* is to come
  SlowClone,    \* whether a clone takes longer to come up than a recovery
                \* step takes from its re-send to the CAPS that checks it
  Budgets       \* what the box and the users may do, one of them per behaviour

\* How often each thing may happen, and to which keys.
Budget ==
  [boots : Nat, releases : Nat, keyOps : Nat, clipOps : Nat, resets : Nat,
   timeouts : Nat, keys : SUBSET Keys]

ASSUME KeysAssumption == TickKeys \subseteq Keys
ASSUME FlagAssumption == {BlindSets, SlowClone} \subseteq BOOLEAN
ASSUME BudgetAssumption == Budgets \subseteq Budget

VARIABLES
  box,       \* the device chip
  heard,     \* what the box has said and the reader has not taken yet
  watch,     \* RestartWatch, `session` the last RESP(STATS) counter read
  desired,   \* DesiredState: the keys the host holds
  clip,      \* DesiredState's clip ring
  lock,      \* who holds catch_lock
  ka,        \* the keepalive thread: where it is, its recovery, its locals
  restarts,  \* Counters::restarts
  left,      \* what is left of the budget
  fate,      \* history: what became of the clip the caller last appended
  blurred    \* history: a reading of its ring was noted that may not be so

vars == <<box, heard, watch, desired, clip, lock, ka, restarts, left, fate, blurred>>

-----------------------------------------------------------------------------
(* The box (mock/mod.rs).                                                   *)

Box == [up : BOOLEAN,      \* clone_up
        grace : {"none", "gone", "back"},   \* a detach's grace, device_back
        held : SUBSET Keys,
        ring : BOOLEAN,    \* the clip ring holds something
        session : Nat,     \* stats.session, a u16
        dirty : BOOLEAN,   \* session_dirty
        pcSeen : BOOLEAN]  \* the first frame since the boot has come

Hello == [t |-> "hello", q |-> "none", up |-> FALSE, ring |-> FALSE,
          session |-> 0, live |-> FALSE]

\* The answer to a query: the one field of the box it asks for.
AnswerOf(q, b) ==
  [t |-> "answer", q |-> q, live |-> TRUE,
   up |-> q = "caps" /\ b.up,
   ring |-> q = "clip" /\ b.ring,
   session |-> IF q = "stats" THEN b.session ELSE 0]

Heard == [t : {"hello", "answer"}, q : {"none", "caps", "stats", "clip"},
          up : BOOLEAN, ring : BOOLEAN, session : Nat, live : BOOLEAN]

\* A boot says hello a second time, before the answer to the first frame.
Greeting(b) == IF b.pcSeen THEN <<>> ELSE <<Hello>>

\* count_release, then release_session: one release counts once, and only
\* after a command that could have set something.
Released(b) ==
  [b EXCEPT !.session = IF b.dirty THEN @ + 1 ELSE @,
            !.dirty = FALSE, !.held = {}, !.ring = FALSE]

TornDown(b) == [Released(b) EXCEPT !.up = FALSE, !.grace = "none"]

Booted(b) ==
  [b EXCEPT !.up = FALSE, !.grace = "none", !.held = {}, !.ring = FALSE,
            !.session = 0, !.dirty = FALSE, !.pcSeen = FALSE]

\* Any command marks the session; locks and appends need a clone.
Commanded(b) == [b EXCEPT !.dirty = TRUE, !.pcSeen = TRUE]

WithKey(b, k) == IF b.up THEN [b EXCEPT !.held = @ \cup {k}] ELSE b
WithoutKey(b, k) == IF b.up THEN [b EXCEPT !.held = @ \ {k}] ELSE b

\* A RESET marks nothing, and releases what the host set but the ring.
Reset(b) ==
  [b EXCEPT !.session = IF b.dirty THEN @ + 1 ELSE @,
            !.dirty = FALSE, !.held = {}, !.pcSeen = TRUE]

-----------------------------------------------------------------------------
(* The keepalive thread: `pc` names the next thing it does.                 *)

\* The queries it waits on, by the place it asks them from.
Asks == [sess |-> "stats", ringClip |-> "clip", ringStats |-> "stats",
         caps |-> "caps", stats |-> "stats", caps2 |-> "caps",
         clip |-> "clip", stats2 |-> "stats"]

Pcs == {"top", "idle", "begin", "ringSeen", "ringNote", "tickLock", "tickSend",
        "seen", "relock", "resend", "reseen", "noteRing", "noteSession",
        "count", "finish"} \cup DOMAIN Asks

Keepalive ==
  [pc : Pcs,
   cause : {"none", "Restart", "Released"},   \* Option<Pending>
   wait : {"unasked", "asked", "got", "silent"},
   got : Heard,
   tick : BOOLEAN,      \* a tick, not the close watch between ticks
   seen : Nat,          \* hellos
   before : Nat,        \* session
   up : BOOLEAN,        \* the second clone_up
   ringSeen : Nat,      \* ring_gen
   ring : {"unread", "holds", "empty"},
   todo : SUBSET Keys]  \* frames of the re-send still to write

\* Nothing pending and nothing read.
Rest == [pc |-> "top", cause |-> "none", wait |-> "unasked", got |-> Hello,
         tick |-> FALSE, seen |-> 0, before |-> 0, up |-> FALSE,
         ringSeen |-> 0, ring |-> "unread", todo |-> {}]

Watch == [armed : BOOLEAN, recovering : BOOLEAN, owed : BOOLEAN,
          booted : BOOLEAN, hellos : Nat, session : Nat]

Clip == [loaded : BOOLEAN, ring : BOOLEAN, gen : Nat, lost : BOOLEAN]

TypeOK ==
  /\ box \in Box
  /\ heard \in Seq(Heard)
  /\ watch \in Watch
  /\ desired \in SUBSET Keys
  /\ clip \in Clip
  /\ lock \in {"free", "keepalive", "append", "clear"}
  /\ ka \in Keepalive
  /\ restarts \in Nat
  /\ left \in Budget
  /\ fate \in {"none", "kept", "played", "dropped"}
  /\ blurred \in BOOLEAN

\* After the handshake: the box has answered, its session counter is the
\* baseline, and there may or may not be a clone.
Init ==
  /\ \E up \in BOOLEAN :
       box = [up |-> up, grace |-> "none", held |-> {}, ring |-> FALSE,
              session |-> 0, dirty |-> FALSE, pcSeen |-> TRUE]
  /\ heard = <<>>
  /\ watch = [armed |-> TRUE, recovering |-> FALSE, owed |-> FALSE,
              booted |-> FALSE, hellos |-> 0, session |-> 0]
  /\ desired = {}
  /\ clip = [loaded |-> FALSE, ring |-> FALSE, gen |-> 0, lost |-> FALSE]
  /\ lock = "free"
  /\ ka = Rest
  /\ restarts = 0
  /\ left \in Budgets
  /\ fate = "kept" /\ blurred = FALSE
-----------------------------------------------------------------------------
(* The box, unprompted.                                                     *)

\* What a release now makes of a clip the caller appended.
FateIfReleased ==
  IF box.ring /\ (clip.loaded \/ lock = "append") THEN "dropped" ELSE fate

Spend(f) == left[f] > 0 /\ left' = [left EXCEPT ![f] = @ - 1]

\* `said` is whether the hello of the boot itself reaches the host.
Boot(said) ==
  /\ Spend("boots")
  /\ box' = Booted(box)
  /\ heard' = IF said THEN Append(heard, Hello) ELSE heard
  /\ fate' = FateIfReleased
  /\ UNCHANGED <<watch, desired, clip, lock, ka, restarts, blurred>>

\* An inter-chip link drop, a short detach, or the clone presented again.
Release ==
  /\ Spend("releases")
  /\ box' = Released(box)
  /\ fate' = FateIfReleased
  /\ UNCHANGED <<heard, watch, desired, clip, lock, ka, restarts, blurred>>

\* The device goes: the session is released at once, the clone stays up for a
\* grace, and is torn down (and counted again, if marked) unless it is back.
Detach ==
  /\ box.up /\ box.grace = "none"
  /\ Spend("releases")
  /\ box' = [Released(box) EXCEPT !.grace = "gone"]
  /\ fate' = FateIfReleased
  /\ UNCHANGED <<heard, watch, desired, clip, lock, ka, restarts, blurred>>

ComeBack ==
  /\ box.grace = "gone"
  /\ box' = [box EXCEPT !.grace = "back"]
  /\ UNCHANGED <<heard, watch, desired, clip, lock, ka, restarts, left, fate, blurred>>

GraceEnds ==
  /\ box.grace # "none"
  /\ IF box.grace = "back"
     THEN box' = [box EXCEPT !.grace = "none"] /\ UNCHANGED fate
     ELSE box' = TornDown(box) /\ fate' = FateIfReleased
  /\ UNCHANGED <<heard, watch, desired, clip, lock, ka, restarts, left, blurred>>

\* A re-send is on its way to the check that the clone still stands.
Resending == ka.pc \in {"resend", "caps2"}

\* A fresh clone, after a boot, a teardown or a first attach.
CloneUp ==
  /\ ~box.up
  /\ SlowClone => ~Resending
  /\ box' = [box EXCEPT !.up = TRUE]
  /\ UNCHANGED <<heard, watch, desired, clip, lock, ka, restarts, left, fate, blurred>>

\* The ring ran dry: the clip was played, not lost.
PlayOut ==
  /\ box.ring
  /\ box' = [box EXCEPT !.ring = FALSE]
  /\ fate' = "played"
  /\ UNCHANGED <<heard, watch, desired, clip, lock, ka, restarts, left, blurred>>

-----------------------------------------------------------------------------
(* The reader thread (reader.rs route_frame).                               *)

\* note_hello, for a box on this build's protocol.
Noted(w) ==
  IF w.recovering
  THEN [w EXCEPT !.hellos = @ + 1, !.booted = TRUE]
  ELSE IF w.armed
  THEN [w EXCEPT !.armed = FALSE, !.recovering = TRUE, !.owed = TRUE,
                 !.hellos = @ + 1]
  ELSE w

\* An answer to a query given up on finds no entry, but still arms the watch.
Hear ==
  /\ heard # <<>>
  /\ heard' = Tail(heard)
  /\ IF Head(heard).t = "hello"
     THEN /\ watch' = Noted(watch)
          /\ UNCHANGED ka
     ELSE /\ watch' = [watch EXCEPT !.armed = TRUE]
          /\ ka' = IF Head(heard).live
                   THEN [ka EXCEPT !.wait = "got", !.got = Head(heard)]
                   ELSE ka
  /\ UNCHANGED <<box, desired, clip, lock, restarts, left, fate, blurred>>

-----------------------------------------------------------------------------
(* The users.  Each holds catch_lock from its change to its frame.          *)

\* A release or a boot the host has not noticed, but will: a hello to come or
\* on its way, or a session counter that is not the baseline.
HelloToCome == ~box.pcSeen \/ \E i \in DOMAIN heard : heard[i].t = "hello"

Noticeable == HelloToCome \/ box.session # watch.session

\* Past its re-send, a recovery only sends again what it finds released since.
PastResend == {"caps2", "reseen", "clip", "stats2", "noteRing", "noteSession",
               "count", "finish"}

ResendToCome ==
  IF ka.pc \in PastResend
  THEN HelloToCome \/ watch.hellos # ka.seen \/ box.session # ka.before
  ELSE Noticeable \/ watch.owed \/ ka.cause # "none" \/ ka.pc = "begin"

\* A reading of the ring is under way, `ring_gen` read before it.
ReadingRing ==
  ka.pc \in {"ringClip", "ringStats", "ringNote", "clip", "stats2", "noteRing"}

Op(f) == lock = "free" /\ Spend(f)

\* A lock, a press, a rule: recorded, then sent (device/lock.rs, inject.rs).
SetKey(k) ==
  /\ Op("keyOps")
  /\ BlindSets \/ box.up \/ ResendToCome
  /\ desired' = desired \cup {k}
  /\ box' = WithKey(Commanded(box), k)
  /\ heard' = heard \o Greeting(box)
  /\ UNCHANGED <<watch, clip, lock, ka, restarts, fate, blurred>>

UnsetKey(k) ==
  /\ Op("keyOps")
  /\ k \in desired
  /\ desired' = desired \ {k}
  /\ box' = WithoutKey(Commanded(box), k)
  /\ heard' = heard \o Greeting(box)
  /\ UNCHANGED <<watch, clip, lock, ka, restarts, fate, blurred>>

\* reset_frame: DesiredState::clear gives every field its default, the clip's
\* ring_gen with it, then the RESET goes out.  A reading begun before it can no
\* longer be told from one begun after.
ResetAll ==
  /\ Op("resets")
  /\ desired' = {}
  /\ clip' = [loaded |-> FALSE, ring |-> FALSE, gen |-> 0, lost |-> FALSE]
  /\ box' = Reset(box)
  /\ heard' = heard \o Greeting(box)
  /\ fate' = "none"
  /\ blurred' = ReadingRing
  /\ UNCHANGED <<watch, lock, ka, restarts>>

\* ClipHandle::append and clear: sent, then recorded.
ClipSend(what) ==
  /\ Op("clipOps")
  /\ BlindSets \/ box.up \/ ResendToCome
  /\ lock' = what
  /\ box' = [Commanded(box) EXCEPT !.ring = IF what = "clear" THEN FALSE
                                           ELSE @ \/ box.up]
  /\ heard' = heard \o Greeting(box)
  /\ fate' = IF what = "append" /\ ~box.up THEN "dropped" ELSE "kept"
  /\ blurred' = (blurred /\ ReadingRing)
  /\ UNCHANGED <<watch, desired, clip, ka, restarts>>

ClipLoaded ==
  /\ lock \in {"append", "clear"}
  /\ clip' = [loaded |-> lock = "append", ring |-> lock = "append",
              gen |-> clip.gen + 1, lost |-> FALSE]
  /\ lock' = "free"
  /\ UNCHANGED <<box, heard, watch, desired, ka, restarts, left, fate, blurred>>

-----------------------------------------------------------------------------
(* The keepalive's queries (restart.rs query_sent).                         *)

Ask ==
  /\ ka.pc \in DOMAIN Asks
  /\ ka.wait = "unasked"
  /\ heard' = heard \o Greeting(box) \o <<AnswerOf(Asks[ka.pc], box)>>
  /\ box' = [box EXCEPT !.pcSeen = TRUE]
  /\ ka' = [ka EXCEPT !.wait = "asked"]
  /\ UNCHANGED <<watch, desired, clip, lock, restarts, left, fate, blurred>>

\* No answer in time: the entry is cancelled, so a late answer is ignored.
TimeOut ==
  /\ ka.wait = "asked"
  /\ Spend("timeouts")
  /\ heard' = [i \in DOMAIN heard |-> [heard[i] EXCEPT !.live = FALSE]]
  /\ ka' = [ka EXCEPT !.wait = "silent"]
  /\ UNCHANGED <<box, watch, desired, clip, lock, restarts, fate, blurred>>

\* At `pc`, with the query done; the locals of the next place.
Back(pc) == ka.pc = pc /\ ka.wait \in {"got", "silent"}
Answered == ka.wait = "got"
At(pc) == ka.pc = pc
To(pc) == IF pc = "top" THEN [Rest EXCEPT !.cause = ka.cause]
          ELSE [ka EXCEPT !.pc = pc, !.wait = "unasked", !.got = Hello]
KeepaliveOnly ==
  UNCHANGED <<box, heard, watch, desired, clip, lock, restarts, left, fate, blurred>>

-----------------------------------------------------------------------------
(* keepalive_loop.  Whether a tick or a recovery step is due is up to the   *)
(* clock, so either may be.                                                 *)

\* take_owed, at the top of every round.
Top ==
  /\ At("top")
  /\ watch' = [watch EXCEPT !.owed = FALSE,
                            !.recovering = @ \/ watch.owed]
  /\ LET cause == IF watch.owed THEN "Restart" ELSE ka.cause
     IN  \E pc \in {"caps", "idle"} :
           /\ pc = "caps" => cause # "none"
           /\ ka' = [ka EXCEPT !.pc = pc, !.cause = cause]
  /\ UNCHANGED <<box, heard, desired, clip, lock, restarts, left, fate, blurred>>

Idle == desired = {} /\ ~clip.loaded

\* An idle host asks nothing.  With a recovery pending the counter is left to it.
LookAround ==
  /\ At("idle")
  /\ \E tick \in BOOLEAN :
       ka' = [To(IF Idle THEN "top"
                 ELSE IF ka.cause = "none" THEN "sess"
                 ELSE IF tick THEN "ringSeen" ELSE "top")
              EXCEPT !.tick = tick]
  /\ KeepaliveOnly

\* session_released: the reading replaces the baseline at once.
SessionRead ==
  /\ Back("sess")
  /\ LET moved == Answered /\ ka.got.session # watch.session
     IN  ka' = To(IF moved THEN "begin" ELSE IF ka.tick THEN "ringSeen" ELSE "top")
  /\ watch' = IF Answered THEN [watch EXCEPT !.session = ka.got.session] ELSE watch
  /\ UNCHANGED <<box, heard, desired, clip, lock, restarts, left, fate, blurred>>

BeginRelease ==
  /\ At("begin")
  /\ watch' = [watch EXCEPT !.recovering = TRUE]
  /\ ka' = [To("top") EXCEPT !.cause = "Released"]
  /\ UNCHANGED <<box, heard, desired, clip, lock, restarts, left, fate, blurred>>

\* read_ring: the ring, against the last append before it.
RingSeen ==
  /\ At("ringSeen")
  /\ ka' = IF clip.ring
           THEN [To("ringClip") EXCEPT !.ringSeen = clip.gen, !.seen = watch.hellos]
           ELSE To("tickLock")
  /\ KeepaliveOnly

RingRead ==
  /\ Back("ringClip")
  /\ ka' = IF Answered
           THEN [To("ringStats") EXCEPT !.ring = IF ka.got.ring THEN "holds" ELSE "empty"]
           ELSE To("tickLock")
  /\ KeepaliveOnly

\* Fault: the ring reading is used whatever the session counter says.
RingUnchecked ==
  /\ Back("ringStats")
  /\ ka' = To(IF Answered /\ watch.hellos = ka.seen THEN "ringNote" ELSE "tickLock")
  /\ KeepaliveOnly

\* A reading across a release or a boot is left to that recovery.
RingChecked ==
  /\ Back("ringStats")
  /\ ka' = To(IF /\ Answered
                 /\ watch.hellos = ka.seen
                 /\ watch.session = ka.got.session
              THEN "ringNote" ELSE "tickLock")
  /\ KeepaliveOnly

\* clip_note_ring.
Note(c, seen, holds, released) ==
  IF seen # c.gen
  THEN c
  ELSE [c EXCEPT !.ring = holds,
                 !.lost = @ \/ (released /\ c.ring /\ ~holds),
                 !.loaded = @ /\ ~(released /\ c.ring /\ ~holds)]

\* The record is emptied while a recovery is to come, which then finds no loss.
EmptiedEarly(c) == clip.ring /\ ~c.ring /\ (ka.cause # "none" \/ watch.owed)

RingNote ==
  /\ At("ringNote")
  /\ clip' = Note(clip, ka.ringSeen, ka.ring = "holds", FALSE)
  /\ ka' = [To("tickLock") EXCEPT !.ring = "unread"]
  /\ blurred' = (blurred \/ EmptiedEarly(clip'))
  /\ UNCHANGED <<box, heard, watch, desired, lock, restarts, left, fate>>

\* A tick's re-assert: the catch table, the rules and the transforms.
TickLock ==
  /\ At("tickLock")
  /\ lock = "free"
  /\ lock' = "keepalive"
  /\ ka' = [To("tickSend") EXCEPT !.todo = desired \cap TickKeys]
  /\ UNCHANGED <<box, heard, watch, desired, clip, restarts, left, fate, blurred>>

\* The next frame of a re-send; after the last, catch_lock is free again.
SendNext(after) ==
  IF ka.todo = {}
  THEN /\ lock' = "free"
       /\ ka' = To(after)
       /\ UNCHANGED <<box, heard>>
  ELSE \E k \in ka.todo :
       /\ ka' = [ka EXCEPT !.todo = @ \ {k}]
       /\ box' = WithKey(Commanded(box), k)
       /\ heard' = heard \o Greeting(box)
       /\ UNCHANGED lock

TickSend ==
  /\ At("tickSend")
  /\ SendNext("top")
  /\ UNCHANGED <<watch, desired, clip, restarts, left, fate, blurred>>

-----------------------------------------------------------------------------
(* restart::step.  Every early return waits: back to the top, still owing.  *)

\* Fault: a recovery that finds no clone is over.
CloneGivenUp ==
  /\ Back("caps")
  /\ ka' = IF Answered /\ ka.got.up THEN To("seen")
           ELSE [To("top") EXCEPT !.cause = "none"]
  /\ KeepaliveOnly

CloneChecked ==
  /\ Back("caps")
  /\ ka' = To(IF Answered /\ ka.got.up THEN "seen" ELSE "top")
  /\ KeepaliveOnly

HellosSeen ==
  /\ At("seen")
  /\ ka' = [To("stats") EXCEPT !.seen = watch.hellos]
  /\ KeepaliveOnly

BeforeRead ==
  /\ Back("stats")
  /\ ka' = IF Answered
           THEN [To("relock") EXCEPT !.before = ka.got.session]
           ELSE To("top")
  /\ KeepaliveOnly

\* Fault: the re-send reads what to send without the lock.
RelockUnlocked ==
  /\ At("relock")
  /\ lock = "free"
  /\ ka' = [To("resend") EXCEPT !.todo = desired]
  /\ UNCHANGED <<box, heard, watch, desired, clip, lock, restarts, left, fate, blurred>>

Relock ==
  /\ At("relock")
  /\ lock = "free"
  /\ lock' = "keepalive"
  /\ ka' = [To("resend") EXCEPT !.todo = desired]
  /\ UNCHANGED <<box, heard, watch, desired, clip, restarts, left, fate, blurred>>

\* reapply_locked.
Resend ==
  /\ At("resend")
  /\ SendNext("caps2")
  /\ UNCHANGED <<watch, desired, clip, restarts, left, fate, blurred>>

\* A write failed: what was written stays, and the recovery waits.
ResendFails ==
  /\ At("resend")
  /\ ka.todo # {}
  /\ Spend("timeouts")
  /\ lock' = "free"
  /\ ka' = To("top")
  /\ UNCHANGED <<box, heard, watch, desired, clip, restarts, fate, blurred>>

\* Fault: any answer to the second CAPS will do.
CloneTrusted ==
  /\ Back("caps2")
  /\ ka' = [To("reseen") EXCEPT !.up = Answered]
  /\ KeepaliveOnly

CloneRechecked ==
  /\ Back("caps2")
  /\ ka' = [To("reseen") EXCEPT !.up = Answered /\ ka.got.up]
  /\ KeepaliveOnly

GenSeen ==
  /\ At("reseen")
  /\ ka' = [To("clip") EXCEPT !.ringSeen = clip.gen]
  /\ KeepaliveOnly

RingReread ==
  /\ Back("clip")
  /\ ka' = [To(IF ka.up THEN "stats2" ELSE "top") EXCEPT
              !.up = FALSE,
              !.ring = IF ~Answered THEN "unread"
                       ELSE IF ka.got.ring THEN "holds" ELSE "empty"]
  /\ KeepaliveOnly

\* Settled: the clone is up and nothing was released since `before`.
Settle ==
  /\ Back("stats2")
  /\ ka' = To(IF Answered /\ ka.got.session = ka.before THEN "noteRing" ELSE "top")
  /\ KeepaliveOnly

\* Without an answer the recovery ends all the same, and looks no more.
NoteRing ==
  /\ At("noteRing")
  /\ clip' = IF ka.ring = "unread" THEN clip
             ELSE Note(clip, ka.ringSeen, ka.ring = "holds", TRUE)
  /\ ka' = [To("noteSession") EXCEPT !.ring = "unread"]
  /\ blurred' = (blurred \/ (clip.ring /\ ka.ring = "unread"))
  /\ UNCHANGED <<box, heard, watch, desired, lock, restarts, left, fate>>

NoteSession ==
  /\ At("noteSession")
  /\ watch' = [watch EXCEPT !.session = ka.before]
  /\ ka' = To("count")
  /\ UNCHANGED <<box, heard, desired, clip, lock, restarts, left, fate, blurred>>

\* take_booted, then inc_restarts.
Count ==
  /\ At("count")
  /\ watch' = [watch EXCEPT !.booted = FALSE]
  /\ restarts' = IF watch.booted \/ ka.cause = "Restart" THEN restarts + 1
                 ELSE restarts
  /\ ka' = To("finish")
  /\ UNCHANGED <<box, heard, desired, clip, lock, left, fate, blurred>>

\* Done, or Again if a hello came since `seen`.
Finish ==
  /\ At("finish")
  /\ IF watch.hellos = ka.seen
     THEN /\ watch' = [watch EXCEPT !.recovering = FALSE]
          /\ ka' = [To("top") EXCEPT !.cause = "none"]
     ELSE /\ ka' = [To("top") EXCEPT !.cause = "Restart"]
          /\ UNCHANGED watch
  /\ UNCHANGED <<box, heard, desired, clip, lock, restarts, left, fate, blurred>>

-----------------------------------------------------------------------------
BoxStep ==
  \/ \E said \in BOOLEAN : Boot(said)
  \/ Release
  \/ Detach
  \/ ComeBack
  \/ GraceEnds
  \/ CloneUp
  \/ PlayOut

UserStep ==
  \/ \E k \in left.keys : SetKey(k)
  \/ \E k \in left.keys : UnsetKey(k)
  \/ ResetAll
  \/ \E what \in {"append", "clear"} : ClipSend(what)
  \/ ClipLoaded

LoopStep ==
  \/ Top \/ LookAround \/ SessionRead \/ BeginRelease \/ RingSeen \/ RingRead
  \/ RingChecked \/ RingNote \/ TickLock \/ TickSend

RecoveryStep ==
  \/ CloneChecked \/ HellosSeen \/ BeforeRead \/ Relock \/ Resend
  \/ ResendFails \/ CloneRechecked \/ GenSeen \/ RingReread \/ Settle \/ NoteRing
  \/ NoteSession \/ Count \/ Finish

Next ==
  \/ BoxStep
  \/ Hear
  \/ UserStep
  \/ Ask
  \/ TimeOut
  \/ LoopStep
  \/ RecoveryStep

Spec == Init /\ [][Next]_vars

\* The threads run and the clock moves on, so whatever is due comes up; a
\* detach's grace ends, and a clone comes up at last.
Fairness ==
  /\ WF_vars(Hear) /\ WF_vars(ClipLoaded) /\ WF_vars(GraceEnds) /\ WF_vars(CloneUp)
  /\ WF_vars(Ask) /\ WF_vars(LoopStep) /\ WF_vars(RecoveryStep)
  /\ SF_vars(Top /\ ka'.pc = "caps")
  /\ SF_vars(LookAround /\ ka'.tick)

FairSpec == Spec /\ Fairness

-----------------------------------------------------------------------------
\* Nothing is owed, pending, or left to notice.
Quiet ==
  /\ ~Noticeable
  /\ ~watch.owed
  /\ ka.cause = "none"
  /\ ka.pc # "begin"

(* Whatever the box dropped, in whatever order boots, releases, clones, users
   and the two threads came, the crate either still has a sign of it or has
   sent it again: once nothing is owed, pending or to be noticed, the box holds
   every key the host holds (keepalive_loop, keepalive.rs:44-146, and step,
   restart.rs:266-315). *)
NoSilentLoss == Quiet => desired \subseteq box.held

(* A re-send never brings back what a user has dropped: the box holds nothing
   the host does not hold (catch_lock, keepalive.rs:99-103, lock.rs:26-39). *)
NoGhostState == box.held \subseteq desired

(* A clip the box dropped is reported: once nothing is owed, pending or to be
   noticed, `lost` is set until the caller appends or clears
   (clip_note_ring, reconcile.rs:247-257; ClipHandle::lost, clip.rs:512). *)
ClipLossReported == Quiet /\ lock = "free" /\ fate = "dropped" => clip.lost

(* Only a clip that is no longer in the ring is reported lost, whatever reading
   crosses whatever append: a clip played to its end since the last reading may
   be, one the box still holds never is (read_ring and step, restart.rs:248-261,
   296-306; ring_gen, reconcile.rs:191). *)
LossIsReal == clip.lost /\ lock = "free" => fate # "kept"

(* The two together: what ClipHandle::lost says is so (clip.rs:505-512), whatever
   boots, releases, resets, lost queries and ticks come between, but for the
   three readings that `blurred` tells of: a tick that empties the record of the
   ring ahead of a recovery, a recovery whose question about the ring got no
   answer, and a reading that a reset crossed. *)
ClipReportIsTrue == ~blurred => ClipLossReported /\ LossIsReal

(* Once users, boots and releases stop, the box comes to hold what the host
   holds and keeps it. *)
EventuallyRestored == <>[](desired \subseteq box.held)
=============================================================================
