-------------------------------- MODULE Link --------------------------------
(***************************************************************************)
(* The link to a box that is unplugged, rebooted, reflashed and plugged in *)
(* again, beside another box of the same make.  The reader thread          *)
(* (src/src/link/reader.rs) reads the port in the slot; when that fails it *)
(* reconnects until it succeeds.  A user may reconnect as well, at any     *)
(* time (src/src/link/reconnect.rs).  Whoever adopts a port sends what the *)
(* crate holds again, while another thread changes it; a chip that booted  *)
(* is left to the keepalive thread, whose recovery is module Recovery's.   *)
(* What is held is one key.                                                *)
(***************************************************************************)
EXTENDS Naturals, FiniteSets

CONSTANTS
  Neighbour,      \* whether another box is plugged into the host
  MaxEvents,      \* bounds on the unplugs, boots and users' reconnects, and on
  MaxCalls        \* the presses and releases

ASSUME NeighbourAssumption == Neighbour \in BOOLEAN
ASSUME BoundAssumption ==
  {MaxEvents, MaxCalls} \subseteq Nat

VARIABLES
  box,        \* our box and its port
  slot,       \* TransportSlot: the port in use
  refused,    \* TransportSlot: the box said hello on another protocol
  held,       \* DesiredState: the crate holds the key
  watch,      \* RestartWatch
  lock,       \* who holds catch_lock
  turn,       \* who holds reconnect_lock
  reader,     \* the reader thread and the port it reads
  rc,         \* a reconnect, of the reader and of a user
  caller,     \* a user's press or release, and the port it was given
  ka,         \* the keepalive thread
  stop,       \* the last handle is dropped
  failed,     \* history: the last press or release returned an error
  swallowed,  \* history: the last hello of a boot was lost or not heeded
  spent       \* how much of the bounds is used up

vars == <<box, slot, refused, held, watch, lock, turn, reader, rc, caller, ka,
          stop, failed, swallowed, spent>>
hostVars == <<slot, refused, held, watch, lock, turn, reader, rc, caller, ka,
              stop, failed, swallowed>>

Actors == {"reader", "user"}
Protos == {"ours", "other"}

\* An open port: whose, and since which plugging in.
Ports == [who : {"ours", "theirs"}, plug : Nat]
Disconnected == [who |-> "none", plug |-> 0]
Slots == Ports \cup {Disconnected}

\* Reads and writes succeed until the port is pulled.
Alive(p) == p.who = "theirs" \/ (p.who = "ours" /\ box.here /\ p.plug = box.plug)

-----------------------------------------------------------------------------
(* The box: a chip on a serial adapter that is unplugged by itself.         *)

Box == [here : BOOLEAN, plug : Nat,
        chip : {"boot", "bare", "up"},   \* "bare": it answers, without a clone
        proto : Protos,
        holds : BOOLEAN,
        met : BOOLEAN,      \* a frame has come since the boot
        hello : BOOLEAN,    \* a hello is on the line
        moved : BOOLEAN]    \* the session counter moved since it was last read

\* A frame that presses or releases the key.  The first frame since a boot is
\* greeted, and without a clone the key is dropped.
Taken(b, press) ==
  IF b.chip = "boot" THEN b
  ELSE [b EXCEPT !.met = TRUE, !.hello = @ \/ ~b.met,
                 !.holds = IF b.chip = "up" /\ b.proto = "ours" THEN press ELSE @]

\* A hello that no other follows: the first frame has come.
LastHello == box.hello /\ box.met

Unplug ==
  /\ box.here /\ spent.events < MaxEvents
  /\ spent' = [spent EXCEPT !.events = @ + 1]
  /\ box' = [box EXCEPT !.here = FALSE, !.hello = FALSE]
  /\ swallowed' = (swallowed \/ LastHello)
  /\ UNCHANGED <<slot, refused, held, watch, lock, turn, reader, rc, caller, ka,
                 stop, failed>>

Plug ==
  /\ ~box.here
  /\ box' = [box EXCEPT !.here = TRUE, !.plug = @ + 1]
  /\ UNCHANGED <<hostVars, spent>>

\* The silence window passes: nothing is sent, or nothing worth sending.
Silence ==
  /\ box.holds
  /\ ~Alive(slot) \/ refused \/ ~held
  /\ \A a \in Actors : rc[a].pc \notin {"caps", "adopt", "replay"}
  /\ box' = [box EXCEPT !.holds = FALSE, !.moved = TRUE]
  /\ UNCHANGED <<hostVars, spent>>

\* A reflash is a boot on another protocol.  The session counter starts again
\* from 0, which may be where it was.
Boot ==
  /\ spent.events < MaxEvents
  /\ \E p \in Protos, m \in BOOLEAN :
       box' = [box EXCEPT !.chip = "boot", !.proto = p, !.holds = FALSE,
                          !.met = FALSE, !.hello = FALSE, !.moved = m]
  /\ spent' = [spent EXCEPT !.events = @ + 1]
  /\ UNCHANGED hostVars

SayHello ==
  /\ box.chip = "boot"
  /\ box' = [box EXCEPT !.chip = "bare", !.hello = box.here]
  /\ UNCHANGED <<hostVars, spent>>

CloneUp ==
  /\ box.chip = "bare"
  /\ box' = [box EXCEPT !.chip = "up"]
  /\ UNCHANGED <<hostVars, spent>>

-----------------------------------------------------------------------------
(* TransportSlot.                                                           *)

Swap(p) == slot' = p /\ refused' = FALSE

\* What write_frame says before it writes: an error, or the port it will
\* write to, whatever is swapped in before it does.
CanWrite(p) == ~refused /\ Alive(p)

-----------------------------------------------------------------------------
(* The reader thread.                                                       *)

ReaderTop ==
  /\ reader.pc = "top"
  /\ reader' = IF stop THEN [reader EXCEPT !.pc = "exited"]
               ELSE [pc |-> "read", port |-> slot, said |-> "ours"]
  /\ UNCHANGED <<box, slot, refused, held, watch, lock, turn, rc, caller, ka,
                 stop, failed, swallowed, spent>>

\* Nothing to read, or the Disconnected transport: Ok(0).
ReadNothing ==
  /\ reader.pc = "read"
  /\ reader.port = Disconnected \/ Alive(reader.port)
  /\ reader' = [reader EXCEPT !.pc = "top"]
  /\ UNCHANGED <<box, slot, refused, held, watch, lock, turn, rc, caller, ka,
                 stop, failed, swallowed, spent>>

\* Some query's reply: note_reply.
ReadReply ==
  /\ reader.pc = "read"
  /\ reader.port.who = "ours" /\ Alive(reader.port)
  /\ box.chip # "boot" /\ box.met
  /\ watch' = [watch EXCEPT !.armed = TRUE]
  /\ reader' = [reader EXCEPT !.pc = "top"]
  /\ UNCHANGED <<box, slot, refused, held, lock, turn, rc, caller, ka, stop,
                 failed, swallowed, spent>>

ReadHello ==
  /\ reader.pc = "read"
  /\ reader.port.who = "ours" /\ Alive(reader.port) /\ box.hello
  /\ box' = [box EXCEPT !.hello = FALSE]
  /\ reader' = [reader EXCEPT !.pc = "note", !.said = box.proto]
  /\ UNCHANGED <<slot, refused, held, watch, lock, turn, rc, caller, ka, stop,
                 failed, swallowed, spent>>

\* Mutant: a hello on this build's protocol does not end a refusal.
NoteRefused ==
  /\ reader.pc = "note"
  /\ reader' = [reader EXCEPT !.pc = "top"]
  /\ IF reader.said # "ours" THEN refused' = TRUE /\ watch' = watch
     ELSE LET new == watch.armed /\ ~watch.recovering
          IN /\ refused' = refused
             /\ watch' = [armed |-> watch.armed /\ ~new,
                          recovering |-> watch.recovering \/ new,
                          owed |-> watch.owed \/ new]
  /\ UNCHANGED <<box, slot, held, lock, turn, rc, caller, ka, stop, failed,
                 swallowed, spent>>

\* note_hello: another protocol is refused; a new boot owes a recovery.
NoteHello ==
  /\ reader.pc = "note"
  /\ reader' = [reader EXCEPT !.pc = "top"]
  /\ IF reader.said # "ours" THEN refused' = TRUE /\ watch' = watch
     ELSE LET armed == watch.armed \/ refused
              new == armed /\ ~watch.recovering
          IN /\ refused' = FALSE
             /\ watch' = [armed |-> armed /\ ~new,
                          recovering |-> watch.recovering \/ new,
                          owed |-> watch.owed \/ new]
  /\ UNCHANGED <<box, slot, held, lock, turn, rc, caller, ka, stop, failed,
                 swallowed, spent>>

ReadError ==
  /\ reader.pc = "read"
  /\ reader.port # Disconnected /\ ~Alive(reader.port)
  /\ reader' = [reader EXCEPT !.pc = "auto"]
  /\ UNCHANGED <<box, slot, refused, held, watch, lock, turn, rc, caller, ka,
                 stop, failed, swallowed, spent>>

\* Mutant: a loop that does not look at the stop.
AutoHeedless ==
  /\ reader.pc = "auto" /\ rc["reader"].pc = "idle"
  /\ rc' = [rc EXCEPT !["reader"].pc = "start"]
  /\ UNCHANGED <<box, slot, refused, held, watch, lock, turn, reader, caller,
                 ka, stop, failed, swallowed, spent>>

\* auto_reconnect's loop: another attempt, until one succeeds or the stop.
AutoReconnect ==
  /\ reader.pc = "auto" /\ rc["reader"].pc = "idle"
  /\ IF stop THEN reader' = [reader EXCEPT !.pc = "top"] /\ rc' = rc
     ELSE reader' = reader /\ rc' = [rc EXCEPT !["reader"].pc = "start"]
  /\ UNCHANGED <<box, slot, refused, held, watch, lock, turn, caller, ka, stop,
                 failed, swallowed, spent>>

-----------------------------------------------------------------------------
(* reconnect(), run by the reader or by a user.                             *)

Idle == [pc |-> "idle", left |-> {}, port |-> Disconnected, booted |-> FALSE,
         replay |-> FALSE]

\* The attempt is over, the reader's loop with it when it succeeded.
Ends(a, ok) ==
  /\ rc' = [rc EXCEPT ![a] = Idle]
  /\ turn' = "none"
  /\ reader' = IF a = "reader" /\ ok THEN [reader EXCEPT !.pc = "top"] ELSE reader

UserReconnects ==
  /\ rc["user"].pc = "idle" /\ ~stop
  /\ spent.events < MaxEvents
  /\ rc' = [rc EXCEPT !["user"].pc = "start"]
  /\ spent' = [spent EXCEPT !.events = @ + 1]
  /\ UNCHANGED <<box, slot, refused, held, watch, lock, turn, reader, caller,
                 ka, stop, failed, swallowed>>

\* The ports listed: those that serve our box's serial number, or else all.
\* An adapter may serve none.
Listed ==
  LET all == {w \in {"ours", "theirs"} : (w = "ours" /\ box.here) \/ (w = "theirs" /\ Neighbour)}
  IN IF box.here THEN {{"ours"}, all} ELSE {all}

\* No port listed is an error before anything is swapped out.
Scan(a) ==
  /\ rc[a].pc = "start" /\ turn = "none"
  /\ \E left \in Listed :
       IF left = {}
       THEN Ends(a, FALSE) /\ UNCHANGED <<slot, refused>>
       ELSE /\ turn' = a
            /\ Swap(Disconnected)
            /\ rc' = [rc EXCEPT ![a] = [Idle EXCEPT !.pc = "open", !.left = left]]
            /\ UNCHANGED reader
  /\ UNCHANGED <<box, held, watch, lock, caller, ka, stop, failed, swallowed, spent>>

\* The 200 ms after the swap outlast a read (IO_TIMEOUT), so the reader has
\* left the old port and done with what it read there.
ReaderIsOff == ~(reader.pc \in {"read", "note"} /\ reader.port # Disconnected)

\* Opening a port drops what came before.
Open(a) ==
  /\ rc[a].pc = "open" /\ ReaderIsOff
  /\ \E w \in rc[a].left :
       LET left == rc[a].left \ {w}
           opens == w = "theirs" \/ box.here
           port == [who |-> w, plug |-> IF w = "ours" THEN box.plug ELSE 0]
       IN /\ rc' = [rc EXCEPT ![a].left = left,
                              ![a].pc = IF opens THEN "probe" ELSE "open",
                              ![a].port = IF opens THEN port ELSE Disconnected]
          /\ box' = IF w = "ours" THEN [box EXCEPT !.hello = FALSE] ELSE box
          /\ swallowed' = (swallowed \/ (w = "ours" /\ LastHello))
  /\ UNCHANGED <<slot, refused, held, watch, lock, turn, reader, caller, ka,
                 stop, failed, spent>>

NoneLeft(a) ==
  /\ rc[a].pc = "open" /\ rc[a].left = {}
  /\ Ends(a, FALSE)
  /\ UNCHANGED <<box, slot, refused, held, watch, lock, caller, ka, stop,
                 failed, swallowed, spent>>

\* Mutant: the MAC is not compared.
AdoptableAny(p) == p.who = "theirs" \/ box.proto = "ours"

\* A version that is not our box's, or not this build's.
Adoptable(p) == p.who = "ours" /\ box.proto = "ours"

\* Mutant: a hello that goes past the probe is not noticed.
ProbeDeaf(a) ==
  LET p == rc[a].port
      ours == p.who = "ours"
  IN /\ rc[a].pc = "probe"
     /\ Alive(p) /\ (ours => box.chip # "boot")
     /\ rc' = [rc EXCEPT ![a].pc = IF Adoptable(p) THEN "caps" ELSE "open",
                         ![a].booted = FALSE]
     /\ box' = IF ours THEN [box EXCEPT !.met = TRUE, !.hello = FALSE] ELSE box
     /\ UNCHANGED <<slot, refused, held, watch, lock, turn, reader, caller, ka,
                    stop, failed, swallowed, spent>>

\* Says whether the box's hello went past as well.
ProbeAnswered(a) ==
  LET p == rc[a].port
      ours == p.who = "ours"
  IN /\ rc[a].pc = "probe"
     /\ Alive(p) /\ (ours => box.chip # "boot")
     /\ rc' = [rc EXCEPT ![a].pc = IF Adoptable(p) THEN "caps" ELSE "open",
                         ![a].booted = ours /\ (box.hello \/ ~box.met)]
     /\ box' = IF ours THEN [box EXCEPT !.met = TRUE, !.hello = FALSE] ELSE box
     /\ UNCHANGED <<slot, refused, held, watch, lock, turn, reader, caller, ka,
                    stop, failed, swallowed, spent>>

\* A port pulled, or a chip that takes longer than PROBE_DEADLINE to boot.
ProbeUnanswered(a) ==
  /\ rc[a].pc = "probe" /\ rc[a].port.who = "ours"
  /\ ~Alive(rc[a].port) \/ box.chip = "boot"
  /\ rc' = [rc EXCEPT ![a].pc = "open"]
  /\ UNCHANGED <<box, slot, refused, held, watch, lock, turn, reader, caller,
                 ka, stop, failed, swallowed, spent>>

\* The CAPS and CLIP probes look for no hello, and take one that comes.
Overheard(p) == Alive(p) /\ box.chip # "boot" /\ (box.hello \/ ~box.met)
Overhear(heard) ==
  /\ swallowed' = (swallowed \/ heard)
  /\ box' = IF heard THEN [box EXCEPT !.met = TRUE, !.hello = FALSE] ELSE box

\* The button count, asked before the lock is taken; no answer leaves it as it was.
CapsProbed(a) ==
  /\ rc[a].pc = "caps"
  /\ rc' = [rc EXCEPT ![a].pc = "adopt"]
  /\ Overhear(Overheard(rc[a].port))
  /\ UNCHANGED <<slot, refused, held, watch, lock, turn, reader, caller, ka,
                 stop, failed, spent>>

\* Mutant: the replay takes no lock.
AdoptUnlocked(a) == lock' = lock

\* Under catch_lock to the end of the replay, the CLIP probe first.  A chip that
\* booted has no clone yet: it is asked nothing, and its recovery sends everything.
AdoptLock(a) == lock = "none" /\ lock' = IF rc[a].booted THEN "none" ELSE a

Adopt(a) ==
  LET p == rc[a].port
  IN /\ rc[a].pc = "adopt"
     /\ AdoptLock(a)
     /\ Swap(p)
     /\ Overhear(~rc[a].booted /\ Overheard(p))
     /\ IF rc[a].booted
        THEN watch' = [watch EXCEPT !.recovering = TRUE, !.owed = TRUE] /\ Ends(a, TRUE)
        ELSE /\ rc' = [rc EXCEPT ![a].pc = "replay", ![a].replay = held]
             /\ UNCHANGED <<watch, turn, reader>>
     /\ UNCHANGED <<held, caller, ka, stop, failed, spent>>

\* reapply_locked: what is held is sent; what is not is not released.
Replay(a) ==
  /\ rc[a].pc = "replay"
  /\ lock' = IF lock = a THEN "none" ELSE lock
  /\ LET ok == rc[a].replay => CanWrite(slot)
     IN /\ box' = IF rc[a].replay /\ ok THEN Taken(box, TRUE) ELSE box
        /\ Ends(a, ok)
  /\ UNCHANGED <<slot, refused, held, watch, caller, ka, stop, failed,
                 swallowed, spent>>

-----------------------------------------------------------------------------
(* A user's press or release (Device::inject).                              *)

NoCall == [pc |-> "idle", press |-> FALSE, port |-> Disconnected]

\* The key is recorded first; a box on another protocol is an error at once.
CallBegins ==
  /\ caller.pc = "idle" /\ ~stop /\ spent.calls < MaxCalls
  /\ lock = "none"
  /\ spent' = [spent EXCEPT !.calls = @ + 1]
  /\ \E press \in BOOLEAN :
       /\ held' = press
       /\ IF refused
          THEN failed' = TRUE /\ UNCHANGED <<caller, lock>>
          ELSE /\ caller' = [pc |-> "send", press |-> press, port |-> slot]
               /\ lock' = "caller"
               /\ UNCHANGED failed
  /\ UNCHANGED <<box, slot, refused, watch, turn, reader, rc, ka, stop, swallowed>>

\* The port is the one the call was given, swapped out since or not.
CallSends ==
  /\ caller.pc = "send"
  /\ failed' = ~Alive(caller.port)
  /\ box' = IF Alive(caller.port) THEN Taken(box, caller.press) ELSE box
  /\ caller' = NoCall
  /\ lock' = "none"
  /\ UNCHANGED <<slot, refused, held, watch, turn, reader, rc, ka, stop,
                 swallowed, spent>>

-----------------------------------------------------------------------------
(* The keepalive thread, and the end.                                       *)

Answers == CanWrite(slot) /\ box.chip # "boot" /\ box.proto = "ours"

TakeOwed ==
  /\ ka \in {"idle", "pending"} /\ watch.owed
  /\ watch' = [watch EXCEPT !.owed = FALSE]
  /\ ka' = "pending"
  /\ UNCHANGED <<box, slot, refused, held, lock, turn, reader, rc, caller,
                 stop, failed, swallowed, spent>>

\* A tick that reads the session counter, while anything is held.
SeeRelease ==
  /\ ka = "idle" /\ ~watch.owed /\ held
  /\ Answers /\ reader.port = slot
  /\ box.moved
  /\ box' = [box EXCEPT !.moved = FALSE, !.met = TRUE, !.hello = @ \/ ~box.met]
  /\ watch' = [watch EXCEPT !.armed = TRUE, !.recovering = TRUE]
  /\ ka' = "pending"
  /\ UNCHANGED <<slot, refused, held, lock, turn, reader, rc, caller, stop,
                 failed, swallowed, spent>>

\* A recovery that goes through; one that a boot or a release interrupts
\* starts over, which module Recovery follows step by step.
Recover ==
  /\ ka = "pending" /\ lock = "none"
  /\ Answers /\ box.chip = "up" /\ reader.port = slot
  /\ LET greeted == [box EXCEPT !.met = TRUE, !.hello = @ \/ ~box.met, !.moved = FALSE]
     IN box' = IF held THEN Taken(greeted, TRUE) ELSE greeted
  /\ watch' = [watch EXCEPT !.armed = TRUE, !.recovering = watch.owed]
  /\ ka' = IF watch.owed THEN "pending" ELSE "idle"
  /\ UNCHANGED <<slot, refused, held, lock, turn, reader, rc, caller, stop,
                 failed, swallowed, spent>>

\* The last handle is dropped, so no call is under way.
LastDrop ==
  /\ ~stop /\ caller.pc = "idle" /\ rc["user"].pc = "idle"
  /\ stop' = TRUE
  /\ UNCHANGED <<box, slot, refused, held, watch, lock, turn, reader, rc,
                 caller, ka, failed, swallowed, spent>>

KeepaliveExits ==
  /\ stop /\ ka # "exited"
  /\ ka' = "exited"
  /\ UNCHANGED <<box, slot, refused, held, watch, lock, turn, reader, rc,
                 caller, stop, failed, swallowed, spent>>

-----------------------------------------------------------------------------
Init ==
  /\ box = [here |-> TRUE, plug |-> 0, chip |-> "up", proto |-> "ours",
            holds |-> FALSE, met |-> TRUE, hello |-> FALSE, moved |-> FALSE]
  /\ slot = [who |-> "ours", plug |-> 0]
  /\ refused = FALSE /\ held = FALSE
  /\ watch = [armed |-> TRUE, recovering |-> FALSE, owed |-> FALSE]
  /\ lock = "none" /\ turn = "none"
  /\ reader = [pc |-> "top", port |-> slot, said |-> "ours"]
  /\ rc = [a \in Actors |-> Idle]
  /\ caller = NoCall
  /\ ka = "idle" /\ stop = FALSE
  /\ failed = FALSE /\ swallowed = FALSE
  /\ spent = [events |-> 0, calls |-> 0]

ReaderStep ==
  \/ ReaderTop \/ ReadNothing \/ ReadReply \/ ReadHello \/ NoteHello
  \/ ReadError \/ AutoReconnect

Reconnecting(a) ==
  \/ Scan(a) \/ Open(a) \/ NoneLeft(a) \/ ProbeAnswered(a) \/ ProbeUnanswered(a)
  \/ CapsProbed(a) \/ Adopt(a) \/ Replay(a)

Next ==
  \/ Unplug \/ Plug \/ Silence \/ Boot \/ SayHello \/ CloneUp
  \/ ReaderStep
  \/ \E a \in Actors : Reconnecting(a)
  \/ UserReconnects \/ CallBegins \/ CallSends
  \/ TakeOwed \/ SeeRelease \/ Recover
  \/ LastDrop \/ KeepaliveExits

Spec == Init /\ [][Next]_vars

\* Every thread keeps running, a chip that boots comes up, and a hello that
\* stays on the line is read in the end.
FairSpec ==
  /\ Spec
  /\ WF_vars(SayHello) /\ WF_vars(CloneUp)
  /\ WF_vars(ReaderStep) /\ SF_vars(ReadHello)
  /\ \A a \in Actors : WF_vars(Reconnecting(a))
  /\ WF_vars(CallSends)
  /\ WF_vars(TakeOwed) /\ SF_vars(SeeRelease) /\ SF_vars(Recover)
  /\ WF_vars(KeepaliveExits)

-----------------------------------------------------------------------------
Readings == [pc : {"top", "read", "note", "auto", "exited"}, port : Slots, said : Protos]
Attempts == [pc : {"idle", "start", "open", "probe", "caps", "adopt", "replay"},
             left : SUBSET {"ours", "theirs"}, port : Slots, booted : BOOLEAN, replay : BOOLEAN]
Calls == [pc : {"idle", "send"}, press : BOOLEAN, port : Slots]
Watches == [armed : BOOLEAN, recovering : BOOLEAN, owed : BOOLEAN]

TypeOK ==
  /\ box \in Box
  /\ slot \in Slots /\ refused \in BOOLEAN /\ held \in BOOLEAN
  /\ watch \in Watches
  /\ lock \in Actors \cup {"none", "caller"} /\ turn \in Actors \cup {"none"}
  /\ reader \in Readings /\ rc \in [Actors -> Attempts] /\ caller \in Calls
  /\ ka \in {"idle", "pending", "exited"} /\ stop \in BOOLEAN
  /\ failed \in BOOLEAN /\ swallowed \in BOOLEAN
  /\ spent \in [events : Nat, calls : Nat]

\* No port but our box's is ever in the slot, so no command reaches the other
\* box, whatever the two do while the crate looks for ours (adopt_first).
OnlyOurBox == slot.who # "theirs"

\* A key the box holds and the crate does not was left there by a release
\* that returned an error: no replay brings a released key back.
GhostIsReported ==
  box.holds /\ ~held => failed \/ caller.pc = "send"

\* A key the crate holds and a box in use does not is about to be sent:
\* somebody still has to send it, hear of the boot or read the counter.
LossIsOwed ==
  held /\ ~box.holds /\ Answers /\ slot.who = "ours" /\ ~swallowed =>
    \/ caller.pc = "send" \/ \E a \in Actors : rc[a].pc = "replay"
    \/ ka # "idle" \/ watch.owed
    \/ box.hello \/ ~box.met \/ reader.pc = "note"
    \/ box.moved

Steady == box.here /\ box.proto = "ours" /\ ~stop

\* A user's reconnect gave up and the reader is content with no port.
Stranded ==
  /\ slot = Disconnected
  /\ reader.pc \in {"top", "read"}
  /\ \A a \in Actors : rc[a].pc = "idle"

\* Once the box stays, the crate is on it again and the key is held, unless
\* a user's reconnect left the link without a port.
Heals ==
  <>[](Steady /\ ~Stranded /\ ~swallowed) =>
    <>[](Alive(slot) /\ ~refused /\ (held => box.holds))

\* Dropping the last handle ends both threads, a reconnect under way or not.
JoinEnds == stop ~> (reader.pc = "exited" /\ ka = "exited")
=============================================================================
