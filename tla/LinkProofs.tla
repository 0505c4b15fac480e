----------------------------- MODULE LinkProofs -----------------------------
(***************************************************************************)
(* Proofs about the link, for any number of unplugs, boots, reconnects and *)
(* calls: every state has its type, no port but our own box's is ever in   *)
(* use, no replay brings a released key back, and a key the box lost is    *)
(* owed to somebody who sends it again.                                    *)
(***************************************************************************)
EXTENDS Link, TLAPS

LEMMA InitType == Init => TypeOK
<1> SUFFICES ASSUME Init PROVE TypeOK OBVIOUS
<1> USE DEF Init
<1>1. box \in Box BY DEF Box, Protos
<1>2. slot \in Slots BY DEF Slots, Ports
<1>3. rc \in [Actors -> Attempts] BY DEF Attempts, Idle, Slots, Disconnected
<1>4. caller \in Calls BY DEF Calls, NoCall, Slots
<1>5. reader \in Readings BY <1>2 DEF Readings, Protos
<1>6. watch \in Watches BY DEF Watches
<1>7. spent \in [events : Nat, calls : Nat] OBVIOUS
<1> QED BY <1>1, <1>2, <1>3, <1>4, <1>5, <1>6, <1>7 DEF TypeOK

-----------------------------------------------------------------------------
(* The box and its port.                                                    *)

LEMMA TakenType ==
  ASSUME NEW b \in Box, NEW press \in BOOLEAN
  PROVE  Taken(b, press) \in Box
  BY DEF Taken, Box

LEMMA BoxType ==
  ASSUME TypeOK, Unplug \/ Plug \/ Silence \/ Boot \/ SayHello \/ CloneUp
  PROVE  TypeOK'
<1>1. box' \in Box
  <2> USE DEF TypeOK, Box
  <2>1. CASE Unplug BY <2>1 DEF Unplug
  <2>2. CASE Plug
    <3>1. box.plug + 1 \in Nat OBVIOUS
    <3> QED BY <2>2, <3>1 DEF Plug
  <2>3. CASE Silence BY <2>3 DEF Silence
  <2>4. CASE Boot BY <2>4 DEF Boot
  <2>5. CASE SayHello BY <2>5 DEF SayHello
  <2>6. CASE CloneUp BY <2>6 DEF CloneUp
  <2> QED BY <2>1, <2>2, <2>3, <2>4, <2>5, <2>6
<1>2. spent' \in [events : Nat, calls : Nat]
  <2>1. spent.events + 1 \in Nat BY DEF TypeOK
  <2>2. spent' = [spent EXCEPT !.events = spent.events + 1] \/ spent' = spent
    BY DEF Unplug, Plug, Silence, Boot, SayHello, CloneUp
  <2> QED BY <2>1, <2>2 DEF TypeOK
<1>3. swallowed' \in BOOLEAN
  BY DEF TypeOK, Unplug, Plug, Silence, Boot, SayHello, CloneUp, hostVars
<1>4. /\ slot' = slot /\ refused' = refused /\ held' = held /\ watch' = watch /\ lock' = lock
      /\ turn' = turn /\ reader' = reader /\ rc' = rc /\ caller' = caller /\ ka' = ka
      /\ stop' = stop /\ failed' = failed
  BY DEF Unplug, Plug, Silence, Boot, SayHello, CloneUp, hostVars
<1> QED BY <1>1, <1>2, <1>3, <1>4 DEF TypeOK

-----------------------------------------------------------------------------
(* The reader thread.                                                       *)

LEMMA ReaderType ==
  ASSUME TypeOK, ReaderStep
  PROVE  TypeOK'
<1>1. box' \in Box BY DEF TypeOK, Box, ReaderStep, ReaderTop, ReadNothing, ReadReply, ReadHello, NoteHello, ReadError, AutoReconnect
<1>2. watch' \in Watches /\ refused' \in BOOLEAN
  <2>1. CASE NoteHello
    <3> DEFINE armed == watch.armed \/ refused
               new == armed /\ ~watch.recovering
    <3>1. armed \in BOOLEAN /\ new \in BOOLEAN BY DEF TypeOK, Watches
    <3>2. \/ watch' = watch
          \/ watch' = [armed |-> armed /\ ~new, recovering |-> watch.recovering \/ new,
                       owed |-> watch.owed \/ new]
      BY <2>1 DEF NoteHello
    <3>3. watch' \in Watches BY <3>1, <3>2 DEF TypeOK, Watches
    <3> QED BY <2>1, <3>3 DEF NoteHello, TypeOK
  <2>2. CASE ReadReply BY <2>2 DEF ReadReply, TypeOK, Watches
  <2>3. CASE ReaderTop \/ ReadNothing \/ ReadHello \/ ReadError \/ AutoReconnect
    BY <2>3 DEF TypeOK, ReaderTop, ReadNothing, ReadHello, ReadError, AutoReconnect
  <2> QED BY <2>1, <2>2, <2>3 DEF ReaderStep
<1>3. reader' \in Readings
  <2> USE DEF TypeOK, Readings, Protos
  <2>1. CASE ReaderTop BY <2>1 DEF ReaderTop
  <2>2. CASE ReadHello BY <2>2 DEF ReadHello, Box, Protos
  <2>3. CASE ReadNothing \/ ReadReply \/ NoteHello \/ ReadError \/ AutoReconnect
    BY <2>3 DEF ReadNothing, ReadReply, NoteHello, ReadError, AutoReconnect
  <2> QED BY <2>1, <2>2, <2>3 DEF ReaderStep
<1>4. rc' \in [Actors -> Attempts]
  <2>1. rc' = rc \/ rc' = [rc EXCEPT !["reader"].pc = "start"]
    BY DEF ReaderStep, ReaderTop, ReadNothing, ReadReply, ReadHello, NoteHello, ReadError, AutoReconnect
  <2> QED BY <2>1 DEF TypeOK, Attempts, Actors
<1>5. /\ slot' = slot /\ held' = held /\ lock' = lock /\ turn' = turn /\ caller' = caller
      /\ ka' = ka /\ stop' = stop /\ failed' = failed /\ swallowed' = swallowed /\ spent' = spent
  BY DEF ReaderStep, ReaderTop, ReadNothing, ReadReply, ReadHello, NoteHello, ReadError, AutoReconnect
<1> QED BY <1>1, <1>2, <1>3, <1>4, <1>5 DEF TypeOK

-----------------------------------------------------------------------------
(* A reconnect, the reader's or a user's.                                   *)

LEMMA EndsType ==
  ASSUME TypeOK, NEW a \in Actors, NEW ok \in BOOLEAN, Ends(a, ok)
  PROVE  rc' \in [Actors -> Attempts] /\ turn' \in Actors \cup {"none"} /\ reader' \in Readings
  BY DEF TypeOK, Ends, Attempts, Readings, Idle, Slots, Disconnected

LEMMA ReconnectType ==
  ASSUME TypeOK, NEW a \in Actors, Reconnecting(a)
  PROVE  TypeOK'
<1> USE DEF TypeOK
<1>1. CASE Scan(a)
  <2>1. slot' \in Slots /\ refused' \in BOOLEAN BY <1>1 DEF Scan, Swap, Slots, Disconnected
  <2>2. rc' \in [Actors -> Attempts] /\ turn' \in Actors \cup {"none"} /\ reader' \in Readings
    <3> PICK left \in Listed :
          IF left = {} THEN Ends(a, FALSE)
          ELSE /\ turn' = a
               /\ rc' = [rc EXCEPT ![a] = [Idle EXCEPT !.pc = "open", !.left = left]]
               /\ UNCHANGED reader
      BY <1>1 DEF Scan
    <3>1. left \in SUBSET {"ours", "theirs"} BY DEF Listed
    <3>2. [Idle EXCEPT !.pc = "open", !.left = left] \in Attempts
      BY <3>1 DEF Attempts, Idle, Slots, Disconnected
    <3>3. CASE left = {} BY <3>3, EndsType
    <3>4. CASE left # {} BY <3>2, <3>4
    <3> QED BY <3>3, <3>4
  <2> QED BY <1>1, <2>1, <2>2 DEF Scan
<1>2. CASE Open(a)
  <2>1. box' \in Box BY <1>2 DEF Open, Box
  <2>2. rc' \in [Actors -> Attempts]
    <3> PICK left \in SUBSET {"ours", "theirs"}, pc \in {"probe", "open"}, port \in Slots :
          rc' = [rc EXCEPT ![a].left = left, ![a].pc = pc, ![a].port = port]
      <4> PICK w \in rc[a].left :
            LET left == rc[a].left \ {w}
                opens == w = "theirs" \/ box.here
                port == [who |-> w, plug |-> IF w = "ours" THEN box.plug ELSE 0]
            IN rc' = [rc EXCEPT ![a].left = left,
                                ![a].pc = IF opens THEN "probe" ELSE "open",
                                ![a].port = IF opens THEN port ELSE Disconnected]
        BY <1>2 DEF Open
      <4>1. rc[a].left \in SUBSET {"ours", "theirs"} BY DEF Attempts
      <4>2. [who |-> w, plug |-> IF w = "ours" THEN box.plug ELSE 0] \in Slots
        BY <4>1 DEF Slots, Ports, Box
      <4> QED BY <4>1, <4>2 DEF Slots
    <3> DEFINE attempt == [rc[a] EXCEPT !.left = left, !.pc = pc, !.port = port]
    <3>1. attempt \in Attempts BY DEF Attempts
    <3>2. rc' = [rc EXCEPT ![a] = attempt] OBVIOUS
    <3> HIDE DEF attempt
    <3> QED BY <3>1, <3>2
  <2>3. swallowed' \in BOOLEAN BY <1>2 DEF Open, LastHello, Box
  <2> QED BY <1>2, <2>1, <2>2, <2>3 DEF Open
<1>3. CASE NoneLeft(a) BY <1>3, EndsType DEF NoneLeft
<1>4. CASE ProbeAnswered(a)
  <2>1. box' \in Box BY <1>4 DEF ProbeAnswered, Box
  <2>2. rc' \in [Actors -> Attempts]
    <3> DEFINE booted == rc[a].port.who = "ours" /\ (box.hello \/ ~box.met)
    <3>1. PICK pc \in {"caps", "open"} : rc' = [rc EXCEPT ![a].pc = pc, ![a].booted = booted]
      BY <1>4 DEF ProbeAnswered
    <3> DEFINE attempt == [rc[a] EXCEPT !.pc = pc, !.booted = booted]
    <3>2. attempt \in Attempts
      <4>1. rc[a] \in Attempts /\ box \in Box OBVIOUS
      <4>2. booted \in BOOLEAN BY ONLY <4>1 DEF Box
      <4> HIDE DEF booted
      <4> QED BY ONLY <4>1, <4>2 DEF Attempts
    <3>3. rc' = [rc EXCEPT ![a] = attempt] BY <3>1
    <3> HIDE DEF attempt
    <3> QED BY <3>2, <3>3
  <2> QED BY <1>4, <2>1, <2>2 DEF ProbeAnswered
<1>5. CASE ProbeUnanswered(a)
  <2>1. rc' \in [Actors -> Attempts] BY <1>5 DEF ProbeUnanswered, Attempts
  <2> QED BY <1>5, <2>1 DEF ProbeUnanswered
<1>8. CASE CapsProbed(a)
  <2>1. box' \in Box /\ swallowed' \in BOOLEAN BY <1>8 DEF CapsProbed, Overhear, Overheard, Box
  <2>2. rc' \in [Actors -> Attempts] BY <1>8 DEF CapsProbed, Attempts
  <2> QED BY <1>8, <2>1, <2>2 DEF CapsProbed
<1>6. CASE Adopt(a)
  <2>1. box' \in Box BY <1>6 DEF Adopt, Overhear, Box
  <2>2. slot' \in Slots /\ refused' \in BOOLEAN BY <1>6 DEF Adopt, Swap, Attempts
  <2>3. swallowed' \in BOOLEAN BY <1>6 DEF Adopt, Overhear, Overheard, Box
  <2>4. lock' \in Actors \cup {"none", "caller"} BY <1>6 DEF Adopt, AdoptLock
  <2>5. watch' \in Watches BY <1>6 DEF Adopt, Watches
  <2>6. rc' \in [Actors -> Attempts] /\ turn' \in Actors \cup {"none"} /\ reader' \in Readings
    <3>1. CASE rc[a].booted BY <1>6, <3>1, EndsType DEF Adopt
    <3>2. CASE ~rc[a].booted BY <1>6, <3>2 DEF Adopt, Attempts
    <3> QED BY <3>1, <3>2
  <2> QED BY <1>6, <2>1, <2>2, <2>3, <2>4, <2>5, <2>6 DEF Adopt
<1>7. CASE Replay(a)
  <2>1. box' \in Box BY <1>7, TakenType DEF Replay
  <2>2. lock' \in Actors \cup {"none", "caller"} BY <1>7 DEF Replay
  <2>3. (rc[a].replay => CanWrite(slot)) \in BOOLEAN OBVIOUS
  <2>4. rc' \in [Actors -> Attempts] /\ turn' \in Actors \cup {"none"} /\ reader' \in Readings
    BY <1>7, <2>3, EndsType DEF Replay
  <2> QED BY <1>7, <2>1, <2>2, <2>4 DEF Replay
<1> QED BY <1>1, <1>2, <1>3, <1>4, <1>5, <1>6, <1>7, <1>8 DEF Reconnecting

-----------------------------------------------------------------------------
(* The callers, the keepalive thread, the end.                              *)

LEMMA CallType ==
  ASSUME TypeOK, UserReconnects \/ CallBegins \/ CallSends
  PROVE  TypeOK'
<1> USE DEF TypeOK
<1>1. CASE UserReconnects
  <2>1. spent' \in [events : Nat, calls : Nat] BY <1>1 DEF UserReconnects
  <2>2. rc' \in [Actors -> Attempts] BY <1>1 DEF UserReconnects, Attempts, Actors
  <2> QED BY <1>1, <2>1, <2>2 DEF UserReconnects
<1>2. CASE CallBegins
  <2>1. spent' \in [events : Nat, calls : Nat] BY <1>2 DEF CallBegins
  <2>2. caller' \in Calls BY <1>2 DEF CallBegins, Calls
  <2> QED BY <1>2, <2>1, <2>2 DEF CallBegins
<1>3. CASE CallSends
  <2>1. box' \in Box BY <1>3, TakenType DEF CallSends, Calls
  <2>2. failed' \in BOOLEAN /\ lock' \in Actors \cup {"none", "caller"} BY <1>3 DEF CallSends
  <2>3. caller' \in Calls BY <1>3 DEF CallSends, NoCall, Calls, Slots
  <2> QED BY <1>3, <2>1, <2>2, <2>3 DEF CallSends
<1> QED BY <1>1, <1>2, <1>3

LEMMA RestType ==
  ASSUME TypeOK, TakeOwed \/ SeeRelease \/ Recover \/ LastDrop \/ KeepaliveExits
  PROVE  TypeOK'
<1> USE DEF TypeOK
<1>1. CASE TakeOwed BY <1>1 DEF TakeOwed, Watches
<1>2. CASE SeeRelease
  <2>1. box' \in Box BY <1>2 DEF SeeRelease, Box
  <2>2. watch' \in Watches BY <1>2 DEF SeeRelease, Watches
  <2> QED BY <1>2, <2>1, <2>2 DEF SeeRelease
<1>3. CASE Recover
  <2> DEFINE greeted == [box EXCEPT !.met = TRUE, !.hello = @ \/ ~box.met, !.moved = FALSE]
  <2>1. greeted \in Box BY DEF Box
  <2>2. box' \in Box BY <1>3, <2>1, TakenType DEF Recover
  <2>3. watch' \in Watches BY <1>3 DEF Recover, Watches
  <2> QED BY <1>3, <2>2, <2>3 DEF Recover
<1>4. CASE LastDrop BY <1>4 DEF LastDrop
<1>5. CASE KeepaliveExits BY <1>5 DEF KeepaliveExits
<1> QED BY <1>1, <1>2, <1>3, <1>4, <1>5

LEMMA StutterType == TypeOK /\ UNCHANGED vars => TypeOK'
  BY DEF TypeOK, vars

\* Every variable keeps its type, whatever the threads, the users and the box do.
THEOREM TypeCorrect == Spec => []TypeOK
<1>1. TypeOK /\ [Next]_vars => TypeOK'
  BY BoxType, ReaderType, ReconnectType, CallType, RestType, StutterType DEF Next
<1> QED BY InitType, <1>1, PTL DEF Spec

-----------------------------------------------------------------------------
(* Only our own box's port is ever adopted.                                 *)

OursInv ==
  /\ TypeOK
  /\ OnlyOurBox
  /\ \A a \in Actors : rc[a].pc \in {"caps", "adopt"} => rc[a].port.who = "ours"

LEMMA OursInit == Init => OursInv
  BY InitType DEF Init, OursInv, OnlyOurBox, Idle

LEMMA OursReconnect ==
  ASSUME OursInv, NEW a \in Actors, Reconnecting(a)
  PROVE  OnlyOurBox' /\ \A b \in Actors : rc'[b].pc \in {"caps", "adopt"} => rc'[b].port.who = "ours"
<1> USE DEF OursInv, TypeOK, OnlyOurBox
<1>1. CASE Scan(a)
  <2> PICK left \in Listed :
        IF left = {} THEN Ends(a, FALSE) /\ UNCHANGED <<slot, refused>>
        ELSE /\ turn' = a
             /\ Swap(Disconnected)
             /\ rc' = [rc EXCEPT ![a] = [Idle EXCEPT !.pc = "open", !.left = left]]
             /\ UNCHANGED reader
    BY <1>1 DEF Scan
  <2>1. CASE left = {} BY <2>1 DEF Ends, Idle
  <2>2. CASE left # {}
    <3>0. Swap(Disconnected) BY <2>2
    <3>1. slot'.who = "none" BY ONLY <3>0 DEF Swap, Disconnected
    <3>2. \A b \in Actors : rc'[b] = IF b = a THEN [Idle EXCEPT !.pc = "open", !.left = left] ELSE rc[b]
      BY <2>2
    <3> QED BY <3>1, <3>2 DEF Idle
  <2> QED BY <2>1, <2>2
<1>2. CASE Open(a)
  <2>1. PICK pc \in {"probe", "open"} : \A b \in Actors :
          IF b = a THEN rc'[b].pc = pc ELSE rc'[b] = rc[b]
    BY <1>2 DEF Open, Attempts
  <2> QED BY <1>2, <2>1 DEF Open
<1>3. CASE NoneLeft(a) BY <1>3 DEF NoneLeft, Ends, Idle
<1>4. CASE ProbeAnswered(a) BY <1>4 DEF ProbeAnswered, Adoptable, Attempts
<1>5. CASE ProbeUnanswered(a) BY <1>5 DEF ProbeUnanswered, Attempts
<1>8. CASE CapsProbed(a) BY <1>8 DEF CapsProbed, Attempts
<1>6. CASE Adopt(a)
  <2>1. slot'.who # "theirs" BY <1>6 DEF Adopt, Swap
  <2>2. \A b \in Actors : rc'[b] = rc[b] \/ rc'[b].pc \in {"idle", "replay"}
    BY <1>6 DEF Adopt, Ends, Idle, Attempts
  <2> QED BY <2>1, <2>2
<1>7. CASE Replay(a) BY <1>7 DEF Replay, Ends, Idle
<1> QED BY <1>1, <1>2, <1>3, <1>4, <1>5, <1>6, <1>7, <1>8 DEF Reconnecting

LEMMA OursNext == OursInv /\ [Next]_vars => OursInv'
<1> SUFFICES ASSUME OursInv, [Next]_vars PROVE OursInv'
  OBVIOUS
<1>1. TypeOK'
  BY BoxType, ReaderType, ReconnectType, CallType, RestType, StutterType DEF OursInv, Next
<1>2. CASE \E a \in Actors : Reconnecting(a) BY <1>1, <1>2, OursReconnect DEF OursInv
<1>3. ASSUME ~\E a \in Actors : Reconnecting(a)
      PROVE  /\ slot' = slot
             /\ \A a \in Actors : rc'[a] = rc[a] \/ rc'[a].pc \notin {"caps", "adopt"}
  <2> USE DEF OursInv, TypeOK, Attempts, Actors
  <2>1. CASE Unplug \/ Plug \/ Silence \/ Boot \/ SayHello \/ CloneUp
    BY <2>1 DEF Unplug, Plug, Silence, Boot, SayHello, CloneUp, hostVars
  <2>2. CASE ReaderStep
    BY <2>2 DEF ReaderStep, ReaderTop, ReadNothing, ReadReply, ReadHello, NoteHello, ReadError, AutoReconnect
  <2>3. CASE UserReconnects \/ CallBegins \/ CallSends
    BY <2>3 DEF UserReconnects, CallBegins, CallSends
  <2>4. CASE TakeOwed \/ SeeRelease \/ Recover \/ LastDrop \/ KeepaliveExits
    BY <2>4 DEF TakeOwed, SeeRelease, Recover, LastDrop, KeepaliveExits
  <2>5. CASE UNCHANGED vars BY <2>5 DEF vars
  <2> QED BY <1>3, <2>1, <2>2, <2>3, <2>4, <2>5 DEF Next
<1> QED BY <1>1, <1>2, <1>3 DEF OursInv, OnlyOurBox

\* The port in use is never another box's, however many boxes answer a scan: a reconnect adopts
\* only the port whose probe gave our box's identity and this build's protocol.
THEOREM OwnBoxCorrect == Spec => []OnlyOurBox
<1>1. OursInv => OnlyOurBox BY DEF OursInv
<1> QED BY OursInit, OursNext, <1>1, PTL DEF Spec

-----------------------------------------------------------------------------
(* What is sent under catch_lock is what is held.                           *)

HoldsWhenUp == box.holds => box.chip = "up" /\ box.proto = "ours"
ReplayIsLocked ==
  \A a \in Actors : rc[a].pc = "replay" => lock = a /\ rc[a].replay = held
CallIsLocked == caller.pc = "send" => lock = "caller" /\ caller.press = held

GhostInv == TypeOK /\ HoldsWhenUp /\ ReplayIsLocked /\ CallIsLocked /\ GhostIsReported

LEMMA GhostInit == Init => GhostInv
<1> SUFFICES ASSUME Init PROVE GhostInv OBVIOUS
<1>1. TypeOK BY InitType
<1> QED BY <1>1 DEF Init, GhostInv, HoldsWhenUp, ReplayIsLocked, CallIsLocked, GhostIsReported, Idle, NoCall

\* The box drops the key, or keeps it as it was.
LEMMA GhostBox ==
  ASSUME GhostInv, Unplug \/ Plug \/ Silence \/ Boot \/ SayHello \/ CloneUp
  PROVE  HoldsWhenUp' /\ ReplayIsLocked' /\ CallIsLocked' /\ GhostIsReported'
<1>1. HoldsWhenUp' /\ (box'.holds => box.holds)
  <2> USE DEF GhostInv, HoldsWhenUp, TypeOK, Box
  <2>1. CASE Unplug BY <2>1 DEF Unplug
  <2>2. CASE Plug BY <2>2 DEF Plug
  <2>3. CASE Silence BY <2>3 DEF Silence
  <2>4. CASE Boot BY <2>4 DEF Boot
  <2>5. CASE SayHello BY <2>5 DEF SayHello
  <2>6. CASE CloneUp BY <2>6 DEF CloneUp
  <2> QED BY <2>1, <2>2, <2>3, <2>4, <2>5, <2>6
<1>2. UNCHANGED <<held, lock, rc, caller, failed>>
  BY DEF Unplug, Plug, Silence, Boot, SayHello, CloneUp, hostVars
<1> QED BY <1>1, <1>2 DEF GhostInv, ReplayIsLocked, CallIsLocked, GhostIsReported

LEMMA GhostReader ==
  ASSUME GhostInv, ReaderStep
  PROVE  HoldsWhenUp' /\ ReplayIsLocked' /\ CallIsLocked' /\ GhostIsReported'
<1>1. UNCHANGED <<held, lock, caller, failed>>
  BY DEF ReaderStep, ReaderTop, ReadNothing, ReadReply, ReadHello, NoteHello, ReadError, AutoReconnect
<1>2. box' = box \/ box' = [box EXCEPT !.hello = FALSE]
  BY DEF ReaderStep, ReaderTop, ReadNothing, ReadReply, ReadHello, NoteHello, ReadError, AutoReconnect
<1>3. rc' = rc \/ rc' = [rc EXCEPT !["reader"].pc = "start"]
  BY DEF ReaderStep, ReaderTop, ReadNothing, ReadReply, ReadHello, NoteHello, ReadError, AutoReconnect
<1>4. \A a \in Actors : rc'[a].pc = "replay" => rc'[a] = rc[a]
  BY <1>3 DEF GhostInv, TypeOK, Attempts
<1> QED BY <1>1, <1>2, <1>4 DEF GhostInv, HoldsWhenUp, ReplayIsLocked, CallIsLocked, GhostIsReported, TypeOK, Box

\* A frame leaves a chip that is not up alone, and another box's too.
LEMMA TakenHolds ==
  ASSUME NEW b \in Box, NEW press \in BOOLEAN, b.holds => b.chip = "up" /\ b.proto = "ours"
  PROVE  /\ Taken(b, press).holds => Taken(b, press).chip = "up" /\ Taken(b, press).proto = "ours"
         /\ Taken(b, press).holds => press
  BY DEF Taken, Box

LEMMA GhostReconnect ==
  ASSUME GhostInv, NEW a \in Actors, Reconnecting(a)
  PROVE  HoldsWhenUp' /\ ReplayIsLocked' /\ CallIsLocked' /\ GhostIsReported'
<1> USE DEF GhostInv
<1>0. held' = held /\ caller' = caller /\ failed' = failed
  BY DEF Reconnecting, Scan, Open, NoneLeft, ProbeAnswered, ProbeUnanswered, CapsProbed, Adopt, Replay
<1>1. CASE Scan(a) \/ Open(a) \/ NoneLeft(a) \/ ProbeAnswered(a) \/ ProbeUnanswered(a) \/ CapsProbed(a)
  <2>1. lock' = lock BY <1>1 DEF Scan, Open, NoneLeft, ProbeAnswered, ProbeUnanswered, CapsProbed
  <2>2. /\ box'.holds = box.holds /\ box'.chip = box.chip /\ box'.proto = box.proto
    BY <1>1 DEF Scan, Open, NoneLeft, ProbeAnswered, ProbeUnanswered, CapsProbed, Overhear, TypeOK, Box
  <2>3. \A b \in Actors : rc'[b].pc = "replay" => rc'[b] = rc[b]
    <3> USE DEF TypeOK, Attempts, Ends, Idle
    <3>1. CASE Scan(a)
      <4> PICK left \in Listed :
            IF left = {} THEN Ends(a, FALSE)
            ELSE rc' = [rc EXCEPT ![a] = [Idle EXCEPT !.pc = "open", !.left = left]]
        BY <3>1 DEF Scan
      <4>1. CASE left = {} BY <4>1
      <4>2. CASE left # {}
        <5>1. \A b \in Actors :
               rc'[b] = IF b = a THEN [Idle EXCEPT !.pc = "open", !.left = left] ELSE rc[b]
          BY <4>2
        <5> QED BY <5>1
      <4> QED BY <4>1, <4>2
    <3>2. CASE Open(a) BY <3>2 DEF Open
    <3>3. CASE NoneLeft(a) BY <3>3 DEF NoneLeft
    <3>4. CASE ProbeAnswered(a) BY <3>4 DEF ProbeAnswered
    <3>5. CASE ProbeUnanswered(a) BY <3>5 DEF ProbeUnanswered
    <3>6. CASE CapsProbed(a) BY <3>6 DEF CapsProbed
    <3> QED BY <1>1, <3>1, <3>2, <3>3, <3>4, <3>5, <3>6
  <2> QED BY <1>0, <2>1, <2>2, <2>3 DEF HoldsWhenUp, ReplayIsLocked, CallIsLocked, GhostIsReported
<1>2. CASE Adopt(a)
  <2>1. lock = "none" /\ lock' = IF rc[a].booted THEN "none" ELSE a BY <1>2 DEF Adopt, AdoptLock
  <2>2. /\ box'.holds = box.holds /\ box'.chip = box.chip /\ box'.proto = box.proto
    BY <1>2 DEF Adopt, Overhear, TypeOK, Box
  <2>3. \A b \in Actors : rc[b].pc # "replay" BY <2>1 DEF ReplayIsLocked, Actors
  <2>4. caller.pc # "send" BY <2>1 DEF CallIsLocked
  <2>5. \A b \in Actors : rc'[b].pc = "replay" => b = a /\ ~rc[a].booted /\ rc'[b].replay = held
    <3>1. CASE rc[a].booted BY <1>2, <2>3, <3>1 DEF Adopt, Ends, Idle, TypeOK
    <3>2. CASE ~rc[a].booted
      <4>1. rc' = [rc EXCEPT ![a].pc = "replay", ![a].replay = held] BY <1>2, <3>2 DEF Adopt
      <4> QED BY <2>3, <3>2, <4>1 DEF TypeOK, Attempts
    <3> QED BY <3>1, <3>2
  <2> QED BY <1>0, <2>1, <2>2, <2>4, <2>5 DEF HoldsWhenUp, ReplayIsLocked, CallIsLocked, GhostIsReported
<1>3. CASE Replay(a)
  <2>1. lock = a /\ rc[a].replay = held BY <1>3 DEF Replay, ReplayIsLocked
  <2>2. caller.pc # "send" BY <2>1 DEF CallIsLocked, Actors
  <2>3. \A b \in Actors : b # a => rc[b].pc # "replay" BY <2>1 DEF ReplayIsLocked
  <2>4. \A b \in Actors : rc'[b].pc # "replay"
    BY <1>3, <2>3 DEF Replay, Ends, Idle, TypeOK
  <2>5. (box' = Taken(box, TRUE) /\ held) \/ box' = box BY <1>3, <2>1 DEF Replay
  <2>6. HoldsWhenUp' BY <2>5, TakenHolds DEF HoldsWhenUp, TypeOK
  <2> QED BY <1>0, <2>2, <2>4, <2>5, <2>6 DEF ReplayIsLocked, CallIsLocked, GhostIsReported
<1> QED BY <1>1, <1>2, <1>3 DEF Reconnecting

LEMMA GhostCall ==
  ASSUME GhostInv, UserReconnects \/ CallBegins \/ CallSends
  PROVE  HoldsWhenUp' /\ ReplayIsLocked' /\ CallIsLocked' /\ GhostIsReported'
<1> USE DEF GhostInv
<1>1. CASE UserReconnects
  <2>1. \A b \in Actors : rc'[b].pc = "replay" => rc'[b] = rc[b]
    BY <1>1 DEF UserReconnects, TypeOK, Attempts
  <2> QED BY <1>1, <2>1 DEF UserReconnects, HoldsWhenUp, ReplayIsLocked, CallIsLocked, GhostIsReported
<1>2. CASE CallBegins
  <2>1. \A b \in Actors : rc[b].pc # "replay" BY <1>2 DEF CallBegins, ReplayIsLocked, Actors
  <2>2. rc' = rc /\ box' = box BY <1>2 DEF CallBegins
  <2>3. PICK press \in BOOLEAN :
          /\ held' = press
          /\ IF refused THEN failed' = TRUE /\ UNCHANGED <<caller, lock>>
             ELSE caller' = [pc |-> "send", press |-> press, port |-> slot] /\ lock' = "caller"
    BY <1>2 DEF CallBegins
  <2>4. caller.pc = "idle" BY <1>2 DEF CallBegins
  <2> QED BY <2>1, <2>2, <2>3, <2>4 DEF HoldsWhenUp, ReplayIsLocked, CallIsLocked, GhostIsReported
<1>3. CASE CallSends
  <2>1. lock = "caller" /\ caller.press = held BY <1>3 DEF CallSends, CallIsLocked
  <2>2. \A b \in Actors : rc[b].pc # "replay" BY <2>1 DEF ReplayIsLocked, Actors
  <2>3. caller'.pc = "idle" /\ rc' = rc /\ held' = held BY <1>3 DEF CallSends, NoCall
  <2>4. caller.press \in BOOLEAN BY DEF TypeOK, Calls
  <2>5. HoldsWhenUp' /\ (box'.holds => failed' \/ held')
    <3>1. CASE Alive(caller.port)
      <4>1. box' = Taken(box, held) BY <1>3, <2>1, <3>1 DEF CallSends
      <4>2. held \in BOOLEAN /\ box \in Box BY DEF TypeOK
      <4> QED BY <2>3, <4>1, <4>2, TakenHolds DEF HoldsWhenUp
    <3>2. CASE ~Alive(caller.port) BY <1>3, <3>2 DEF CallSends, HoldsWhenUp
    <3> QED BY <3>1, <3>2
  <2> QED BY <2>2, <2>3, <2>5 DEF ReplayIsLocked, CallIsLocked, GhostIsReported
<1> QED BY <1>1, <1>2, <1>3

LEMMA GhostRest ==
  ASSUME GhostInv, TakeOwed \/ SeeRelease \/ Recover \/ LastDrop \/ KeepaliveExits
  PROVE  HoldsWhenUp' /\ ReplayIsLocked' /\ CallIsLocked' /\ GhostIsReported'
<1> USE DEF GhostInv
<1>1. UNCHANGED <<held, lock, rc, caller, failed>>
  BY DEF TakeOwed, SeeRelease, Recover, LastDrop, KeepaliveExits
<1>2. HoldsWhenUp' /\ (box'.holds => box.holds \/ held)
  <2>1. CASE TakeOwed \/ LastDrop \/ KeepaliveExits
    BY <2>1 DEF TakeOwed, LastDrop, KeepaliveExits, HoldsWhenUp
  <2>2. CASE SeeRelease BY <2>2 DEF SeeRelease, HoldsWhenUp, TypeOK, Box
  <2>3. CASE Recover
    <3> DEFINE greeted == [box EXCEPT !.met = TRUE, !.hello = @ \/ ~box.met, !.moved = FALSE]
    <3>1. /\ greeted \in Box
          /\ greeted.holds = box.holds /\ greeted.chip = box.chip /\ greeted.proto = box.proto
      BY DEF TypeOK, Box
    <3>2. box' = IF held THEN Taken(greeted, TRUE) ELSE greeted BY <2>3 DEF Recover
    <3> HIDE DEF greeted
    <3> QED BY <3>1, <3>2, TakenHolds DEF HoldsWhenUp
  <2> QED BY <2>1, <2>2, <2>3
<1> QED BY <1>1, <1>2 DEF ReplayIsLocked, CallIsLocked, GhostIsReported

LEMMA GhostNext == GhostInv /\ [Next]_vars => GhostInv'
<1> SUFFICES ASSUME GhostInv, [Next]_vars PROVE GhostInv' OBVIOUS
<1>1. TypeOK'
  BY BoxType, ReaderType, ReconnectType, CallType, RestType, StutterType DEF GhostInv, Next
<1>2. CASE UNCHANGED vars
  BY <1>1, <1>2 DEF vars, GhostInv, HoldsWhenUp, ReplayIsLocked, CallIsLocked, GhostIsReported
<1>3. CASE Next
  BY <1>1, <1>3, GhostBox, GhostReader, GhostReconnect, GhostCall, GhostRest DEF Next, GhostInv
<1> QED BY <1>2, <1>3

\* A key the box holds and the crate does not was left by a release that returned an error: a
\* replay and a call both hold catch_lock from the moment they read what is held, so no replay
\* sends a key that was released meanwhile.
THEOREM GhostCorrect == Spec => []GhostIsReported
<1>1. GhostInv => GhostIsReported BY DEF GhostInv
<1> QED BY GhostInit, GhostNext, <1>1, PTL DEF Spec

-----------------------------------------------------------------------------
(* Who reconnects has the turn, and no port is of a plugging in to come.    *)

ReaderIsAuto == rc["reader"].pc # "idle" => reader.pc = "auto"
HasTurn ==
  \A a \in Actors :
    /\ rc[a].pc \in {"open", "probe", "caps", "adopt", "replay"} => turn = a
    /\ rc[a].pc \in {"open", "probe", "caps", "adopt"} => slot = Disconnected
NotAhead(p) == p.who = "ours" => p.plug <= box.plug
NoneAhead == NotAhead(slot) /\ \A a \in Actors : NotAhead(rc[a].port)

PathInv == OursInv /\ ReaderIsAuto /\ HasTurn /\ NoneAhead

LEMMA PathInit == Init => PathInv
<1> SUFFICES ASSUME Init PROVE PathInv OBVIOUS
<1>1. OursInv BY OursInit
<1>2. \A a \in Actors : rc[a] = Idle BY DEF Init
<1>3. slot = [who |-> "ours", plug |-> 0] /\ box.plug = 0 BY DEF Init
<1>4. NoneAhead BY <1>2, <1>3 DEF NoneAhead, NotAhead, Idle, Disconnected
<1> QED BY <1>1, <1>2, <1>4 DEF PathInv, ReaderIsAuto, HasTurn, Idle, Actors

\* What a step of a reconnect leaves alone, and what it may set the slot and its own port to.
LEMMA ReconnectEffect ==
  ASSUME TypeOK, NEW a \in Actors, Reconnecting(a)
  PROVE  /\ box'.plug = box.plug /\ box'.here = box.here
         /\ \A b \in Actors \ {a} : rc'[b] = rc[b]
         /\ slot' \in {slot, Disconnected, rc[a].port}
         /\ \/ rc'[a].port \in {rc[a].port, Disconnected}
            \/ rc'[a].port.plug \in {0, box.plug}
<1> USE DEF TypeOK
<1>1. CASE Scan(a)
  <2> PICK left \in Listed :
        IF left = {} THEN Ends(a, FALSE) /\ UNCHANGED <<slot, refused>>
        ELSE /\ Swap(Disconnected)
             /\ rc' = [rc EXCEPT ![a] = [Idle EXCEPT !.pc = "open", !.left = left]]
    BY <1>1 DEF Scan
  <2>1. box' = box BY <1>1 DEF Scan
  <2>2. CASE left = {} BY <2>1, <2>2 DEF Ends, Idle
  <2>3. CASE left # {}
    <3> DEFINE attempt == [Idle EXCEPT !.pc = "open", !.left = left]
    <3>1. attempt.port = Disconnected BY DEF Idle
    <3>2. slot' = Disconnected BY <2>3 DEF Swap
    <3>3. rc' = [rc EXCEPT ![a] = attempt] BY <2>3
    <3> HIDE DEF attempt
    <3> QED BY <2>1, <3>1, <3>2, <3>3
  <2> QED BY <2>2, <2>3
<1>2. CASE Open(a)
  <2>1. box' = box \/ box' = [box EXCEPT !.hello = FALSE] BY <1>2 DEF Open
  <2>2. slot' = slot BY <1>2 DEF Open
  <2> PICK w \in rc[a].left :
        LET left == rc[a].left \ {w}
            opens == w = "theirs" \/ box.here
            port == [who |-> w, plug |-> IF w = "ours" THEN box.plug ELSE 0]
        IN rc' = [rc EXCEPT ![a].left = left,
                            ![a].pc = IF opens THEN "probe" ELSE "open",
                            ![a].port = IF opens THEN port ELSE Disconnected]
    BY <1>2 DEF Open
  <2> DEFINE port == [who |-> w, plug |-> IF w = "ours" THEN box.plug ELSE 0]
  <2>3. port.plug \in {0, box.plug} OBVIOUS
  <2>4. rc'[a].port \in {port, Disconnected} BY DEF Attempts
  <2>5. \A b \in Actors \ {a} : rc'[b] = rc[b] OBVIOUS
  <2>6. box'.plug = box.plug /\ box'.here = box.here BY <2>1 DEF Box
  <2> HIDE DEF port
  <2> QED BY <2>2, <2>3, <2>4, <2>5, <2>6
<1>3. CASE NoneLeft(a) BY <1>3 DEF NoneLeft, Ends, Idle
<1>4. CASE ProbeAnswered(a)
  <2>1. box'.plug = box.plug /\ box'.here = box.here BY <1>4 DEF ProbeAnswered, Box
  <2>2. slot' = slot BY <1>4 DEF ProbeAnswered
  <2>3. PICK pc, booted : rc' = [rc EXCEPT ![a].pc = pc, ![a].booted = booted]
    BY <1>4 DEF ProbeAnswered
  <2>4. rc'[a].port = rc[a].port /\ \A b \in Actors \ {a} : rc'[b] = rc[b]
    BY <2>3 DEF Attempts
  <2> QED BY <2>1, <2>2, <2>4
<1>5. CASE ProbeUnanswered(a) BY <1>5 DEF ProbeUnanswered, Attempts
<1>8. CASE CapsProbed(a)
  <2>1. box'.plug = box.plug /\ box'.here = box.here BY <1>8 DEF CapsProbed, Overhear, Box
  <2> QED BY <1>8, <2>1 DEF CapsProbed, Attempts
<1>6. CASE Adopt(a)
  <2>1. box'.plug = box.plug /\ box'.here = box.here BY <1>6 DEF Adopt, Overhear, Box
  <2>2. slot' = rc[a].port BY <1>6 DEF Adopt, Swap
  <2>3. rc'[a].port \in {rc[a].port, Disconnected} /\ \A b \in Actors \ {a} : rc'[b] = rc[b]
    BY <1>6 DEF Adopt, Ends, Idle, Attempts
  <2> QED BY <2>1, <2>2, <2>3
<1>7. CASE Replay(a)
  <2>1. box'.plug = box.plug /\ box'.here = box.here BY <1>7 DEF Replay, Taken, Box
  <2>2. slot' = slot BY <1>7 DEF Replay
  <2>3. rc'[a] = Idle /\ \A b \in Actors \ {a} : rc'[b] = rc[b] BY <1>7 DEF Replay, Ends
  <2> QED BY <2>1, <2>2, <2>3 DEF Idle
<1> QED BY <1>1, <1>2, <1>3, <1>4, <1>5, <1>6, <1>7, <1>8 DEF Reconnecting

LEMMA PathReconnect ==
  ASSUME PathInv, NEW a \in Actors, Reconnecting(a)
  PROVE  ReaderIsAuto' /\ HasTurn' /\ NoneAhead'
<1> USE DEF PathInv, OursInv
<1>1. TypeOK BY DEF PathInv
<1>2. NoneAhead'
  <2>1. box.plug \in Nat BY <1>1 DEF TypeOK, Box
  <2>2. NotAhead(slot)'
    BY <1>1, ReconnectEffect DEF NoneAhead, NotAhead, Disconnected
  <2>3. NotAhead(rc[a].port)'
    BY <1>1, <2>1, ReconnectEffect DEF NoneAhead, NotAhead, Disconnected
  <2>4. \A b \in Actors \ {a} : NotAhead(rc[b].port)'
    BY <1>1, ReconnectEffect DEF NoneAhead, NotAhead
  <2> QED BY <2>2, <2>3, <2>4 DEF NoneAhead
<1>3. ReaderIsAuto'
  <2>1. reader' = reader \/ (a = "reader" /\ rc'[a] = Idle)
    BY <1>1 DEF Reconnecting, Scan, Open, NoneLeft, ProbeAnswered, ProbeUnanswered, CapsProbed, Adopt, Replay, Ends, TypeOK
  <2>2. rc[a].pc # "idle"
    BY DEF Reconnecting, Scan, Open, NoneLeft, ProbeAnswered, ProbeUnanswered, CapsProbed, Adopt, Replay
  <2>3. a # "reader" => rc'["reader"] = rc["reader"] BY <1>1, ReconnectEffect DEF Actors
  <2> QED BY <2>1, <2>2, <2>3 DEF ReaderIsAuto, Idle
<1>4. HasTurn'
  <2>1. ASSUME NEW b \in Actors \ {a}
        PROVE  rc'[b].pc \notin {"open", "probe", "caps", "adopt", "replay"}
    <3>1. rc'[b] = rc[b] BY <1>1, ReconnectEffect
    <3>2. turn = a \/ turn = "none"
      BY DEF HasTurn, Reconnecting, Scan, Open, NoneLeft, ProbeAnswered, ProbeUnanswered, CapsProbed, Adopt, Replay
    <3>3. turn # b BY <3>2 DEF Actors
    <3> QED BY <3>1, <3>3 DEF HasTurn
  <2>2. /\ rc'[a].pc \in {"open", "probe", "caps", "adopt", "replay"} => turn' = a
        /\ rc'[a].pc \in {"open", "probe", "caps", "adopt"} => slot' = Disconnected
    <3> USE DEF TypeOK
    <3>1. CASE Scan(a)
      <4> PICK left \in Listed :
            IF left = {} THEN Ends(a, FALSE)
            ELSE turn' = a /\ Swap(Disconnected)
        BY <3>1 DEF Scan
      <4>1. CASE left = {} BY <4>1 DEF Ends, Idle
      <4>2. CASE left # {} BY <4>2 DEF Swap
      <4> QED BY <4>1, <4>2
    <3>2. CASE Open(a) \/ ProbeAnswered(a) \/ ProbeUnanswered(a) \/ CapsProbed(a)
      <4>1. rc[a].pc \in {"open", "probe", "caps"} /\ UNCHANGED <<slot, turn>>
        BY <3>2 DEF Open, ProbeAnswered, ProbeUnanswered, CapsProbed
      <4> QED BY <4>1 DEF HasTurn
    <3>3. CASE NoneLeft(a) \/ Replay(a)
      <4>1. rc' = [rc EXCEPT ![a] = Idle] BY <3>3 DEF NoneLeft, Replay, Ends
      <4> QED BY <4>1 DEF Idle
    <3>4. CASE Adopt(a)
      <4>1. turn = a BY <3>4 DEF Adopt, HasTurn
      <4>2. CASE rc[a].booted BY <3>4, <4>2 DEF Adopt, Ends, Idle
      <4>3. CASE ~rc[a].booted BY <3>4, <4>1, <4>3 DEF Adopt, Attempts
      <4> QED BY <4>2, <4>3
    <3> QED BY <3>1, <3>2, <3>3, <3>4 DEF Reconnecting
  <2> QED BY <2>1, <2>2 DEF HasTurn
<1> QED BY <1>2, <1>3, <1>4

LEMMA PathNext == PathInv /\ [Next]_vars => PathInv'
<1> SUFFICES ASSUME PathInv, [Next]_vars PROVE PathInv' OBVIOUS
<1>1. OursInv' BY OursNext DEF PathInv
<1>2. CASE \E a \in Actors : Reconnecting(a) BY <1>1, <1>2, PathReconnect DEF PathInv
<1>3. ASSUME ~\E a \in Actors : Reconnecting(a)
      PROVE  ReaderIsAuto' /\ HasTurn' /\ NoneAhead'
  <2> USE DEF PathInv, OursInv, TypeOK
  <2>0. TypeOK BY DEF PathInv, OursInv
  <2>1. /\ UNCHANGED <<slot, turn>>
        /\ \/ rc' = rc
           \/ rc["user"].pc = "idle" /\ rc' = [rc EXCEPT !["user"].pc = "start"]
           \/ /\ rc["reader"].pc = "idle" /\ rc' = [rc EXCEPT !["reader"].pc = "start"]
              /\ reader' = reader /\ reader.pc = "auto"
    <3>1. CASE Unplug \/ Plug \/ Silence \/ Boot \/ SayHello \/ CloneUp
      BY <3>1 DEF Unplug, Plug, Silence, Boot, SayHello, CloneUp, hostVars
    <3>2. CASE ReaderStep
      BY <3>2 DEF ReaderStep, ReaderTop, ReadNothing, ReadReply, ReadHello, NoteHello, ReadError, AutoReconnect
    <3>3. CASE UserReconnects \/ CallBegins \/ CallSends
      BY <3>3 DEF UserReconnects, CallBegins, CallSends
    <3>4. CASE TakeOwed \/ SeeRelease \/ Recover \/ LastDrop \/ KeepaliveExits
      BY <3>4 DEF TakeOwed, SeeRelease, Recover, LastDrop, KeepaliveExits
    <3>5. CASE UNCHANGED vars BY <3>5 DEF vars
    <3> QED BY <1>3, <3>1, <3>2, <3>3, <3>4, <3>5 DEF Next
  <2>2. \A a \in Actors : rc'[a].port = rc[a].port /\ (rc'[a].pc = rc[a].pc \/ rc'[a].pc = "start")
    BY <2>1 DEF Attempts, Actors
  <2>3. HasTurn' BY <2>1, <2>2 DEF HasTurn
  <2>4. box'.plug \in Nat /\ box'.plug >= box.plug
    <3>0. box.plug \in Nat BY <2>0 DEF TypeOK, Box
    <3>1. box'.plug = box.plug \/ box'.plug = box.plug + 1
      <4> USE DEF Box
      <4>1. CASE Unplug \/ Plug \/ Silence \/ Boot \/ SayHello \/ CloneUp
        BY <4>1 DEF Unplug, Plug, Silence, Boot, SayHello, CloneUp
      <4>2. CASE ReaderStep
        BY <4>2 DEF ReaderStep, ReaderTop, ReadNothing, ReadReply, ReadHello, NoteHello, ReadError, AutoReconnect
      <4>3. CASE UserReconnects \/ CallBegins \/ CallSends
        BY <4>3 DEF UserReconnects, CallBegins, CallSends, Taken
      <4>4. CASE TakeOwed \/ SeeRelease \/ Recover \/ LastDrop \/ KeepaliveExits
        BY <4>4 DEF TakeOwed, SeeRelease, Recover, LastDrop, KeepaliveExits, Taken
      <4>5. CASE UNCHANGED vars BY <4>5 DEF vars
      <4> QED BY <1>3, <4>1, <4>2, <4>3, <4>4, <4>5 DEF Next
    <3> QED BY <3>0, <3>1
  <2>5. NoneAhead'
    <3>1. slot \in Slots /\ \A a \in Actors : rc[a].port \in Slots BY <2>0 DEF TypeOK, Attempts
    <3>2. \A p \in Slots : p.plug \in Nat BY DEF Slots, Ports, Disconnected
    <3>3. box.plug \in Nat BY <2>0 DEF TypeOK, Box
    <3>4. NotAhead(slot)' BY <2>1, <2>4, <3>1, <3>2, <3>3 DEF NoneAhead, NotAhead
    <3>5. ASSUME NEW a \in Actors PROVE NotAhead(rc[a].port)'
      BY <2>2, <2>4, <3>1, <3>2, <3>3 DEF NoneAhead, NotAhead
    <3> QED BY <3>4, <3>5 DEF NoneAhead
  <2>6. ReaderIsAuto'
    <3>1. reader'.pc = reader.pc \/ reader.pc # "auto" \/ rc'["reader"].pc = "idle"
      <4>1. CASE ReaderStep
        BY <2>1, <4>1 DEF ReaderStep, ReaderTop, ReadNothing, ReadReply, ReadHello, NoteHello, ReadError, AutoReconnect
      <4>2. CASE ~ReaderStep
        <5>1. reader' = reader
          BY <1>3, <4>2 DEF Next, vars, Unplug, Plug, Silence, Boot, SayHello, CloneUp, hostVars, UserReconnects,
             CallBegins, CallSends, TakeOwed, SeeRelease, Recover, LastDrop, KeepaliveExits
        <5> QED BY <5>1
      <4> QED BY <4>1, <4>2
    <3> QED BY <2>1, <3>1 DEF ReaderIsAuto, Attempts, Actors
  <2> QED BY <2>3, <2>5, <2>6
<1> QED BY <1>1, <1>2, <1>3 DEF PathInv

-----------------------------------------------------------------------------
(* A key that was lost is owed to somebody.                                 *)

\* The port a call was given is swapped out only for no port at all.
CallersPort == caller.pc = "send" => slot \in {caller.port, Disconnected}

\* An unarmed watch is recovering, and so the keepalive thread has the recovery before it.
RecoveryIsOwed ==
  /\ watch.armed \/ watch.recovering
  /\ watch.recovering => ka # "idle" \/ watch.owed

BootIsUnmet == box.chip = "boot" => ~box.met

\* A chip that takes no key yet has a hello that is still to be heeded, or was.
BareIsOwed ==
  box.chip = "bare" /\ box.proto = "ours" /\ ~swallowed =>
    \/ box.hello \/ ~box.met
    \/ reader.pc = "note" /\ reader.said = "ours"
    \/ ka # "idle" \/ watch.owed
    \/ \E a \in Actors : rc[a].pc \in {"caps", "adopt"} /\ rc[a].booted

UpIsOwed == box.chip = "up" => LossIsOwed

Owing == CallersPort /\ RecoveryIsOwed /\ BootIsUnmet /\ BareIsOwed /\ UpIsOwed
LossInv == PathInv /\ GhostInv /\ Owing

LEMMA LossInit == Init => LossInv
<1> SUFFICES ASSUME Init PROVE LossInv OBVIOUS
<1>1. PathInv /\ GhostInv BY PathInit, GhostInit
<1> QED BY <1>1 DEF Init, LossInv, Owing, CallersPort, RecoveryIsOwed, BootIsUnmet, BareIsOwed, UpIsOwed, LossIsOwed, NoCall

\* A chip in use that is bare has its hello or its recovery before it: while a reconnect is about
\* to adopt a port, none is in use.
LEMMA LossFollows == LossInv => LossIsOwed
<1> SUFFICES ASSUME LossInv PROVE LossIsOwed OBVIOUS
<1>1. box.chip \in {"boot", "bare", "up"} BY DEF LossInv, GhostInv, TypeOK, Box
<1>2. CASE box.chip = "bare"
  <2>1. slot.who = "ours" => \A a \in Actors : rc[a].pc \notin {"caps", "adopt"}
    BY DEF LossInv, PathInv, HasTurn, Disconnected
  <2> QED BY <1>2, <2>1 DEF LossInv, Owing, BareIsOwed, LossIsOwed, Answers
<1>3. CASE box.chip # "bare" BY <1>1, <1>3 DEF LossInv, Owing, UpIsOwed, LossIsOwed, Answers
<1> QED BY <1>2, <1>3

\* A frame to a chip that is up presses the key; one to a bare chip is greeted.
LEMMA TakenOwes ==
  ASSUME NEW b \in Box, NEW press \in BOOLEAN
  PROVE  /\ Taken(b, press).chip = b.chip /\ Taken(b, press).proto = b.proto
         /\ Taken(b, press).here = b.here /\ Taken(b, press).plug = b.plug
         /\ Taken(b, press).moved = b.moved
         /\ b.chip = "boot" => Taken(b, press) = b
         /\ b.hello \/ ~b.met => Taken(b, press).hello \/ ~Taken(b, press).met
         /\ b.chip = "up" /\ b.proto = "ours" => Taken(b, press).holds = press
  BY DEF Taken, Box

LEMMA OwingBox ==
  ASSUME LossInv, Unplug \/ Plug \/ Silence \/ Boot \/ SayHello \/ CloneUp
  PROVE  Owing'
<1> USE DEF LossInv, Owing
<1>0. TypeOK BY DEF GhostInv
<1>1. LossIsOwed BY LossFollows
<1>2. UNCHANGED <<slot, refused, held, watch, lock, turn, reader, rc, caller, ka, stop>>
  BY DEF Unplug, Plug, Silence, Boot, SayHello, CloneUp, hostVars
<1>3. CallersPort' /\ RecoveryIsOwed' BY <1>2 DEF CallersPort, RecoveryIsOwed
<1>4. ~swallowed' => ~swallowed
  BY DEF Unplug, Plug, Silence, Boot, SayHello, CloneUp, hostVars
<1>5. BootIsUnmet'
  BY <1>0 DEF Unplug, Plug, Silence, Boot, SayHello, CloneUp, BootIsUnmet, TypeOK, Box
<1>6. BareIsOwed'
  <2>1. box'.chip = "bare" /\ ~swallowed' /\ box'.proto = "ours" =>
          \/ box.chip = "boot" /\ ~box'.met
          \/ /\ box.chip = "bare" /\ box.proto = "ours"
             /\ box.hello \/ ~box.met => box'.hello \/ ~box'.met
    <3> USE <1>0 DEF TypeOK, Box
    <3>1. CASE Unplug BY <3>1 DEF Unplug, LastHello
    <3>2. CASE Plug BY <3>2 DEF Plug
    <3>3. CASE Silence BY <3>3 DEF Silence
    <3>4. CASE Boot BY <3>4 DEF Boot
    <3>5. CASE SayHello BY <3>5 DEF SayHello, BootIsUnmet
    <3>6. CASE CloneUp BY <3>6 DEF CloneUp
    <3> QED BY <3>1, <3>2, <3>3, <3>4, <3>5, <3>6
  <2> QED BY <1>2, <1>4, <2>1 DEF BareIsOwed
<1>7. UpIsOwed'
  <2> USE <1>0 DEF TypeOK, Box
  <2>1. CASE Unplug
    <3>1. slot.who = "ours" => ~Alive(slot)' BY <1>2, <2>1 DEF Unplug, Alive
    <3> QED BY <1>2, <3>1 DEF UpIsOwed, LossIsOwed, Answers, CanWrite
  <2>2. CASE Plug
    <3>1. slot.who = "ours" => slot.plug <= box.plug /\ slot.plug \in Nat
      BY DEF PathInv, NoneAhead, NotAhead, Slots, Ports, Disconnected
    <3>2. box'.plug = box.plug + 1 /\ box.plug \in Nat BY <2>2 DEF Plug
    <3>3. slot.who = "ours" => ~Alive(slot)' BY <1>2, <3>1, <3>2 DEF Alive
    <3> QED BY <1>2, <3>3 DEF UpIsOwed, LossIsOwed, Answers, CanWrite
  <2>3. CASE Silence BY <1>2, <2>3 DEF Silence, UpIsOwed, LossIsOwed
  <2>4. CASE Boot BY <2>4 DEF Boot, UpIsOwed
  <2>5. CASE SayHello BY <2>5 DEF SayHello, UpIsOwed
  <2>6. CASE CloneUp
    <3>1. /\ box.chip = "bare" /\ box'.holds = box.holds /\ box'.proto = box.proto /\ box'.hello = box.hello
          /\ box'.met = box.met /\ box'.moved = box.moved /\ box'.here = box.here /\ box'.plug = box.plug
      BY <2>6 DEF CloneUp
    <3>2. Answers' => Answers BY <1>2, <3>1 DEF Answers, CanWrite, Alive
    <3> QED BY <1>1, <1>2, <1>4, <3>1, <3>2 DEF UpIsOwed, LossIsOwed
  <2> QED BY <2>1, <2>2, <2>3, <2>4, <2>5, <2>6
<1> QED BY <1>3, <1>5, <1>6, <1>7

LEMMA OwingReader ==
  ASSUME LossInv, ReaderStep
  PROVE  Owing'
<1> USE DEF LossInv, Owing
<1>0. TypeOK BY DEF GhostInv
<1>1. LossIsOwed BY LossFollows
<1>2. UNCHANGED <<slot, held, lock, turn, caller, ka, stop, swallowed>>
  BY DEF ReaderStep, ReaderTop, ReadNothing, ReadReply, ReadHello, NoteHello, ReadError, AutoReconnect
<1>3. CallersPort' BY <1>2 DEF CallersPort
<1>4. \A a \in Actors : \/ rc'[a] = rc[a]
                        \/ rc[a].pc = "idle" /\ rc'[a].pc = "start"
  <2>1. rc' = rc \/ (rc["reader"].pc = "idle" /\ rc' = [rc EXCEPT !["reader"].pc = "start"])
    BY DEF ReaderStep, ReaderTop, ReadNothing, ReadReply, ReadHello, NoteHello, ReadError, AutoReconnect
  <2> QED BY <1>0, <2>1 DEF TypeOK, Attempts
<1>5. CASE ReadHello
  <2>1. /\ box'.holds = box.holds /\ box'.proto = box.proto /\ box'.chip = box.chip /\ box'.met = box.met
        /\ box'.moved = box.moved /\ box'.here = box.here /\ box'.plug = box.plug
    BY <1>0, <1>5 DEF ReadHello, TypeOK, Box
  <2>2. /\ reader'.pc = "note" /\ reader'.said = box.proto
        /\ UNCHANGED <<refused, watch, rc>>
    BY <1>0, <1>5 DEF ReadHello, TypeOK, Readings
  <2> QED BY <1>2, <1>3, <2>1, <2>2 DEF RecoveryIsOwed, BootIsUnmet, BareIsOwed, UpIsOwed, LossIsOwed
<1>6. CASE NoteHello
  <2>1. UNCHANGED <<box, rc>> BY <1>6 DEF NoteHello
  <2>2. CASE reader.said # "ours"
    <3>1. refused' /\ watch' = watch BY <1>6, <2>2 DEF NoteHello
    <3>2. ~Answers' BY <3>1 DEF Answers, CanWrite
    <3> QED BY <1>2, <1>3, <2>1, <2>2, <3>1, <3>2 DEF RecoveryIsOwed, BootIsUnmet, BareIsOwed, UpIsOwed, LossIsOwed
  <2>3. CASE reader.said = "ours"
    <3> DEFINE armed == watch.armed \/ refused
               new == armed /\ ~watch.recovering
    <3>1. watch' = [armed |-> armed /\ ~new, recovering |-> watch.recovering \/ new, owed |-> watch.owed \/ new]
      BY <1>6, <2>3 DEF NoteHello
    <3>2. watch.recovering \/ new BY DEF RecoveryIsOwed
    <3>3. ka # "idle" \/ watch'.owed BY <3>1, <3>2 DEF RecoveryIsOwed
    <3>4. watch'.recovering BY <3>1, <3>2
    <3> QED BY <1>2, <1>3, <2>1, <3>3, <3>4 DEF RecoveryIsOwed, BootIsUnmet, BareIsOwed, UpIsOwed, LossIsOwed
  <2> QED BY <2>2, <2>3
<1>7. CASE ReaderTop \/ ReadNothing \/ ReadReply \/ ReadError \/ AutoReconnect
  <2>1. box' = box /\ refused' = refused /\ reader.pc # "note"
    BY <1>7 DEF ReaderTop, ReadNothing, ReadReply, ReadError, AutoReconnect
  <2>2. watch' = watch \/ watch' = [watch EXCEPT !.armed = TRUE]
    BY <1>7 DEF ReaderTop, ReadNothing, ReadReply, ReadError, AutoReconnect
  <2>3. /\ watch.armed => watch'.armed
        /\ watch'.recovering = watch.recovering /\ watch'.owed = watch.owed
    BY <1>0, <2>2 DEF TypeOK, Watches
  <2>4. Answers' = Answers BY <1>2, <2>1 DEF Answers, CanWrite, Alive
  <2>5. RecoveryIsOwed' /\ BootIsUnmet' BY <1>2, <2>1, <2>3 DEF RecoveryIsOwed, BootIsUnmet
  <2>6. BareIsOwed' BY <1>2, <1>4, <2>1, <2>3 DEF BareIsOwed
  <2>7. UpIsOwed' BY <1>1, <1>2, <1>4, <2>1, <2>3, <2>4 DEF UpIsOwed, LossIsOwed
  <2> QED BY <1>3, <2>5, <2>6, <2>7
<1> QED BY <1>5, <1>6, <1>7 DEF ReaderStep

LEMMA OwingReconnect ==
  ASSUME LossInv, NEW a \in Actors, Reconnecting(a)
  PROVE  Owing'
<1> USE DEF LossInv, Owing
<1>0. TypeOK BY DEF GhostInv
<1>1. LossIsOwed BY LossFollows
<1>2. UNCHANGED <<held, caller, ka, stop>>
  BY DEF Reconnecting, Scan, Open, NoneLeft, ProbeAnswered, ProbeUnanswered, CapsProbed, Adopt, Replay
<1>3. \A b \in Actors \ {a} : rc'[b] = rc[b] BY <1>0, ReconnectEffect
<1>4. reader.pc = "note" => reader' = reader
  <2>1. rc[a].pc # "idle"
    BY DEF Reconnecting, Scan, Open, NoneLeft, ProbeAnswered, ProbeUnanswered, CapsProbed, Adopt, Replay
  <2>2. reader' = reader \/ a = "reader"
    BY DEF Reconnecting, Scan, Open, NoneLeft, ProbeAnswered, ProbeUnanswered, CapsProbed, Adopt, Replay, Ends
  <2> QED BY <2>1, <2>2 DEF PathInv, ReaderIsAuto
<1>5. CASE Scan(a) \/ Open(a) \/ NoneLeft(a) \/ ProbeAnswered(a) \/ ProbeUnanswered(a) \/ CapsProbed(a)
  <2>1. UNCHANGED watch
    BY <1>5 DEF Scan, Open, NoneLeft, ProbeAnswered, ProbeUnanswered, CapsProbed
  <2>2. /\ box'.chip = box.chip /\ box'.proto = box.proto /\ box'.holds = box.holds
        /\ box'.moved = box.moved /\ box'.here = box.here /\ box'.plug = box.plug
        /\ box.chip = "boot" => box'.met = box.met
    <3>1. box \in Box BY <1>0 DEF TypeOK
    <3>2. CASE Scan(a) \/ NoneLeft(a) \/ ProbeUnanswered(a)
      <4>1. box' = box BY <3>2 DEF Scan, NoneLeft, ProbeUnanswered
      <4> QED BY <4>1
    <3>3. CASE Open(a)
      <4>1. box' = box \/ box' = [box EXCEPT !.hello = FALSE] BY <3>3 DEF Open
      <4> QED BY ONLY <3>1, <4>1 DEF Box
    <3>4. CASE ProbeAnswered(a) \/ CapsProbed(a)
      <4>1. \/ box' = box
            \/ box.chip # "boot" /\ box' = [box EXCEPT !.met = TRUE, !.hello = FALSE]
        BY <3>4 DEF ProbeAnswered, CapsProbed, Overhear, Overheard
      <4> QED BY ONLY <3>1, <4>1 DEF Box
    <3> QED BY <1>5, <3>2, <3>3, <3>4
  <2>3. BootIsUnmet' BY <2>2 DEF BootIsUnmet
  <2>4. RecoveryIsOwed' BY <1>2, <2>1 DEF RecoveryIsOwed
  <2>5. slot' = Disconnected \/ (slot' = slot /\ refused' = refused)
    BY <1>5 DEF Scan, Swap, Open, NoneLeft, ProbeAnswered, ProbeUnanswered, CapsProbed
  <2>6. CallersPort' BY <1>2, <2>5 DEF CallersPort
  <2>7. rc[a].pc \in {"start", "open", "probe", "caps"}
    BY <1>5 DEF Scan, Open, NoneLeft, ProbeAnswered, ProbeUnanswered, CapsProbed
  <2>8. UpIsOwed'
    <3>1. CASE Scan(a)
      <4>1. box' = box /\ UNCHANGED swallowed BY <3>1 DEF Scan
      <4>2. CASE slot' = Disconnected BY <4>2 DEF UpIsOwed, LossIsOwed, Disconnected
      <4>3. CASE slot' = slot /\ refused' = refused
        <5>1. Answers' = Answers BY <4>1, <4>3 DEF Answers, CanWrite, Alive
        <5> QED BY <1>1, <1>2, <1>3, <1>4, <2>1, <2>7, <4>1, <4>3, <5>1 DEF UpIsOwed, LossIsOwed
      <4> QED BY <2>5, <4>2, <4>3
    <3>2. CASE ~Scan(a)
      <4>1. rc[a].pc \in {"open", "probe", "caps"} /\ slot' = slot
        BY <1>5, <3>2 DEF Open, NoneLeft, ProbeAnswered, ProbeUnanswered, CapsProbed
      <4>2. slot' = Disconnected BY <4>1 DEF PathInv, HasTurn
      <4> QED BY <4>2 DEF UpIsOwed, LossIsOwed, Disconnected
    <3> QED BY <3>1, <3>2
  <2>9. BareIsOwed'
    <3>1. SUFFICES ASSUME box.chip = "bare", box.proto = "ours", ~swallowed'
                   PROVE  \/ box'.hello \/ ~box'.met
                          \/ reader'.pc = "note" /\ reader'.said = "ours"
                          \/ ka' # "idle" \/ watch'.owed
                          \/ \E b \in Actors : rc'[b].pc \in {"caps", "adopt"} /\ rc'[b].booted
      BY <2>2 DEF BareIsOwed
    <3>2. ~swallowed
      BY <1>5, <3>1 DEF Scan, Open, NoneLeft, ProbeAnswered, ProbeUnanswered, CapsProbed, Overhear
    <3>3. CASE ka # "idle" \/ watch.owed \/ (reader.pc = "note" /\ reader.said = "ours")
      BY <1>2, <1>4, <2>1, <3>3
    <3>4. CASE \E b \in Actors : rc[b].pc \in {"caps", "adopt"} /\ rc[b].booted
      <4>1. PICK b \in Actors : rc[b].pc \in {"caps", "adopt"} /\ rc[b].booted BY <3>4
      <4>2. CASE b # a BY <1>3, <4>1, <4>2
      <4>3. CASE b = a
        <5>1. CapsProbed(a)
          BY <1>5, <4>1, <4>3 DEF Scan, Open, NoneLeft, ProbeAnswered, ProbeUnanswered
        <5>2. rc'[a].pc = "adopt" /\ rc'[a].booted = rc[a].booted
          BY <1>0, <5>1 DEF CapsProbed, TypeOK, Attempts
        <5> QED BY <4>1, <4>3, <5>2
      <4> QED BY <4>2, <4>3
    <3>5. CASE box.hello \/ ~box.met
      <4>1. CASE Scan(a) \/ NoneLeft(a) \/ ProbeUnanswered(a)
        BY <3>5, <4>1 DEF Scan, NoneLeft, ProbeUnanswered
      <4>2. CASE Open(a)
        <5>1. box' = box \/ (box' = [box EXCEPT !.hello = FALSE] /\ ~LastHello)
          BY <3>1, <4>2 DEF Open
        <5>2. box'.hello \/ ~box'.met BY <1>0, <3>5, <5>1 DEF LastHello, TypeOK, Box
        <5> QED BY <5>2
      <4>3. CASE ProbeAnswered(a)
        <5>1. CASE rc[a].port.who = "ours"
          <6>1. Adoptable(rc[a].port) BY <3>1, <5>1 DEF Adoptable
          <6>2. rc' = [rc EXCEPT ![a].pc = "caps", ![a].booted = TRUE]
            BY <3>5, <4>3, <5>1, <6>1 DEF ProbeAnswered
          <6>3. rc'[a].pc = "caps" /\ rc'[a].booted BY <1>0, <6>2 DEF TypeOK, Attempts
          <6> QED BY <6>3
        <5>2. CASE rc[a].port.who # "ours" BY <3>5, <4>3, <5>2 DEF ProbeAnswered
        <5> QED BY <5>1, <5>2
      <4>4. CASE CapsProbed(a)
        <5>1. box' = box BY <3>1, <4>4 DEF CapsProbed, Overhear
        <5> QED BY <3>5, <5>1
      <4> QED BY <1>5, <4>1, <4>2, <4>3, <4>4
    <3> QED BY <3>1, <3>2, <3>3, <3>4, <3>5 DEF BareIsOwed
  <2> QED BY <2>3, <2>4, <2>6, <2>8, <2>9
<1>6. CASE Adopt(a)
  <2>1. rc[a].pc = "adopt" /\ lock = "none" BY <1>6 DEF Adopt, AdoptLock
  <2>2. caller.pc # "send" BY <2>1 DEF GhostInv, CallIsLocked
  <2>3. CallersPort' BY <1>2, <2>2 DEF CallersPort
  <2>4. /\ box'.chip = box.chip /\ box'.proto = box.proto
        /\ box.chip = "boot" => box'.met = box.met
        /\ ~swallowed' => ~swallowed /\ box' = box
    BY <1>0, <1>6 DEF Adopt, Overhear, TypeOK, Box, Overheard
  <2>5. BootIsUnmet' BY <2>4 DEF BootIsUnmet
  <2>6. CASE rc[a].booted
    <3>1. watch'.owed /\ watch'.recovering
      BY <1>0, <1>6, <2>6 DEF Adopt, TypeOK, Watches
    <3> QED BY <2>3, <2>5, <3>1 DEF RecoveryIsOwed, BareIsOwed, UpIsOwed, LossIsOwed
  <2>7. CASE ~rc[a].booted
    <3>1. UNCHANGED <<watch, reader>> BY <1>6, <2>7 DEF Adopt
    <3>2. rc'[a].pc = "replay" BY <1>0, <1>6, <2>7 DEF Adopt, TypeOK, Attempts
    <3>3. BareIsOwed' BY <1>2, <1>3, <2>4, <2>7, <3>1 DEF BareIsOwed
    <3> QED BY <1>2, <2>3, <2>5, <3>1, <3>2, <3>3 DEF RecoveryIsOwed, UpIsOwed, LossIsOwed
  <2> QED BY <2>6, <2>7
<1>7. CASE Replay(a)
  <2>1. UNCHANGED <<slot, refused, watch, swallowed>> BY <1>7 DEF Replay
  <2>2. rc[a].pc = "replay" /\ rc[a].replay = held BY <1>7 DEF Replay, GhostInv, ReplayIsLocked
  <2>3. box' = Taken(box, TRUE) \/ box' = box BY <1>7 DEF Replay
  <2>4. /\ box'.chip = box.chip /\ box'.proto = box.proto /\ box'.here = box.here /\ box'.plug = box.plug
        /\ box.chip = "boot" => box' = box
        /\ box.hello \/ ~box.met => box'.hello \/ ~box'.met
    <3>1. box \in Box /\ TRUE \in BOOLEAN BY <1>0 DEF TypeOK
    <3>2. CASE box' = box BY <3>2
    <3>3. CASE box' = Taken(box, TRUE) BY <3>1, <3>3, TakenOwes
    <3> QED BY <2>3, <3>2, <3>3
  <2>5. CallersPort' /\ RecoveryIsOwed' /\ BootIsUnmet'
    BY <1>2, <2>1, <2>4 DEF CallersPort, RecoveryIsOwed, BootIsUnmet
  <2>6. BareIsOwed' BY <1>2, <1>3, <1>4, <2>1, <2>2, <2>4 DEF BareIsOwed
  <2>7. UpIsOwed'
    <3>1. Answers' = Answers BY <2>1, <2>4 DEF Answers, CanWrite, Alive
    <3>2. Answers /\ held => box' = Taken(box, TRUE) BY <1>7, <2>2 DEF Replay, Answers
    <3>3. box.chip = "up" /\ Answers /\ held => box'.holds
      BY <1>0, <3>2, TakenOwes DEF Answers, TypeOK
    <3> QED BY <1>2, <2>4, <3>1, <3>3 DEF UpIsOwed, LossIsOwed
  <2> QED BY <2>5, <2>6, <2>7
<1> QED BY <1>5, <1>6, <1>7 DEF Reconnecting

LEMMA OwingCall ==
  ASSUME LossInv, UserReconnects \/ CallBegins \/ CallSends
  PROVE  Owing'
<1> USE DEF LossInv, Owing
<1>0. TypeOK BY DEF GhostInv
<1>1. LossIsOwed BY LossFollows
<1>2. UNCHANGED <<slot, refused, watch, reader, ka, swallowed>>
  BY DEF UserReconnects, CallBegins, CallSends
<1>3. RecoveryIsOwed' BY <1>2 DEF RecoveryIsOwed
<1>4. CASE UserReconnects
  <2>1. UNCHANGED <<box, held, caller>> BY <1>4 DEF UserReconnects
  <2>2. \A a \in Actors : rc'[a] = rc[a] \/ rc[a].pc = "idle"
    BY <1>0, <1>4 DEF UserReconnects, TypeOK, Attempts
  <2>3. Answers' = Answers BY <1>2, <2>1 DEF Answers, CanWrite, Alive
  <2> QED BY <1>1, <1>2, <1>3, <2>1, <2>2, <2>3 DEF CallersPort, BootIsUnmet, BareIsOwed, UpIsOwed, LossIsOwed
<1>5. CASE CallBegins
  <2>1. UNCHANGED <<box, rc>> BY <1>5 DEF CallBegins
  <2>2. CASE refused
    <3>1. UNCHANGED caller BY <1>5, <2>2 DEF CallBegins
    <3>2. ~Answers' BY <1>2, <2>2 DEF Answers, CanWrite
    <3> QED BY <1>2, <1>3, <2>1, <3>1, <3>2 DEF CallersPort, BootIsUnmet, BareIsOwed, UpIsOwed, LossIsOwed
  <2>3. CASE ~refused
    <3>1. caller'.pc = "send" /\ caller'.port = slot BY <1>5, <2>3 DEF CallBegins
    <3> QED BY <1>2, <1>3, <2>1, <3>1 DEF CallersPort, BootIsUnmet, BareIsOwed, UpIsOwed, LossIsOwed
  <2> QED BY <2>2, <2>3
<1>6. CASE CallSends
  <2>1. UNCHANGED <<held, rc>> /\ caller'.pc = "idle" BY <1>6 DEF CallSends, NoCall
  <2>2. caller.pc = "send" /\ caller.press = held /\ slot \in {caller.port, Disconnected}
    BY <1>6 DEF CallSends, GhostInv, CallIsLocked, CallersPort
  <2>3. held \in BOOLEAN /\ box \in Box BY <1>0 DEF TypeOK
  <2>4. box' = Taken(box, held) \/ box' = box BY <1>6, <2>2 DEF CallSends
  <2>5. /\ box'.chip = box.chip /\ box'.proto = box.proto /\ box'.here = box.here /\ box'.plug = box.plug
        /\ box.chip = "boot" => box' = box
        /\ box.hello \/ ~box.met => box'.hello \/ ~box'.met
    BY <2>3, <2>4, TakenOwes
  <2>6. CallersPort' /\ BootIsUnmet' BY <2>1, <2>5 DEF CallersPort, BootIsUnmet
  <2>7. BareIsOwed' BY <1>2, <2>1, <2>5 DEF BareIsOwed
  <2>8. UpIsOwed'
    <3>1. Answers' = Answers BY <1>2, <2>5 DEF Answers, CanWrite, Alive
    <3>2. slot.who = "ours" => slot = caller.port BY <2>2 DEF Disconnected
    <3>3. Answers /\ slot.who = "ours" => box' = Taken(box, held)
      BY <1>6, <2>2, <3>2 DEF CallSends, Answers, CanWrite
    <3>4. box.chip = "up" /\ Answers /\ slot.who = "ours" /\ held => box'.holds
      BY <2>3, <3>3, TakenOwes DEF Answers
    <3> QED BY <1>2, <2>1, <2>5, <3>1, <3>4 DEF UpIsOwed, LossIsOwed
  <2> QED BY <1>3, <2>6, <2>7, <2>8
<1> QED BY <1>4, <1>5, <1>6

LEMMA OwingRest ==
  ASSUME LossInv, TakeOwed \/ SeeRelease \/ Recover \/ LastDrop \/ KeepaliveExits
  PROVE  Owing'
<1> USE DEF LossInv, Owing
<1>0. TypeOK BY DEF GhostInv
<1>1. LossIsOwed BY LossFollows
<1>2. UNCHANGED <<slot, refused, held, reader, rc, caller, swallowed>>
  BY DEF TakeOwed, SeeRelease, Recover, LastDrop, KeepaliveExits
<1>3. CallersPort' BY <1>2 DEF CallersPort
<1>4. CASE TakeOwed \/ KeepaliveExits
  <2>1. box' = box /\ ka' # "idle" BY <1>4 DEF TakeOwed, KeepaliveExits
  <2>2. watch.armed = watch'.armed /\ watch.recovering = watch'.recovering
    BY <1>0, <1>4 DEF TakeOwed, KeepaliveExits, TypeOK, Watches
  <2> QED BY <1>3, <2>1, <2>2 DEF RecoveryIsOwed, BootIsUnmet, BareIsOwed, UpIsOwed, LossIsOwed
<1>5. CASE SeeRelease
  <2>1. ka' # "idle" /\ box.chip # "boot" BY <1>5 DEF SeeRelease, Answers
  <2>2. box'.chip = box.chip BY <1>0, <1>5 DEF SeeRelease, TypeOK, Box
  <2>3. watch'.armed BY <1>0, <1>5 DEF SeeRelease, TypeOK, Watches
  <2> QED BY <1>3, <2>1, <2>2, <2>3 DEF RecoveryIsOwed, BootIsUnmet, BareIsOwed, UpIsOwed, LossIsOwed
<1>6. CASE Recover
  <2> DEFINE greeted == [box EXCEPT !.met = TRUE, !.hello = @ \/ ~box.met, !.moved = FALSE]
  <2>1. /\ greeted \in Box
        /\ greeted.chip = "up" /\ greeted.proto = "ours"
    BY <1>0, <1>6 DEF Recover, Answers, TypeOK, Box
  <2>2. box' = IF held THEN Taken(greeted, TRUE) ELSE greeted BY <1>6 DEF Recover
  <2> HIDE DEF greeted
  <2>3. box'.chip = "up" /\ (held => box'.holds) BY <2>1, <2>2, TakenOwes
  <2>4. watch'.armed /\ watch'.recovering = watch.owed /\ watch'.owed = watch.owed
    BY <1>0, <1>6 DEF Recover, TypeOK, Watches
  <2> QED BY <1>2, <1>3, <2>3, <2>4 DEF RecoveryIsOwed, BootIsUnmet, BareIsOwed, UpIsOwed, LossIsOwed
<1>7. CASE LastDrop
  <2>1. UNCHANGED <<box, watch, ka>> BY <1>7 DEF LastDrop
  <2>2. Answers' = Answers BY <1>2, <2>1 DEF Answers, CanWrite, Alive
  <2> QED BY <1>1, <1>2, <1>3, <2>1, <2>2 DEF RecoveryIsOwed, BootIsUnmet, BareIsOwed, UpIsOwed, LossIsOwed
<1> QED BY <1>4, <1>5, <1>6, <1>7

LEMMA LossNext == LossInv /\ [Next]_vars => LossInv'
<1> SUFFICES ASSUME LossInv, [Next]_vars PROVE LossInv' OBVIOUS
<1>1. PathInv' /\ GhostInv' BY PathNext, GhostNext DEF LossInv
<1>2. CASE UNCHANGED vars
  <2>1. Answers' = Answers BY <1>2 DEF vars, Answers, CanWrite, Alive
  <2> QED BY <1>1, <1>2, <2>1 DEF vars, LossInv, Owing, CallersPort, RecoveryIsOwed, BootIsUnmet, BareIsOwed, UpIsOwed, LossIsOwed
<1>3. CASE Next
  <2>1. Owing' BY <1>3, OwingBox, OwingReader, OwingReconnect, OwingCall, OwingRest DEF Next
  <2> QED BY <1>1, <2>1 DEF LossInv
<1> QED BY <1>2, <1>3

\* A key that is held and that the box in use does not hold is always owed to somebody: whatever
\* port is swapped in under a call, and whichever of the reader, a probe and the handshake takes
\* the hello of a boot, a call, a replay or a recovery is still to send the key, unless the last
\* hello was lost or went to a probe that does not look for one.
THEOREM LossCorrect == Spec => []LossIsOwed
BY LossInit, LossNext, LossFollows, PTL DEF Spec

=============================================================================
