------------------------------- MODULE Events -------------------------------
(***************************************************************************)
(* One event stream from the reader to the threads that receive on it      *)
(* (deliver_event in src/src/link/catch.rs, EventStream and its closer in  *)
(* src/src/device/catch.rs) and the decoding of held-usage snapshots into  *)
(* edges on the way (InputStream in src/src/device/input.rs).              *)
(*                                                                         *)
(* The reader sends into a bounded channel and, when it is full, evicts    *)
(* the oldest, sends again and counts: three steps a receiver may run      *)
(* between.  Receives take turns; closes come from any thread.             *)
(***************************************************************************)
EXTENDS Retain, SequencesExt

CONSTANTS
  Usages,     \* what a snapshot lists
  Watched,    \* what the stream asked for; the table may be wider
  Snapshots,  \* the lists a snapshot may have
  Capacity,   \* CATCH_CAPACITY
  Receivers, Closers,
  ModeOf,     \* how each receiver may wait
  MaxReports  \* bound on the events of the box

ASSUME CapacityAssumption == Capacity \in Nat \ {0}
ASSUME WatchedAssumption == Watched \subseteq Usages
ASSUME SnapshotsAssumption == Snapshots \subseteq Seq(Usages)
Modes == {"recv", "timeout", "try"}  \* recv, recv_timeout, try_recv
ASSUME ModesAssumption == ModeOf \in [Receivers -> SUBSET Modes]
ASSUME MaxReportsAssumption == MaxReports \in Nat \ {0}

VARIABLES
  queue,      \* the channel: numbered events
  dropped,    \* the stream's drop counter
  registered, \* is the stream in CatchReg, which holds the channel's sender?
  reader,     \* where deliver_event is, and its event
  closed,     \* CatchGuard::closed
  closer,     \* where each close() is
  turn,       \* who holds InputStream::turn
  rcv,        \* the receives
  held, pending,           \* InputStream::state
  app,        \* history: what its consumer believes pressed
  real,       \* history: the usages the box listed last, and whether
              \* the event that did was evicted
  ended,      \* history: has a close() returned?
  gone,       \* history: has the box been unplugged for good?
  offered, taken, last     \* history: events sent, received, the last of them

decoder == <<held, pending>>
histories == <<app, real, ended, gone, offered, taken, last>>
vars == <<queue, dropped, registered, reader, closed, closer, turn, rcv, decoder, histories>>

Nobody == "nobody"
ASSUME NobodyAssumption == Nobody \notin Receivers

\* An event is a snapshot, or motion, which has no usages.
Motion == <<"motion">>
EventOf == Snapshots \cup {Motion}
Numbered == [n : 1 .. MaxReports, ev : EventOf]

Receive == [pc : {"idle", "turn", "check", "pop", "wait", "pump"},
            mode : Modes, late : BOOLEAN, ev : EventOf]

Resting == [pc |-> "idle", e |-> [n |-> 1, ev |-> Motion]]

\* What the decoder and its consumer hold is EdgesAlternate's to say.
TypeOK ==
  /\ queue \in Seq(Numbered) /\ Len(queue) <= Capacity
  /\ dropped \in 0 .. MaxReports
  /\ reader \in [pc : {"idle", "evict", "send", "count"}, e : Numbered]
  /\ registered \in BOOLEAN /\ closed \in BOOLEAN /\ ended \in BOOLEAN /\ gone \in BOOLEAN
  /\ closer \in [Closers -> {"idle", "detach", "return", "done"}]
  /\ turn \in Receivers \cup {Nobody}
  /\ rcv \in [Receivers -> Receive]
  /\ real \in [n : 0 .. MaxReports, listed : SUBSET Usages, cut : BOOLEAN]
  /\ offered \in 0 .. MaxReports /\ taken \in 0 .. MaxReports /\ last \in 0 .. MaxReports

Init ==
  /\ queue = <<>> /\ dropped = 0
  /\ registered = TRUE
  /\ reader = Resting
  /\ closed = FALSE
  /\ closer = [k \in Closers |-> "idle"]
  /\ turn = Nobody
  /\ rcv \in [Receivers -> {r \in Receive : r.pc = "idle" /\ ~r.late /\ r.ev = Motion}]
  /\ \A c \in Receivers : rcv[c].mode \in ModeOf[c]
  /\ held = <<>> /\ pending = <<>>
  /\ app = {} /\ real = [n |-> 0, listed |-> {}, cut |-> FALSE] /\ ended = FALSE /\ gone = FALSE
  /\ offered = 0 /\ taken = 0 /\ last = 0

-----------------------------------------------------------------------------
(* The reader, under the lock of the registry.                              *)

\* `wanted`: a snapshot goes by its class alone, since a release is the
\* snapshot that no longer lists the usage.
WantedByUsage(ev) == ev = Motion \/ ToSet(ev) \cap Watched # {}
Wanted(ev) == ev \in EventOf

Delivering == UNCHANGED <<registered, closed, closer, turn, rcv, decoder, app, ended, gone, taken, last>>

\* The first try_send.
Report(ev) ==
  LET e == [n |-> offered + 1, ev |-> ev]
  IN  /\ reader.pc = "idle" /\ ~gone
      /\ registered /\ offered < MaxReports
      /\ real' = IF ev = Motion THEN real
                 ELSE [n |-> offered + 1, listed |-> ToSet(ev), cut |-> FALSE]
      /\ IF Wanted(ev)
           THEN /\ offered' = offered + 1
                /\ IF Len(queue) < Capacity
                     THEN queue' = Append(queue, e) /\ UNCHANGED reader
                     ELSE reader' = [pc |-> "evict", e |-> e] /\ UNCHANGED queue
           ELSE UNCHANGED <<offered, queue, reader>>
      /\ UNCHANGED dropped
      /\ Delivering

\* evict_rx.try_recv: the oldest goes, if a receiver has not emptied it.
Evict ==
  /\ reader.pc = "evict"
  /\ queue' = IF queue = <<>> THEN queue ELSE Tail(queue)
  /\ real' = [real EXCEPT !.cut = @ \/ (queue # <<>> /\ Head(queue).n = real.n)]
  /\ reader' = [reader EXCEPT !.pc = "send"]
  /\ UNCHANGED <<dropped, offered>>
  /\ Delivering

SendAgainUncounted ==
  /\ reader.pc = "send"
  /\ queue' = IF Len(queue) < Capacity THEN Append(queue, reader.e) ELSE queue
  /\ reader' = Resting
  /\ UNCHANGED <<dropped, real, offered>>
  /\ Delivering

\* The second try_send, whose result is not looked at.
SendAgain ==
  /\ reader.pc = "send"
  /\ queue' = IF Len(queue) < Capacity THEN Append(queue, reader.e) ELSE queue
  /\ reader' = [reader EXCEPT !.pc = "count"]
  /\ UNCHANGED <<dropped, real, offered>>
  /\ Delivering

CountDrop ==
  /\ reader.pc = "count"
  /\ dropped' = dropped + 1
  /\ reader' = Resting
  /\ UNCHANGED <<queue, real, offered>>
  /\ Delivering

ReaderStep == Evict \/ SendAgain \/ CountDrop

\* The box is gone: the reader tries to reconnect for ever.
Unplug ==
  /\ ~gone /\ reader.pc = "idle"
  /\ gone' = TRUE
  /\ UNCHANGED <<queue, dropped, registered, reader, closed, closer, turn, rcv, decoder,
                 app, real, ended, offered, taken, last>>

-----------------------------------------------------------------------------
(* Closing.                                                                 *)

Closing == UNCHANGED <<queue, dropped, reader, turn, rcv, decoder, app, real, gone, offered, taken, last>>

CloseFlag(k) ==
  /\ closer[k] = "idle"
  /\ closed' = TRUE
  /\ closer' = [closer EXCEPT ![k] = "done"]
  /\ ended' = TRUE
  /\ UNCHANGED registered
  /\ Closing

\* CatchGuard::close, of a closer or of the last handle's drop: the first to
\* set the flag unsubscribes, another returns.
Close(k) ==
  /\ closer[k] = "idle"
  /\ closed' = TRUE
  /\ closer' = [closer EXCEPT ![k] = IF closed THEN "done" ELSE "detach"]
  /\ ended' = (ended \/ closed)
  /\ UNCHANGED registered
  /\ Closing

\* detach_sub, under the registry's lock: the channel's sender is dropped.
Detach(k) ==
  /\ closer[k] = "detach"
  /\ reader.pc = "idle"
  /\ registered' = FALSE
  /\ closer' = [closer EXCEPT ![k] = "return"]
  /\ UNCHANGED <<closed, ended>>
  /\ Closing

\* The frames that narrow the box's table are out.
CloseReturns(k) ==
  /\ closer[k] = "return"
  /\ closer' = [closer EXCEPT ![k] = "done"]
  /\ ended' = TRUE
  /\ UNCHANGED <<registered, closed>>
  /\ Closing

\* Device::reset ends every stream.
ResetEnds ==
  /\ registered /\ reader.pc = "idle"
  /\ registered' = FALSE
  /\ UNCHANGED <<closed, closer, ended>>
  /\ Closing

-----------------------------------------------------------------------------
(* Decoding.                                                                *)

ListedTwice(ev) == Retain(ev, Watched)

\* The watched usages of a snapshot, each once, at its first place.
Listed(ev) ==
  LET upTo[n \in 0 .. Len(ev)] ==
        IF n = 0 THEN <<>>
        ELSE IF ev[n] \in Watched \ ToSet(upTo[n - 1]) THEN Append(upTo[n - 1], ev[n])
        ELSE upTo[n - 1]
  IN  upTo[Len(ev)]

EdgesOf(edge, seq) == [i \in DOMAIN seq |-> <<edge, seq[i]>>]

\* Decoded::pump: releases first, and the new held set.
Decode(ev) ==
  LET now == Listed(ev)
      up == Retain(held, ToSet(held) \ ToSet(now))
      down == Retain(now, ToSet(now) \ ToSet(held))
  IN  /\ pending' = pending \o EdgesOf("release", up) \o EdgesOf("press", down)
      /\ held' = now

-----------------------------------------------------------------------------
(* Receiving.                                                               *)

Receiving == UNCHANGED <<dropped, registered, reader, closed, closer, real, ended, gone, offered>>

At(c, pc) == rcv[c].pc = pc
To(c, pc) == rcv' = [rcv EXCEPT ![c].pc = pc]
Quit(c) == To(c, "idle") /\ turn' = Nobody

\* A receive begins; try_recv gives up when another holds the turn.
Begin(c) ==
  /\ At(c, "idle")
  /\ IF rcv[c].mode = "try" THEN turn = Nobody /\ turn' = c ELSE UNCHANGED turn
  /\ rcv' = [rcv EXCEPT ![c].pc = IF rcv[c].mode = "try" THEN "check" ELSE "turn",
                        ![c].late = ended]
  /\ UNCHANGED <<queue, decoder, app, taken, last>>
  /\ Receiving

TakeTurn(c) ==
  /\ At(c, "turn") /\ turn = Nobody
  /\ turn' = c
  /\ To(c, "check")
  /\ UNCHANGED <<queue, decoder, app, taken, last>>
  /\ Receiving

\* recv_timeout's deadline passes while another receives.
GiveUpTurn(c) ==
  /\ At(c, "turn") /\ rcv[c].mode = "timeout"
  /\ To(c, "idle")
  /\ UNCHANGED <<turn, queue, decoder, app, taken, last>>
  /\ Receiving

CheckNothing(c) ==
  /\ At(c, "check")
  /\ To(c, "pop")
  /\ UNCHANGED <<turn, queue, decoder, app, taken, last>>
  /\ Receiving

\* The flag is looked at under the turn.
CheckClosed(c) ==
  /\ At(c, "check")
  /\ IF closed THEN Quit(c) ELSE To(c, "pop") /\ UNCHANGED turn
  /\ UNCHANGED <<queue, decoder, app, taken, last>>
  /\ Receiving

\* An edge that is decoded is returned; else the channel is next, unless
\* the stream was closed meanwhile.
Pop(c) ==
  /\ At(c, "pop")
  /\ \/ /\ pending # <<>>
        /\ pending' = Tail(pending)
        /\ LET e == Head(pending)
           IN  app' = CASE e[1] = "press" -> app \cup {e[2]}
                        [] e[1] = "release" -> app \ {e[2]}
                        [] OTHER -> app
        /\ Quit(c)
     \/ /\ pending = <<>>
        /\ IF closed THEN Quit(c) ELSE To(c, "wait") /\ UNCHANGED turn
        /\ UNCHANGED <<pending, app>>
  /\ UNCHANGED <<queue, held, taken, last>>
  /\ Receiving

\* The channel gives what it has even after its sender is gone.
Take(c) ==
  /\ At(c, "wait") /\ queue # <<>>
  /\ queue' = Tail(queue)
  /\ rcv' = [rcv EXCEPT ![c].pc = "pump", ![c].ev = Head(queue).ev]
  /\ taken' = taken + 1
  /\ last' = Head(queue).n
  /\ UNCHANGED <<turn, decoder, app>>
  /\ Receiving

\* Nothing there: try_recv returns, recv_timeout may, and any receive does
\* when the sender is gone.
WaitEnds(c) ==
  /\ At(c, "wait") /\ queue = <<>>
  /\ ~registered \/ rcv[c].mode # "recv"
  /\ Quit(c)
  /\ UNCHANGED <<queue, decoder, app, taken, last>>
  /\ Receiving

\* A report may decode to nothing (motion on no axis, a snapshot that changes
\* nothing), so the receive goes round again.
Pump(c) ==
  /\ At(c, "pump")
  /\ IF rcv[c].ev = Motion
       THEN pending' \in {pending, Append(pending, Motion)} /\ UNCHANGED held
       ELSE Decode(rcv[c].ev)
  /\ rcv' = [rcv EXCEPT ![c].pc = "check", ![c].ev = Motion]
  /\ UNCHANGED <<turn, queue, app, taken, last>>
  /\ Receiving

Receiver(c) ==
  TakeTurn(c) \/ CheckClosed(c) \/ Pop(c) \/ Take(c) \/ WaitEnds(c) \/ Pump(c)

Next ==
  \/ \E ev \in EventOf : Report(ev)
  \/ ReaderStep \/ Unplug \/ ResetEnds
  \/ \E k \in Closers : Close(k) \/ Detach(k) \/ CloseReturns(k)
  \/ \E c \in Receivers : Begin(c) \/ GiveUpTurn(c) \/ Receiver(c)

\* Threads that can go on do; the lock of the turn is fair in the end.
Fairness ==
  /\ WF_vars(ReaderStep)
  /\ \A k \in Closers : WF_vars(Detach(k)) /\ WF_vars(CloseReturns(k))
  /\ \A c \in Receivers : SF_vars(TakeTurn(c)) /\ WF_vars(Receiver(c))

Spec == Init /\ [][Next]_vars /\ Fairness

-----------------------------------------------------------------------------
(* Properties.                                                              *)

\* The stream is a Feed: in order, once each, nothing skipped uncounted; an
\* event already evicted is missed before its reader has counted it.
Missed == dropped + IF reader.pc = "idle" THEN 0 ELSE 1
FeedView == INSTANCE Feed WITH skipped <- last - taken, missed <- Missed
Refines == FeedView!Spec

\* What is decoded and not yet received leads from what the consumer believes
\* pressed to `held`, a press only of what is up, a release of what is down.
After(i) ==
  {u \in Usages : LET of == {j \in 1 .. i : pending[j] # Motion /\ pending[j][2] = u}
                  IN  IF of = {} THEN u \in app
                      ELSE pending[CHOOSE j \in of : \A k \in of : k <= j][1] = "press"}
EdgesAlternate ==
  /\ \A i \in DOMAIN pending :
       pending[i] # Motion => (pending[i][1] = "press" <=> pending[i][2] \notin After(i - 1))
  /\ After(Len(pending)) = ToSet(held)

\* However many events were dropped, a consumer that has received everything
\* believes pressed what the last snapshot listed, and nothing stays pressed,
\* unless what came after that snapshot has pushed it out of the queue.
NothingStuck ==
  registered /\ reader.pc = "idle" /\ queue = <<>> /\ pending = <<>>
    /\ (\A c \in Receivers : ~At(c, "pump"))
    /\ ~real.cut
  => app = real.listed \cap Watched

\* A receive that begins after a close() returned gets nothing, whatever is
\* still queued or decoded.
NothingAfterClose ==
  [][\A c \in Receivers : rcv[c].late /\ At(c, "pop") => pending' = pending]_vars

\* A close, or a reset, ends every receive, blocked in the channel or behind
\* another's turn.
BlockedEnd ==
  \A c \in Receivers : (closed \/ ~registered) /\ ~At(c, "idle") ~> At(c, "idle")
=============================================================================
