------------------------------ MODULE WinRead ------------------------------
(***************************************************************************)
(* Waiting for bytes on Windows (src/src/transport/serial/windows.rs).     *)
(* A read arms a comm event, drains the port and then waits.  The wait     *)
(* outlives the read: the kernel keeps writing to `op` until it ends, and  *)
(* another thread may read next, wake the reader, or drop the transport.   *)
(***************************************************************************)
EXTENDS Naturals

CONSTANTS
  Readers,     \* the threads that read, one after another
  NoReader,
  MaxBytes,    \* bounds: bytes that arrive,
  MaxWakes     \* and calls of wake_read

ASSUME ReaderAssumption == NoReader \notin Readers
ASSUME ArrivalAssumption == {MaxBytes, MaxWakes} \subseteq Nat

VARIABLES
  unread,    \* driver: there are bytes to read
  history,   \* driver: a byte came while nothing waited
  stuck,     \* driver: it no longer ends a wait when told to
  pending,   \* kernel: the thread whose wait writes to `op`, if any
  event,     \* the event `op` ends with is set
  op,        \* the memory of the wait: "held", "freed" or "leaked"
  owner,     \* RxWait.owner
  woken,     \* SerialTransport.woken
  rx,        \* the lock on RxWait
  at,        \* where each reader is
  fired,     \* the `fired` of the read under way
  waker,     \* where wake_read is
  used       \* how much of the bounds is used up

winVars == <<unread, history, stuck, pending, event, op, owner, woken, rx, at, fired, waker, used>>

WinTypeOK ==
  /\ {unread, history, stuck, event, woken, fired} \subseteq BOOLEAN
  /\ {pending, owner, rx} \subseteq Readers \cup {NoReader}
  /\ op \in {"held", "freed", "leaked"}
  /\ at \in [Readers -> {"out", "arm", "drain", "look", "wait", "gone"}]
  /\ waker \in {"out", "interrupt"}
  /\ used \in [bytes : Nat, wakes : Nat]

-----------------------------------------------------------------------------
(* Win32.  A byte, or setting the comm mask, ends the wait; if none is      *)
(* pending a byte is remembered, and a mask may forget it.                  *)

EndWait == pending' = NoReader /\ event' = TRUE
KeepWait == UNCHANGED <<pending, event>>

SetCommMask ==
  /\ IF pending # NoReader /\ ~stuck THEN EndWait ELSE KeepWait
  /\ history' \in {FALSE, history}

ByteArrives ==
  /\ used.bytes < MaxBytes
  /\ unread' = TRUE
  /\ IF pending # NoReader THEN EndWait /\ UNCHANGED history
     ELSE KeepWait /\ history' = TRUE
  /\ used' = [used EXCEPT !.bytes = @ + 1]
  /\ UNCHANGED <<stuck, op, owner, woken, rx, at, fired, waker>>

DriverSticks ==
  /\ ~stuck
  /\ stuck' = TRUE
  /\ UNCHANGED <<unread, history, pending, event, op, owner, woken, rx, at, fired, waker, used>>

WaitCommEvent(t) ==
  /\ fired' = history
  /\ history' = FALSE
  /\ event' = history
  /\ IF history THEN UNCHANGED <<pending, owner>> ELSE pending' = t /\ owner' = t

\* A thread that exits takes its wait with it.
ThreadExits(t) ==
  /\ at[t] = "out"
  /\ at' = [at EXCEPT ![t] = "gone"]
  /\ IF pending = t THEN EndWait ELSE KeepWait
  /\ UNCHANGED <<unread, history, stuck, op, owner, woken, rx, fired, waker, used>>

-----------------------------------------------------------------------------
(* RxWait::retire: the mask ends the wait, or a cancel does, or neither.    *)

Retire ==
  IF owner = NoReader THEN UNCHANGED <<history, pending, event, owner>>
  ELSE /\ SetCommMask
       /\ owner' = IF event' THEN NoReader ELSE owner

-----------------------------------------------------------------------------
(* SerialTransport::read.                                                   *)

Go(t, step) == at' = [at EXCEPT ![t] = step]
ReadReturns(t) == Go(t, "out") /\ rx' = NoReader

Read(t) ==
  /\ at[t] = "out" /\ rx = NoReader /\ op = "held"
  /\ rx' = t
  /\ Go(t, "arm")
  /\ fired' = FALSE
  /\ UNCHANGED <<unread, history, stuck, pending, event, op, owner, woken, waker, used>>

\* The wait of this thread is still there.
KeepArmed(t) ==
  /\ at[t] = "arm" /\ owner = t
  /\ fired' = FALSE
  /\ Go(t, "drain")
  /\ UNCHANGED <<unread, history, stuck, pending, event, op, owner, woken, rx, waker, used>>

\* Another thread's is retired first; the read fails if that does.
RetireOther(t) ==
  /\ at[t] = "arm" /\ owner \notin {t, NoReader}
  /\ Retire
  /\ IF owner' = NoReader THEN UNCHANGED <<at, rx>> ELSE ReadReturns(t)
  /\ UNCHANGED <<unread, stuck, op, woken, fired, waker, used>>

Arm(t) ==
  /\ at[t] = "arm" /\ owner = NoReader
  /\ WaitCommEvent(t)
  /\ Go(t, "drain")
  /\ UNCHANGED <<unread, stuck, op, woken, rx, waker, used>>

DrainRx(t) ==
  /\ at[t] = "drain"
  /\ IF unread THEN unread' = FALSE /\ ReadReturns(t) ELSE Go(t, "look") /\ UNCHANGED <<unread, rx>>
  /\ UNCHANGED <<history, stuck, pending, event, op, owner, woken, fired, waker, used>>

\* The port is gone, or its driver fails the request.
ReadFails(t) ==
  /\ at[t] \in {"arm", "drain"}
  /\ ReadReturns(t)
  /\ UNCHANGED <<unread, history, stuck, pending, event, op, owner, woken, fired, waker, used>>

\* Past its deadline, or woken, the read returns nothing.
Look(t) ==
  /\ at[t] = "look"
  /\ \/ ReadReturns(t) /\ UNCHANGED woken
     \/ woken /\ woken' = FALSE /\ ReadReturns(t)
     \/ ~woken /\ Go(t, IF fired THEN "arm" ELSE "wait") /\ UNCHANGED <<woken, rx>>
  /\ UNCHANGED <<unread, history, stuck, pending, event, op, owner, fired, waker, used>>

WaitEnds(t) ==
  /\ at[t] = "wait" /\ event
  /\ owner' = NoReader
  /\ Go(t, "arm")
  /\ UNCHANGED <<unread, history, stuck, pending, event, op, woken, rx, fired, waker, used>>

\* The wait stays armed for the next read.
TimeoutForgets(t) ==
  /\ at[t] = "wait" /\ ~event
  /\ ReadReturns(t)
  /\ owner' = NoReader
  /\ UNCHANGED <<unread, history, stuck, pending, event, op, woken, fired, waker, used>>

WaitTimesOut(t) ==
  /\ at[t] = "wait" /\ ~event
  /\ ReadReturns(t)
  /\ UNCHANGED <<unread, history, stuck, pending, event, op, owner, woken, fired, waker, used>>

release_read(t) ==
  /\ at[t] = "out" /\ rx = NoReader /\ op = "held"
  /\ Retire
  /\ UNCHANGED <<unread, stuck, op, woken, rx, at, fired, waker, used>>

\* wake_read, on a thread of its own: the flag first, then the wait.
WakeLate ==
  \/ /\ waker = "out" /\ used.wakes < MaxWakes /\ op = "held"
     /\ waker' = "interrupt"
     /\ SetCommMask
     /\ used' = [used EXCEPT !.wakes = @ + 1]
     /\ UNCHANGED <<unread, stuck, op, owner, woken, rx, at, fired>>
  \/ /\ waker = "interrupt"
     /\ waker' = "out"
     /\ woken' = TRUE
     /\ UNCHANGED <<unread, history, stuck, pending, event, op, owner, rx, at, fired, used>>

Wake ==
  \/ /\ waker = "out" /\ used.wakes < MaxWakes /\ op = "held"
     /\ waker' = "interrupt"
     /\ woken' = TRUE
     /\ used' = [used EXCEPT !.wakes = @ + 1]
     /\ UNCHANGED <<unread, history, stuck, pending, event, op, owner, rx, at, fired>>
  \/ /\ waker = "interrupt"
     /\ waker' = "out"
     /\ SetCommMask
     /\ UNCHANGED <<unread, stuck, op, owner, woken, rx, at, fired, used>>

\* No thread holds the transport any more.  A wait that will not end keeps its memory.
Drop ==
  /\ op = "held" /\ rx = NoReader /\ waker = "out"
  /\ Retire
  /\ op' = IF owner' = NoReader THEN "freed" ELSE "leaked"
  /\ UNCHANGED <<unread, stuck, woken, rx, at, fired, waker, used>>

-----------------------------------------------------------------------------
WinInit ==
  /\ unread = FALSE /\ history = FALSE /\ stuck = FALSE
  /\ pending = NoReader /\ event = FALSE /\ op = "held"
  /\ owner = NoReader /\ woken = FALSE /\ rx = NoReader
  /\ at = [t \in Readers |-> "out"] /\ fired = FALSE /\ waker = "out"
  /\ used = [bytes |-> 0, wakes |-> 0]

ReaderStep(t) ==
  \/ Read(t) \/ KeepArmed(t) \/ RetireOther(t) \/ Arm(t) \/ DrainRx(t) \/ ReadFails(t)
  \/ Look(t) \/ WaitEnds(t) \/ WaitTimesOut(t) \/ release_read(t) \/ ThreadExits(t)

WinNext ==
  \/ ByteArrives \/ DriverSticks \/ Wake \/ Drop
  \/ \E t \in Readers : ReaderStep(t)

WinSpec == WinInit /\ [][WinNext]_winVars

-----------------------------------------------------------------------------
\* The kernel never writes to memory that was freed, and a wait it still has to end is never
\* started over (windows.rs:269, "A wait that never ended still has the kernel writing `op`").
OpAlive == pending # NoReader => op # "freed" /\ owner # NoReader

\* A reader does not sleep through a byte or a wake_read: whatever comes once it has looked for
\* bytes ends the wait it armed before it looked (windows.rs:93, "Armed before the drain").
NothingSleptThrough ==
  \A t \in Readers :
    at[t] = "wait" /\ ~stuck /\ (unread \/ (woken /\ waker = "out")) => event

=============================================================================
