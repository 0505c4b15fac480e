---------------------------- MODULE Correlation ----------------------------
(***************************************************************************)
(* Query correlation (src/src/link/correlation.rs): many threads and       *)
(* futures wait for answers that share one serial line.  A query takes a   *)
(* SEQ byte, parks an entry in the `pending` map under it and waits on a   *)
(* one-slot channel; the reader thread matches every answer against the    *)
(* map.  A wait that runs out cancels its entry, but only if the entry is  *)
(* still its own (`gen_id`).  The SEQ counter is a u8 shared with every    *)
(* fire-and-forget frame, so it wraps all the time.                        *)
(*                                                                         *)
(* `line` is the queries sent and not yet answered to the host, in order:  *)
(* the box answers in order and the line keeps order, so where on the way  *)
(* a query or its answer is makes no difference to the host.               *)
(*                                                                         *)
(* `turn` is a history value: the SEQ counter before it was cut to a byte. *)
(***************************************************************************)
EXTENDS Integers, Sequences, SequencesExt, FiniteSets

CONSTANTS
  SyncCallers,   \* threads in query / transfer
  AsyncCallers,  \* futures in query_async / transfer_async
  Selectors,     \* what an answer must lead with: (frame type, first byte)
  SeqSpace,      \* 256 in the code: SEQ is a u8
  MaxTurn,       \* bound on the SEQ counter
  MaxGen,        \* bound on the queries registered
  NoEntry,       \* an unused SEQ
  NoReply        \* an empty reply channel

Callers == SyncCallers \cup AsyncCallers
Seqs == 0 .. SeqSpace - 1
HelloSeq == 0

ASSUME SeqSpaceAssumption == SeqSpace \in Nat \ {0, 1}
ASSUME CallerAssumption == SyncCallers \cap AsyncCallers = {}
ASSUME BoundAssumption == MaxTurn \in Nat /\ MaxGen \in Nat
ASSUME NoneAssumption ==
  /\ NoEntry \notin [gen : Nat, what : Selectors, tx : Callers, turn : Nat]
  /\ NoReply \notin [gen : Nat, seq : Seqs, what : Selectors, turn : Nat]

VARIABLES
  turn,     \* seq_counter, before the wrap to a byte
  gen,      \* query_gen: the next gen_id
  pending,  \* the pending map, by SEQ
  call,     \* each caller's query
  due,      \* timeouts elapsed in a helper thread, whose cancel has not run
  line,     \* queries on their way to the box and answers on their way back
  overrun   \* history: a registration has replaced a live entry

vars == <<turn, gen, pending, call, due, line, overrun>>

Frame == [gen : Nat, seq : Seqs, what : Selectors, turn : Nat]
Entry == [gen : Nat, what : Selectors, tx : Callers, turn : Nat]

\* A query is registered before its frame is written, and listens from then on.
Listening == {"registered", "waiting", "expired"}
Ended == {"idle", "answered", "timedout", "failed", "dropped"}
Call == [st : Listening \cup Ended, gen : Nat, seq : Seqs, what : Selectors,
         turn : Nat, reply : Frame \cup {NoReply}, timer : BOOLEAN]

TypeOK ==
  /\ turn \in Nat
  /\ gen \in Nat
  /\ pending \in [Seqs -> Entry \cup {NoEntry}]
  /\ call \in [Callers -> Call]
  /\ due \in SUBSET [seq : Seqs, gen : Nat]
  /\ line \in Seq(Frame)
  /\ overrun \in BOOLEAN

Init ==
  /\ turn = 0
  /\ gen = 0
  /\ pending = [s \in Seqs |-> NoEntry]
  /\ \E w \in Selectors :
       call = [c \in Callers |-> [st |-> "idle", gen |-> 0, seq |-> 0,
                                  what |-> w, turn |-> 0, reply |-> NoReply,
                                  timer |-> FALSE]]
  /\ due = {}
  /\ line = <<>>
  /\ overrun = FALSE

-----------------------------------------------------------------------------
(* The SEQ a registration takes: the first one past the counter that is     *)
(* neither the hello's nor awaited.  After a whole turn without one it      *)
(* takes the next but the hello's, awaited or not.                          *)

SeqAt(k) == (turn + k) % SeqSpace

FreeAt(k) == SeqAt(k) # HelloSeq /\ pending[SeqAt(k)] = NoEntry

\* The number of counter steps `register` takes before the one it keeps.
IsSkip(k) ==
  \/ /\ k \in Seqs
     /\ FreeAt(k)
     /\ \A j \in Seqs : j < k => ~FreeAt(j)
  \/ /\ \A j \in Seqs : ~FreeAt(j)
     /\ k = IF SeqAt(SeqSpace) = HelloSeq THEN SeqSpace + 1 ELSE SeqSpace

Register(c, w) ==
  /\ call[c].st \in Ended
  /\ gen < MaxGen
  /\ \E k \in 0 .. SeqSpace + 1 :
       /\ IsSkip(k)
       /\ turn + k < MaxTurn
       /\ turn' = turn + k + 1
       /\ pending' = [pending EXCEPT ![SeqAt(k)] =
                        [gen |-> gen, what |-> w, tx |-> c, turn |-> turn + k]]
       /\ overrun' = (overrun \/ pending[SeqAt(k)] # NoEntry)
       /\ call' = [call EXCEPT ![c] =
                     [st |-> "registered", gen |-> gen, seq |-> SeqAt(k),
                      what |-> w, turn |-> turn + k, reply |-> NoReply,
                      timer |-> FALSE]]
  /\ gen' = gen + 1
  /\ UNCHANGED <<due, line>>

\* Every frame that awaits no answer takes a SEQ too.
SendCommand ==
  /\ turn < MaxTurn
  /\ turn' = turn + 1
  /\ UNCHANGED <<gen, pending, call, due, line, overrun>>

\* Fault: a cancel removes whatever is in its place.
CancelledAny(s, g) == [pending EXCEPT ![s] = NoEntry]

Cancelled(s, g) ==
  IF pending[s] # NoEntry /\ pending[s].gen = g
  THEN [pending EXCEPT ![s] = NoEntry]
  ELSE pending

SendRequest(c) ==
  /\ call[c].st = "registered"
  /\ line' = Append(line, [gen |-> call[c].gen, seq |-> call[c].seq,
                           what |-> call[c].what, turn |-> call[c].turn])
  /\ call' = [call EXCEPT ![c].st = "waiting"]
  /\ UNCHANGED <<turn, gen, pending, due, overrun>>

\* Fault: a failed write leaves the entry behind.
SendFailsSilently(c) ==
  /\ call[c].st = "registered"
  /\ call' = [call EXCEPT ![c].st = "failed"]
  /\ UNCHANGED <<turn, gen, pending, due, line, overrun>>

\* The write failed: the query gives its SEQ back and returns the error.
SendFails(c) ==
  /\ call[c].st = "registered"
  /\ pending' = Cancelled(call[c].seq, call[c].gen)
  /\ call' = [call EXCEPT ![c].st = "failed"]
  /\ UNCHANGED <<turn, gen, due, line, overrun>>

-----------------------------------------------------------------------------
(* The reader thread.                                                       *)

\* Fault: an answer goes to whoever waits under its SEQ.
MatchesSeq(m) == pending[m.seq] # NoEntry

Matches(m) == pending[m.seq] # NoEntry /\ pending[m.seq].what = m.what

\* The channel is gone once its caller has returned; the send is then ignored.
Answers(m) ==
  LET e == pending[m.seq]
  IN  IF call[e.tx].gen = e.gen /\ call[e.tx].st \in Listening
      THEN [call EXCEPT ![e.tx].reply = m]
      ELSE call

Deliver ==
  /\ line # <<>>
  /\ IF Matches(Head(line))
     THEN /\ pending' = [pending EXCEPT ![Head(line).seq] = NoEntry]
          /\ call' = Answers(Head(line))
     ELSE UNCHANGED <<pending, call>>
  /\ line' = Tail(line)
  /\ UNCHANGED <<turn, gen, due, overrun>>

\* A query or an answer dropped on the line, for its CRC or by a busy box.
Lose ==
  \E i \in DOMAIN line :
    /\ line' = RemoveAt(line, i)
    /\ UNCHANGED <<turn, gen, pending, call, due, overrun>>

-----------------------------------------------------------------------------
(* The callers.                                                             *)

TakeAnswer(c) ==
  /\ call[c].st = "waiting"
  /\ call[c].reply # NoReply
  /\ call' = [call EXCEPT ![c].st = "answered"]
  /\ UNCHANGED <<turn, gen, pending, due, line, overrun>>

\* The sender is dropped with the entry, so an empty channel without an entry
\* reads as disconnected.
Disconnected(c) ==
  /\ call[c].reply = NoReply
  /\ \A s \in Seqs : pending[s] # NoEntry => pending[s].gen # call[c].gen

\* recv_timeout fails, by time or by a dropped sender; the cancel comes after.
Expire(c) ==
  /\ c \in SyncCallers
  /\ call[c].st = "waiting"
  /\ call[c].reply = NoReply
  /\ call' = [call EXCEPT ![c].st = "expired"]
  /\ UNCHANGED <<turn, gen, pending, due, line, overrun>>

CancelExpired(c) ==
  /\ call[c].st = "expired"
  /\ pending' = Cancelled(call[c].seq, call[c].gen)
  /\ call' = [call EXCEPT ![c].st = "timedout"]
  /\ UNCHANGED <<turn, gen, due, line, overrun>>

\* The helper thread of an async query times out; its cancel is a later step.
TimerElapses(c) ==
  /\ c \in AsyncCallers
  /\ call[c].st = "waiting"
  /\ ~call[c].timer
  /\ call' = [call EXCEPT ![c].timer = TRUE]
  /\ due' = due \cup {[seq |-> call[c].seq, gen |-> call[c].gen]}
  /\ UNCHANGED <<turn, gen, pending, line, overrun>>

\* Fault: the helper ends without its cancel.
ForgetDue ==
  \E d \in due :
    /\ due' = due \ {d}
    /\ UNCHANGED <<turn, gen, pending, call, line, overrun>>

CancelDue ==
  \E d \in due :
    /\ pending' = Cancelled(d.seq, d.gen)
    /\ due' = due \ {d}
    /\ UNCHANGED <<turn, gen, call, line, overrun>>

SeeDisconnect(c) ==
  /\ c \in AsyncCallers
  /\ call[c].st = "waiting"
  /\ Disconnected(c)
  /\ call' = [call EXCEPT ![c].st = "timedout"]
  /\ UNCHANGED <<turn, gen, pending, due, line, overrun>>

\* Dropping the future drops cancel_tx, which ends the helper without a cancel.
DropFuture(c) ==
  /\ c \in AsyncCallers
  /\ call[c].st = "waiting"
  /\ call' = [call EXCEPT ![c].st = "dropped"]
  /\ UNCHANGED <<turn, gen, pending, due, line, overrun>>

Next ==
  \/ \E c \in Callers :
       \/ \E w \in Selectors : Register(c, w)
       \/ SendRequest(c)
       \/ SendFails(c)
       \/ TakeAnswer(c)
       \/ Expire(c)
       \/ CancelExpired(c)
       \/ TimerElapses(c)
       \/ SeeDisconnect(c)
       \/ DropFuture(c)
  \/ SendCommand
  \/ Deliver
  \/ Lose
  \/ CancelDue

Spec == Init /\ [][Next]_vars

\* Threads run, and every wait has a timeout of its own.  Nothing is assumed of
\* the box or of the line.
Fairness ==
  /\ \A c \in Callers : WF_vars(SendRequest(c)) /\ WF_vars(TakeAnswer(c))
  /\ \A c \in SyncCallers : WF_vars(Expire(c)) /\ WF_vars(CancelExpired(c))
  /\ \A c \in AsyncCallers : WF_vars(TimerElapses(c)) /\ WF_vars(SeeDisconnect(c))
  /\ WF_vars(CancelDue)

FairSpec == Spec /\ Fairness
-----------------------------------------------------------------------------
(* An answer is taken for another query's only after the u8 counter has gone
   all the way round: the answer a caller is given is to its own query, or to
   one with the same selector at least SeqSpace counter steps older, answered
   after its own caller stopped waiting (deliver, correlation.rs:68-81). *)
StaleAnswerNeedsWrap ==
  \A c \in Callers :
    call[c].reply # NoReply =>
      /\ call[c].reply.what = call[c].what
      /\ \/ call[c].reply.gen = call[c].gen
         \/ call[c].reply.turn + SeqSpace <= call[c].turn

(* A caller that has neither given up nor been answered keeps its place in the
   map, whatever cancels of older queries still run (cancel's gen_id check,
   correlation.rs:61-66), unless a registration found every SEQ awaited. *)
WaiterKeepsEntry ==
  \A c \in Callers :
    /\ call[c].st \in {"registered", "waiting"}
    /\ call[c].reply = NoReply
    /\ ~overrun
    /\ ~call[c].timer
    => /\ pending[call[c].seq] # NoEntry
       /\ pending[call[c].seq].gen = call[c].gen

(* No query goes out under the hello's SEQ, so neither a query nor its answer
   can be taken for the box's hello (register, correlation.rs:27-28, 46-48;
   the reader routes SEQ 0 to restart detection, reader.rs:121-123). *)
NoQueryUnderHelloSeq ==
  /\ pending[HelloSeq] = NoEntry
  /\ \A i \in DOMAIN line : line[i].seq # HelloSeq

(* A thread's query leaves nothing behind: whatever it comes to, its entry in
   the map has its caller listening (recv_query, correlation.rs:196-198, and the
   failed write, 127-130).  Only a future that was dropped can leave an entry. *)
NoOrphanEntry ==
  \A s \in Seqs : pending[s] # NoEntry /\ pending[s].tx \in SyncCallers =>
    /\ call[pending[s].tx].gen = pending[s].gen
    /\ call[pending[s].tx].st \in Listening

(* Whatever the box and the line do, a query ends: with an answer, an error or
   a timeout (recv_query, correlation.rs:177-209; recv_query_async, 254-279). *)
EveryQueryEnds ==
  \A c \in Callers : (call[c].st \in Listening) ~> (call[c].st \in Ended)
=============================================================================
