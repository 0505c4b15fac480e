------------------------- MODULE CorrelationProofs -------------------------
(***************************************************************************)
(* Query correlation for any callers, selectors and SEQ space: the type    *)
(* invariant, and the safety invariants the runs of MCCorrelation check,   *)
(* from one inductive invariant.                                           *)
(***************************************************************************)
EXTENDS Correlation, TLAPS

(* Two numbers that wrap to the same byte are a whole turn apart. *)
LEMMA DivMod ==
  ASSUME NEW N \in Nat \ {0}, NEW a \in Nat
  PROVE  /\ a \div N \in Nat
         /\ a % N \in 0 .. N - 1
         /\ a = N * (a \div N) + (a % N)
BY SMTT(30)

LEMMA TimesGrows ==
  ASSUME NEW N \in Nat \ {0}, NEW d \in Nat \ {0}
  PROVE  N * d >= N
BY SMTT(30)

LEMMA WholeTurn ==
  ASSUME NEW N \in Nat \ {0}, NEW a \in Nat, NEW b \in Nat,
         a % N = b % N, a < b
  PROVE  a + N <= b
<1> DEFINE q == a \div N
           r == b \div N
<1>1. q \in Nat /\ a = N * q + (a % N) /\ a % N \in Nat
  <2>1. a % N \in 0 .. N - 1 /\ q \in Nat /\ a = N * q + (a % N)
    BY DivMod, Zenon
  <2> QED BY <2>1
<1>2. r \in Nat /\ b = N * r + (a % N)
  <2>1. r \in Nat /\ b = N * r + (b % N)
    BY DivMod, Zenon
  <2> QED BY <2>1
<1> HIDE DEF q, r
<1>3. N * q \in Nat /\ N * r \in Nat /\ N * q < N * r
  BY <1>1, <1>2, SMTT(30)
<1>4. q < r
  <2>1. SUFFICES ASSUME q >= r PROVE N * q >= N * r
    BY <1>1, <1>2, <1>3
  <2>2. PICK d \in Nat : q = r + d
    BY <1>1, <1>2, <2>1
  <2>3. N * q = N * r + N * d /\ N * d \in Nat
    BY <2>2, <1>1, <1>2, SMTT(30)
  <2> QED BY <2>3, <1>3
<1>5. PICK d \in Nat \ {0} : r = q + d
  <2>1. r - q \in Nat \ {0} /\ r = q + (r - q)
    BY <1>1, <1>2, <1>4
  <2> QED BY <2>1
<1>6. N * r = N * q + N * d /\ N * d >= N
  BY <1>1, <1>2, <1>5, TimesGrows, SMTT(30)
<1> QED BY <1>1, <1>2, <1>3, <1>6

(* What a frame lost from the line leaves: the others, in order. *)
LEMMA RemoveAtFacts ==
  ASSUME NEW S, NEW q \in Seq(S), NEW i \in DOMAIN q
  PROVE  /\ RemoveAt(q, i) \in Seq(S)
         /\ \A j \in DOMAIN RemoveAt(q, i) : \E k \in DOMAIN q : RemoveAt(q, i)[j] = q[k]
<1> DEFINE a == SubSeq(q, 1, i - 1)
           b == SubSeq(q, i + 1, Len(q))
<1>1. i \in 1 .. Len(q) /\ Len(q) \in Nat
  OBVIOUS
<1>2. a \in Seq(S) /\ Len(a) = i - 1 /\ \A j \in 1 .. i - 1 : a[j] = q[j]
  BY <1>1
<1>3. b \in Seq(S) /\ Len(b) = Len(q) - i /\ \A j \in 1 .. Len(q) - i : b[j] = q[j + i]
  BY <1>1
<1>4. RemoveAt(q, i) = a \o b
  BY DEF RemoveAt
<1> HIDE DEF a, b
<1> DEFINE r == a \o b
<1>5. r \in Seq(S) /\ Len(r) = Len(q) - 1
  BY <1>1, <1>2, <1>3
<1>6. \A j \in 1 .. Len(q) - 1 : /\ j < i => r[j] = q[j]
                                 /\ j >= i => r[j] = q[j + 1]
  BY <1>1, <1>2, <1>3
<1>7. DOMAIN r = 1 .. Len(q) - 1 /\ DOMAIN q = 1 .. Len(q)
  BY <1>1, <1>5
<1> HIDE DEF r
<1>8. ASSUME NEW j \in 1 .. Len(q) - 1
      PROVE  \E k \in 1 .. Len(q) : r[j] = q[k]
  <2>1. j \in 1 .. Len(q) /\ j + 1 \in 1 .. Len(q) /\ (j < i \/ j >= i)
    BY <1>1
  <2>2. r[j] = q[j] \/ r[j] = q[j + 1]
    BY <1>6, <2>1
  <2> QED BY <2>1, <2>2
<1> QED BY <1>4, <1>5, <1>7, <1>8 DEF r

-----------------------------------------------------------------------------
(* The SEQ a registration takes is a byte other than the hello's. *)
LEMMA SkipFacts ==
  ASSUME TypeOK, NEW k \in 0 .. SeqSpace + 1, IsSkip(k)
  PROVE  SeqAt(k) \in Seqs /\ SeqAt(k) # HelloSeq
<1>1. turn \in Nat /\ turn + k \in Nat /\ SeqSpace \in Nat \ {0, 1}
  BY SeqSpaceAssumption DEF TypeOK
<1>2. SeqAt(k) \in Seqs
  BY <1>1, DivMod DEF SeqAt, Seqs
<1>3. CASE k \in Seqs /\ FreeAt(k)
  BY <1>2, <1>3 DEF FreeAt
<1>4. CASE k = IF SeqAt(SeqSpace) = HelloSeq THEN SeqSpace + 1 ELSE SeqSpace
  <2>1. CASE SeqAt(SeqSpace) # HelloSeq
    BY <1>2, <1>4, <2>1
  <2>2. CASE SeqAt(SeqSpace) = HelloSeq
    <3>1. SUFFICES ASSUME SeqAt(k) = HelloSeq PROVE FALSE
      BY <1>2
    <3>2. turn + SeqSpace \in Nat /\ turn + SeqSpace < turn + k
          /\ (turn + SeqSpace) % SeqSpace = (turn + k) % SeqSpace
      BY <1>1, <1>4, <2>2, <3>1 DEF SeqAt
    <3>3. (turn + SeqSpace) + SeqSpace <= turn + k
      BY <1>1, <3>2, WholeTurn
    <3> QED BY <1>1, <1>4, <2>2, <3>3 DEF TypeOK
  <2> QED BY <2>1, <2>2
<1> QED BY <1>3, <1>4 DEF IsSkip

LEMMA TypeInit == Init => TypeOK
BY SeqSpaceAssumption DEF Init, TypeOK, Seqs, Callers, Call, Entry, Frame, Listening, Ended

LEMMA StType ==
  ASSUME call \in [Callers -> Call], NEW c \in Callers, NEW st \in Listening \cup Ended,
         call' = [call EXCEPT ![c].st = st]
  PROVE  call' \in [Callers -> Call]
<1> DEFINE x == [call[c] EXCEPT !.st = st]
<1>1. x \in Call
  BY DEF Call
<1>2. call' = [call EXCEPT ![c] = x]
  OBVIOUS
<1> HIDE DEF x
<1> QED BY <1>1, <1>2

LEMMA CancelType ==
  ASSUME pending \in [Seqs -> Entry \cup {NoEntry}], NEW s, NEW g
  PROVE  Cancelled(s, g) \in [Seqs -> Entry \cup {NoEntry}]
BY DEF Cancelled

LEMMA TypeStep == TypeOK /\ [Next]_vars => TypeOK'
<1> USE DEF Callers, Call, Entry, Frame, Listening, Ended
<1> SUFFICES ASSUME TypeOK, [Next]_vars PROVE TypeOK'
  OBVIOUS
<1> USE DEF TypeOK
<1>0. CASE UNCHANGED vars
  BY <1>0 DEF vars
<1>1. ASSUME NEW c \in Callers, NEW w \in Selectors, Register(c, w)
      PROVE  TypeOK'
  <2>1. PICK k \in 0 .. SeqSpace + 1 :
          /\ IsSkip(k)
          /\ turn' = turn + k + 1
          /\ pending' = [pending EXCEPT ![SeqAt(k)] =
                          [gen |-> gen, what |-> w, tx |-> c, turn |-> turn + k]]
          /\ overrun' = (overrun \/ pending[SeqAt(k)] # NoEntry)
          /\ call' = [call EXCEPT ![c] =
                       [st |-> "registered", gen |-> gen, seq |-> SeqAt(k),
                        what |-> w, turn |-> turn + k, reply |-> NoReply,
                        timer |-> FALSE]]
    BY <1>1 DEF Register
  <2>2. SeqAt(k) \in Seqs /\ turn + k \in Nat
    BY <2>1, SkipFacts, SeqSpaceAssumption
  <2>3. [gen |-> gen, what |-> w, tx |-> c, turn |-> turn + k] \in Entry
    BY <2>2
  <2>4. [st |-> "registered", gen |-> gen, seq |-> SeqAt(k), what |-> w,
         turn |-> turn + k, reply |-> NoReply, timer |-> FALSE] \in Call
    BY <2>2
  <2>5. pending' \in [Seqs -> Entry \cup {NoEntry}]
    BY <2>1, <2>3
  <2>6. call' \in [Callers -> Call]
    BY <2>1, <2>4
  <2>7. overrun' \in BOOLEAN
    BY <2>1
  <2> QED BY <1>1, <2>1, <2>2, <2>5, <2>6, <2>7 DEF Register
<1>2. ASSUME NEW c \in Callers, SendRequest(c) PROVE TypeOK'
  <2>1. [gen |-> call[c].gen, seq |-> call[c].seq, what |-> call[c].what,
         turn |-> call[c].turn] \in Frame
    OBVIOUS
  <2>2. line' \in Seq(Frame)
    BY <1>2, <2>1 DEF SendRequest
  <2>3. call' \in [Callers -> Call]
    BY <1>2, StType DEF SendRequest
  <2> QED BY <1>2, <2>2, <2>3 DEF SendRequest
<1>3. ASSUME NEW c \in Callers, SendFails(c) PROVE TypeOK'
  <2>1. call' \in [Callers -> Call]
    BY <1>3, StType DEF SendFails
  <2>2. pending' \in [Seqs -> Entry \cup {NoEntry}]
    BY <1>3, CancelType DEF SendFails
  <2> QED BY <1>3, <2>1, <2>2 DEF SendFails
<1>4. ASSUME NEW c \in Callers, TakeAnswer(c) PROVE TypeOK'
  <2>1. call' \in [Callers -> Call]
    BY <1>4, StType DEF TakeAnswer
  <2> QED BY <1>4, <2>1 DEF TakeAnswer
<1>5. ASSUME NEW c \in Callers, Expire(c) PROVE TypeOK'
  <2>1. call' \in [Callers -> Call]
    BY <1>5, StType DEF Expire
  <2> QED BY <1>5, <2>1 DEF Expire
<1>6. ASSUME NEW c \in Callers, CancelExpired(c) PROVE TypeOK'
  <2>1. call' \in [Callers -> Call]
    BY <1>6, StType DEF CancelExpired
  <2>2. pending' \in [Seqs -> Entry \cup {NoEntry}]
    BY <1>6, CancelType DEF CancelExpired
  <2> QED BY <1>6, <2>1, <2>2 DEF CancelExpired
<1>7. ASSUME NEW c \in Callers, TimerElapses(c) PROVE TypeOK'
  <2>1. [seq |-> call[c].seq, gen |-> call[c].gen] \in [seq : Seqs, gen : Nat]
    OBVIOUS
  <2>2. due' \in SUBSET [seq : Seqs, gen : Nat]
    BY <1>7, <2>1 DEF TimerElapses
  <2>3. call' \in [Callers -> Call]
    <3> DEFINE x == [call[c] EXCEPT !.timer = TRUE]
    <3>0. call[c] \in Call
      OBVIOUS
    <3>1. x \in Call
      BY ONLY <3>0 DEF Call
    <3>2. call' = [call EXCEPT ![c] = x]
      BY <1>7 DEF TimerElapses
    <3> HIDE DEF x, Call
    <3> QED BY <3>1, <3>2
  <2> QED BY <1>7, <2>2, <2>3 DEF TimerElapses
<1>8. ASSUME NEW c \in Callers, SeeDisconnect(c) PROVE TypeOK'
  <2>1. call' \in [Callers -> Call]
    BY <1>8, StType DEF SeeDisconnect
  <2> QED BY <1>8, <2>1 DEF SeeDisconnect
<1>9. ASSUME NEW c \in Callers, DropFuture(c) PROVE TypeOK'
  <2>1. call' \in [Callers -> Call]
    BY <1>9, StType DEF DropFuture
  <2> QED BY <1>9, <2>1 DEF DropFuture
<1>10. CASE SendCommand
  BY <1>10 DEF SendCommand
<1>11. CASE Deliver
  <2>1. Head(line) \in Frame /\ Tail(line) \in Seq(Frame)
    <3>1. line \in Seq(Frame) /\ line # <<>>
      BY <1>11 DEF Deliver
    <3> HIDE DEF Frame
    <3> QED BY <3>1
  <2>2. pending' \in [Seqs -> Entry \cup {NoEntry}]
    BY <1>11 DEF Deliver
  <2>3. call' \in [Callers -> Call]
    <3>1. \A e \in Entry, m \in Frame : [call EXCEPT ![e.tx].reply = m] \in [Callers -> Call]
      <4>1. ASSUME NEW e \in Entry, NEW m \in Frame
            PROVE  [call EXCEPT ![e.tx].reply = m] \in [Callers -> Call]
        <5>1. e.tx \in Callers /\ call[e.tx] \in Call
          OBVIOUS
        <5>2. [call[e.tx] EXCEPT !.reply = m] \in Call
          BY <5>1
        <5> HIDE DEF Call
        <5> QED BY <5>1, <5>2
      <4> QED BY <4>1
    <3>2. Matches(Head(line)) => pending[Head(line).seq] \in Entry
      BY <2>1 DEF Matches
    <3> HIDE DEF Entry, Frame
    <3>3. Matches(Head(line)) => Answers(Head(line)) \in [Callers -> Call]
      BY <2>1, <3>1, <3>2 DEF Answers
    <3> QED BY <1>11, <3>3 DEF Deliver
  <2> QED BY <1>11, <2>1, <2>2, <2>3 DEF Deliver
<1>12. CASE Lose
  BY <1>12, RemoveAtFacts DEF Lose
<1>13. CASE CancelDue
  <2>1. pending' \in [Seqs -> Entry \cup {NoEntry}]
    BY <1>13, CancelType DEF CancelDue
  <2> QED BY <1>13, <2>1 DEF CancelDue
<1> QED BY <1>0, <1>1, <1>2, <1>3, <1>4, <1>5, <1>6, <1>7, <1>8, <1>9, <1>10,
           <1>11, <1>12, <1>13 DEF Next

(* Every caller, entry, answer and counter has its type (register, deliver and
   cancel, correlation.rs:28-81). *)
THEOREM TypeCorrect == Spec => []TypeOK
BY TypeInit, TypeStep, PTL DEF Spec

-----------------------------------------------------------------------------
(* The inductive invariant.  A query, an entry and a frame on the line all   *)
(* carry the turn and the gen of their registration.                         *)

\* A registration of the past, under the SEQ its turn wraps to.
Owned(q) ==
  /\ q.turn < turn
  /\ q.gen < gen
  /\ q.seq = q.turn % SeqSpace
  /\ q.seq # HelloSeq

EntriesFit ==
  \A s \in Seqs : pending[s] # NoEntry =>
    /\ pending[s].turn < turn
    /\ pending[s].gen < gen
    /\ s = pending[s].turn % SeqSpace
    /\ s # HelloSeq

CallsFit == \A c \in Callers : call[c].st # "idle" => Owned(call[c])

LineFits == \A i \in DOMAIN line : Owned(line[i])

\* The entry under a SEQ is of the last query registered there.
NotAhead(q) ==
  pending[q.seq] # NoEntry =>
    /\ q.turn <= pending[q.seq].turn
    /\ q.turn = pending[q.seq].turn => q.gen = pending[q.seq].gen

LineNotAhead == \A i \in DOMAIN line : NotAhead(line[i])

CallsNotAhead == \A c \in Callers : call[c].st = "registered" => NotAhead(call[c])

\* An entry and a call of one gen are of one query.
EntryIsCallers ==
  \A s \in Seqs, c \in Callers :
    pending[s] # NoEntry /\ call[c].st # "idle" /\ pending[s].gen = call[c].gen =>
      /\ pending[s].tx = c
      /\ pending[s].what = call[c].what
      /\ pending[s].turn = call[c].turn
      /\ s = call[c].seq

CallsDiffer ==
  \A c, d \in Callers :
    call[c].st # "idle" /\ call[d].st # "idle" /\ call[c].gen = call[d].gen => c = d

\* A helper's cancel is of a query whose timer has elapsed.
DueIsElapsed ==
  \A d \in due :
    /\ d.gen < gen
    /\ \A c \in Callers : call[c].st # "idle" /\ call[c].gen = d.gen => call[c].timer

\* An answer takes the entry with it.
AnsweredLeft ==
  \A s \in Seqs, c \in Callers :
    pending[s] # NoEntry /\ call[c].st # "idle" /\ call[c].reply # NoReply =>
      pending[s].gen # call[c].gen

IInv ==
  /\ TypeOK
  /\ EntriesFit
  /\ CallsFit
  /\ LineFits
  /\ LineNotAhead
  /\ CallsNotAhead
  /\ EntryIsCallers
  /\ CallsDiffer
  /\ DueIsElapsed
  /\ AnsweredLeft
  /\ StaleAnswerNeedsWrap
  /\ WaiterKeepsEntry
  /\ NoOrphanEntry

\* What each conjunct says of the types it reads.
LEMMA TypeFacts ==
  ASSUME TypeOK
  PROVE  /\ turn \in Nat /\ gen \in Nat /\ SeqSpace \in Nat \ {0, 1}
         /\ \A s \in Seqs : pending[s] # NoEntry =>
              /\ pending[s] \in Entry
              /\ pending[s].turn \in Nat /\ pending[s].gen \in Nat
              /\ pending[s].tx \in Callers
         /\ \A c \in Callers : /\ call[c] \in Call
                                /\ call[c].turn \in Nat /\ call[c].gen \in Nat
                                /\ call[c].seq \in Seqs
         /\ \A i \in DOMAIN line : /\ line[i] \in Frame /\ line[i] # NoReply
                                   /\ line[i].turn \in Nat /\ line[i].gen \in Nat
                                   /\ line[i].seq \in Seqs
<1>1. turn \in Nat /\ gen \in Nat /\ SeqSpace \in Nat \ {0, 1}
  BY SeqSpaceAssumption DEF TypeOK
<1>2. ASSUME NEW s \in Seqs, pending[s] # NoEntry
      PROVE  /\ pending[s] \in Entry
             /\ pending[s].turn \in Nat /\ pending[s].gen \in Nat
             /\ pending[s].tx \in Callers
  <2>1. pending[s] \in Entry
    BY <1>2 DEF TypeOK
  <2> QED BY <2>1 DEF Entry
<1>3. ASSUME NEW c \in Callers
      PROVE  /\ call[c] \in Call
             /\ call[c].turn \in Nat /\ call[c].gen \in Nat
             /\ call[c].seq \in Seqs
  <2>1. call[c] \in Call
    BY DEF TypeOK
  <2> QED BY <2>1 DEF Call
<1>4. ASSUME NEW i \in DOMAIN line
      PROVE  /\ line[i] \in Frame /\ line[i] # NoReply
             /\ line[i].turn \in Nat /\ line[i].gen \in Nat
             /\ line[i].seq \in Seqs
  <2>1. line[i] \in Frame
    BY DEF TypeOK
  <2> QED BY <2>1, NoneAssumption DEF Frame
<1> QED BY <1>1, <1>2, <1>3, <1>4

\* A step after which each call is what it was, but for its status, its timer
\* and its reply.
CallsKept ==
  \A c \in Callers :
    /\ call'[c].gen = call[c].gen /\ call'[c].seq = call[c].seq
    /\ call'[c].turn = call[c].turn /\ call'[c].what = call[c].what
    /\ call'[c].st = "idle" <=> call[c].st = "idle"
    /\ call'[c].st = "registered" => call[c].st = "registered"

\* A step after which the map holds nothing new.
EntriesLeft == \A s \in Seqs : pending'[s] \in {pending[s], NoEntry}

LEMMA NothingRegistered ==
  ASSUME IInv, turn' \in Nat, turn <= turn', gen' = gen, CallsKept, EntriesLeft,
         \A i \in DOMAIN line' :
           \/ \E j \in DOMAIN line : line'[i] = line[j]
           \/ \E c \in Callers :
                /\ call[c].st = "registered"
                /\ line'[i] = [gen |-> call[c].gen, seq |-> call[c].seq,
                               what |-> call[c].what, turn |-> call[c].turn]
  PROVE  /\ EntriesFit' /\ CallsFit' /\ LineFits'
         /\ LineNotAhead' /\ CallsNotAhead' /\ EntryIsCallers' /\ CallsDiffer'
<1>1. TypeOK
  BY DEF IInv
<1>2. EntriesFit'
  BY <1>1, TypeFacts DEF IInv, EntriesFit, EntriesLeft
<1>3. CallsFit'
  BY <1>1, TypeFacts DEF IInv, CallsFit, CallsKept, Owned
<1>4. LineFits'
  BY <1>1, TypeFacts DEF IInv, LineFits, CallsFit, Owned
<1>5. LineNotAhead'
  BY <1>1, TypeFacts DEF IInv, LineNotAhead, CallsNotAhead, NotAhead, EntriesLeft
<1>6. CallsNotAhead'
  BY <1>1, TypeFacts DEF IInv, CallsNotAhead, NotAhead, EntriesLeft, CallsKept
<1>7. EntryIsCallers'
  BY <1>1, TypeFacts DEF IInv, EntryIsCallers, EntriesLeft, CallsKept
<1>8. CallsDiffer'
  BY DEF IInv, CallsDiffer, CallsKept
<1> QED BY <1>2, <1>3, <1>4, <1>5, <1>6, <1>7, <1>8

-----------------------------------------------------------------------------
(* The steps that register nothing.  The first group leaves the map alone and *)
(* moves one call on.                                                         *)
RepliesKept ==
  \A c \in Callers : call'[c].reply = call[c].reply /\ call'[c].timer = call[c].timer

Moved(c, v) ==
  /\ call' = [call EXCEPT ![c].st = v]
  /\ call[c].st # "idle"
  /\ v \notin {"idle", "registered"}

LEMMA MoveOn ==
  ASSUME IInv, NEW c \in Callers, NEW v, Moved(c, v)
  PROVE  /\ CallsKept
         /\ RepliesKept
         /\ \A d \in Callers : d # c => call'[d] = call[d]
         /\ call'[c].st = v
<1> USE DEF Moved
<1>1. call \in [Callers -> Call]
  BY DEF IInv, TypeOK
<1>2. \A d \in Callers : call[d] \in Call
  BY <1>1
<1>3. \A d \in Callers : call'[d] = IF d = c THEN [call[c] EXCEPT !.st = v] ELSE call[d]
  BY <1>1
<1>4. /\ call'[c].gen = call[c].gen /\ call'[c].seq = call[c].seq
      /\ call'[c].turn = call[c].turn /\ call'[c].what = call[c].what
      /\ call'[c].reply = call[c].reply /\ call'[c].timer = call[c].timer
      /\ call'[c].st = v
  BY <1>2, <1>3 DEF Call
<1> QED BY <1>3, <1>4 DEF CallsKept, RepliesKept

(* A call that moves on without its entry changing keeps the rest of the      *)
(* invariant, but for what depends on where it moved to.                      *)
LEMMA MovedOn ==
  ASSUME IInv, NEW c \in Callers, NEW v, Moved(c, v),
         gen' = gen, pending' = pending, due' = due
  PROVE  DueIsElapsed' /\ AnsweredLeft' /\ StaleAnswerNeedsWrap'
<1>1. CallsKept /\ RepliesKept
  BY MoveOn
<1>2. DueIsElapsed'
  BY <1>1 DEF IInv, DueIsElapsed, CallsKept, RepliesKept
<1>3. AnsweredLeft'
  BY <1>1 DEF IInv, AnsweredLeft, CallsKept, RepliesKept
<1>4. StaleAnswerNeedsWrap'
  BY <1>1 DEF IInv, StaleAnswerNeedsWrap, CallsKept, RepliesKept
<1> QED BY <1>2, <1>3, <1>4

LEMMA SendRequestStep ==
  ASSUME IInv, TypeOK', NEW c \in Callers, SendRequest(c)
  PROVE  IInv'
<1>1. Moved(c, "waiting") /\ pending' = pending /\ gen' = gen /\ turn' = turn
      /\ due' = due /\ overrun' = overrun
  BY DEF SendRequest, Moved
<1>2. CallsKept /\ RepliesKept /\ call'[c].st = "waiting"
      /\ \A d \in Callers : d # c => call'[d] = call[d]
  BY <1>1, MoveOn
<1>3. DueIsElapsed' /\ AnsweredLeft' /\ StaleAnswerNeedsWrap'
  BY <1>1, MovedOn
<1>4. ASSUME NEW i \in DOMAIN line'
      PROVE  \/ \E j \in DOMAIN line : line'[i] = line[j]
             \/ \E d \in Callers :
                  /\ call[d].st = "registered"
                  /\ line'[i] = [gen |-> call[d].gen, seq |-> call[d].seq,
                                 what |-> call[d].what, turn |-> call[d].turn]
  <2> DEFINE m == [gen |-> call[c].gen, seq |-> call[c].seq,
                   what |-> call[c].what, turn |-> call[c].turn]
  <2>1. call[c].st = "registered" /\ line' = Append(line, m)
    BY DEF SendRequest
  <2>2. line \in Seq(Frame) /\ line' \in Seq(Frame)
    BY DEF IInv, TypeOK
  <2> HIDE DEF m
  <2>3. line'[i] = m \/ (i \in DOMAIN line /\ line'[i] = line[i])
    BY <1>4, <2>1, <2>2
  <2> QED BY <2>1, <2>3 DEF m
<1>5. EntriesLeft /\ turn' \in Nat /\ turn <= turn'
  BY <1>1 DEF EntriesLeft, IInv, TypeOK
<1>6. /\ EntriesFit' /\ CallsFit' /\ LineFits'
      /\ LineNotAhead' /\ CallsNotAhead' /\ EntryIsCallers' /\ CallsDiffer'
  BY <1>1, <1>2, <1>4, <1>5, NothingRegistered
<1>7. WaiterKeepsEntry'
  BY <1>1, <1>2 DEF IInv, WaiterKeepsEntry, CallsKept, RepliesKept, SendRequest
<1>8. NoOrphanEntry'
  BY <1>1, <1>2, TypeFacts DEF IInv, NoOrphanEntry, CallsKept, Listening
<1> QED BY <1>3, <1>6, <1>7, <1>8 DEF IInv

(* A call that ends, or is about to, with its entry out of its hands.         *)
LEMMA EndedStep ==
  ASSUME IInv, TypeOK', NEW c \in Callers, NEW v, Moved(c, v),
         v \notin {"registered", "waiting"},
         pending' = pending, gen' = gen, turn' = turn, due' = due, line' = line,
         overrun' = overrun,
         \/ v \in Listening
         \/ c \notin SyncCallers
         \/ call[c].reply # NoReply
  PROVE  IInv'
<1>1. /\ CallsKept /\ RepliesKept /\ call'[c].st = v
      /\ \A d \in Callers : d # c => call'[d] = call[d]
  BY MoveOn
<1>2. DueIsElapsed' /\ AnsweredLeft' /\ StaleAnswerNeedsWrap'
  BY MovedOn
<1>3. EntriesLeft /\ turn' \in Nat /\ turn <= turn'
  BY DEF EntriesLeft, IInv, TypeOK
<1>4. /\ EntriesFit' /\ CallsFit' /\ LineFits'
      /\ LineNotAhead' /\ CallsNotAhead' /\ EntryIsCallers' /\ CallsDiffer'
  BY <1>1, <1>3, NothingRegistered
<1>5. WaiterKeepsEntry'
  BY <1>1 DEF IInv, WaiterKeepsEntry
<1>6. NoOrphanEntry'
  <2> SUFFICES ASSUME NEW s \in Seqs, pending[s] # NoEntry, pending[s].tx \in SyncCallers
               PROVE  /\ call'[pending[s].tx].gen = pending[s].gen
                      /\ call'[pending[s].tx].st \in Listening
    BY DEF NoOrphanEntry
  <2>1. /\ pending[s].tx \in Callers
        /\ call[pending[s].tx].gen = pending[s].gen
        /\ call[pending[s].tx].st \in Listening
    BY DEF IInv, NoOrphanEntry, Callers
  <2>2. CASE pending[s].tx # c
    BY <1>1, <2>1, <2>2
  <2>3. CASE pending[s].tx = c
    <3>1. call[c].st # "idle"
      BY <2>1, <2>3 DEF Listening
    <3>2. call[c].reply = NoReply
      BY <2>1, <2>3, <3>1 DEF IInv, AnsweredLeft
    <3> QED BY <1>1, <2>1, <2>3, <3>2 DEF CallsKept
  <2> QED BY <2>2, <2>3
<1> QED BY <1>2, <1>4, <1>5, <1>6 DEF IInv

(* A call that ends by giving its own entry back.                             *)
LEMMA GivesBackStep ==
  ASSUME IInv, TypeOK', NEW c \in Callers, NEW v, Moved(c, v), v \in Ended,
         pending' = Cancelled(call[c].seq, call[c].gen),
         gen' = gen, turn' = turn, due' = due, line' = line, overrun' = overrun
  PROVE  IInv'
<1>1. /\ CallsKept /\ RepliesKept /\ call'[c].st = v
      /\ \A d \in Callers : d # c => call'[d] = call[d]
  BY MoveOn
<1>2. \A s \in Seqs :
        pending'[s] = IF s = call[c].seq /\ pending[s] # NoEntry /\ pending[s].gen = call[c].gen
                      THEN NoEntry ELSE pending[s]
  BY DEF Cancelled, IInv, TypeOK
<1>3. EntriesLeft /\ turn' \in Nat /\ turn <= turn'
  BY <1>2 DEF EntriesLeft, IInv, TypeOK
<1>4. /\ EntriesFit' /\ CallsFit' /\ LineFits'
      /\ LineNotAhead' /\ CallsNotAhead' /\ EntryIsCallers' /\ CallsDiffer'
  BY <1>1, <1>3, NothingRegistered
<1>5. DueIsElapsed'
  BY <1>1 DEF IInv, DueIsElapsed, CallsKept, RepliesKept
<1>6. AnsweredLeft'
  BY <1>1, <1>3 DEF IInv, AnsweredLeft, CallsKept, RepliesKept, EntriesLeft
<1>7. StaleAnswerNeedsWrap'
  BY <1>1 DEF IInv, StaleAnswerNeedsWrap, CallsKept, RepliesKept
<1>8. \A s \in Seqs : pending[s] # NoEntry /\ pending[s].gen = call[c].gen =>
        pending[s].tx = c /\ s = call[c].seq
  BY DEF IInv, EntryIsCallers, Moved
<1>9. WaiterKeepsEntry'
  <2> SUFFICES ASSUME NEW d \in Callers, call'[d].st \in {"registered", "waiting"},
                      call'[d].reply = NoReply, ~overrun, ~call'[d].timer
               PROVE  /\ pending'[call'[d].seq] # NoEntry
                      /\ pending'[call'[d].seq].gen = call'[d].gen
    BY DEF WaiterKeepsEntry
  <2>1. d # c /\ call'[d] = call[d]
    BY <1>1 DEF Ended
  <2>2. call[d].seq \in Seqs /\ pending[call[d].seq] # NoEntry
        /\ pending[call[d].seq].gen = call[d].gen
    BY <2>1, TypeFacts DEF IInv, WaiterKeepsEntry
  <2>3. pending[call[d].seq].tx = d
    BY <2>1, <2>2 DEF IInv, EntryIsCallers
  <2> QED BY <1>2, <1>8, <2>1, <2>2, <2>3
<1>10. NoOrphanEntry'
  <2> SUFFICES ASSUME NEW s \in Seqs, pending'[s] # NoEntry, pending'[s].tx \in SyncCallers
               PROVE  /\ call'[pending'[s].tx].gen = pending'[s].gen
                      /\ call'[pending'[s].tx].st \in Listening
    BY DEF NoOrphanEntry
  <2>1. pending'[s] = pending[s]
    BY <1>2
  <2>2. /\ pending[s].tx \in Callers
        /\ call[pending[s].tx].gen = pending[s].gen
        /\ call[pending[s].tx].st \in Listening
    BY <2>1 DEF IInv, NoOrphanEntry, Callers
  <2>3. pending[s].tx # c
    BY <1>2, <1>8, <2>1, <2>2
  <2> QED BY <1>1, <2>1, <2>2, <2>3
<1> QED BY <1>4, <1>5, <1>6, <1>7, <1>9, <1>10 DEF IInv

LEMMA TimerElapsesStep ==
  ASSUME IInv, TypeOK', NEW c \in Callers, TimerElapses(c)
  PROVE  IInv'
<1>1. /\ \A d \in Callers : d # c => call'[d] = call[d]
      /\ call'[c].gen = call[c].gen /\ call'[c].seq = call[c].seq
      /\ call'[c].turn = call[c].turn /\ call'[c].what = call[c].what
      /\ call'[c].reply = call[c].reply /\ call'[c].st = call[c].st
      /\ call'[c].timer = TRUE
  <2>1. call[c] \in Call /\ call' = [call EXCEPT ![c].timer = TRUE] /\ call \in [Callers -> Call]
    BY TypeFacts DEF TimerElapses, IInv, TypeOK
  <2>2. call'[c] = [call[c] EXCEPT !.timer = TRUE]
    BY <2>1
  <2> QED BY <2>1, <2>2 DEF Call
<1>2. CallsKept
  BY <1>1 DEF CallsKept
<1>3. /\ EntriesLeft /\ turn' \in Nat /\ turn <= turn'
      /\ gen' = gen /\ line' = line /\ pending' = pending /\ overrun' = overrun
  BY DEF TimerElapses, EntriesLeft, IInv, TypeOK
<1>4. /\ EntriesFit' /\ CallsFit' /\ LineFits'
      /\ LineNotAhead' /\ CallsNotAhead' /\ EntryIsCallers' /\ CallsDiffer'
  BY <1>2, <1>3, NothingRegistered
<1>5. DueIsElapsed'
  <2> DEFINE e == [seq |-> call[c].seq, gen |-> call[c].gen]
  <2>1. due' = due \cup {e} /\ call[c].st # "idle"
    BY DEF TimerElapses
  <2>2. e.gen = call[c].gen /\ e.gen < gen
    BY <2>1 DEF IInv, CallsFit, Owned
  <2> HIDE DEF e
  <2>3. ASSUME NEW d \in due', NEW x \in Callers, call'[x].st # "idle", call'[x].gen = d.gen
        PROVE  call'[x].timer
    <3>1. CASE x = c
      BY <1>1, <3>1
    <3>2. CASE x # c /\ d \in due
      BY <1>1, <2>3, <3>2 DEF IInv, DueIsElapsed
    <3>3. CASE x # c /\ d = e
      BY <1>1, <2>1, <2>2, <2>3, <3>3 DEF IInv, CallsDiffer
    <3> QED BY <2>1, <3>1, <3>2, <3>3
  <2>4. \A d \in due' : d.gen < gen'
    BY <1>3, <2>1, <2>2 DEF IInv, DueIsElapsed
  <2> QED BY <2>3, <2>4 DEF DueIsElapsed
<1>6. AnsweredLeft'
  BY <1>1, <1>3 DEF IInv, AnsweredLeft
<1>7. StaleAnswerNeedsWrap'
  BY <1>1 DEF IInv, StaleAnswerNeedsWrap
<1>8. WaiterKeepsEntry'
  BY <1>1, <1>3 DEF IInv, WaiterKeepsEntry
<1>9. NoOrphanEntry'
  BY <1>1, <1>3, TypeFacts DEF IInv, NoOrphanEntry
<1> QED BY <1>4, <1>5, <1>6, <1>7, <1>8, <1>9 DEF IInv

(* A step that leaves the calls, and takes at most a frame off the line.      *)
LEMMA CallsAloneStep ==
  ASSUME IInv, TypeOK', call' = call, pending' = pending, gen' = gen, due' = due,
         overrun' = overrun, turn <= turn',
         \A i \in DOMAIN line' : \E j \in DOMAIN line : line'[i] = line[j]
  PROVE  IInv'
<1>1. CallsKept /\ EntriesLeft /\ turn' \in Nat
  BY DEF CallsKept, EntriesLeft, TypeOK
<1>2. /\ EntriesFit' /\ CallsFit' /\ LineFits'
      /\ LineNotAhead' /\ CallsNotAhead' /\ EntryIsCallers' /\ CallsDiffer'
  BY <1>1, NothingRegistered
<1>3. DueIsElapsed' /\ AnsweredLeft'
  BY DEF IInv, DueIsElapsed, AnsweredLeft
<1>4. StaleAnswerNeedsWrap' /\ WaiterKeepsEntry' /\ NoOrphanEntry'
  BY DEF IInv, StaleAnswerNeedsWrap, WaiterKeepsEntry, NoOrphanEntry
<1> QED BY <1>2, <1>3, <1>4 DEF IInv

LEMMA CancelDueStep ==
  ASSUME IInv, TypeOK', CancelDue
  PROVE  IInv'
<1>1. PICK d \in due : pending' = Cancelled(d.seq, d.gen) /\ due' = due \ {d}
  BY DEF CancelDue
<1>2. turn' = turn /\ gen' = gen /\ call' = call /\ line' = line /\ overrun' = overrun
  BY DEF CancelDue
<1>3. \A s \in Seqs :
        pending'[s] = IF s = d.seq /\ pending[s] # NoEntry /\ pending[s].gen = d.gen
                      THEN NoEntry ELSE pending[s]
  <2>1. d.seq \in Seqs /\ pending \in [Seqs -> Entry \cup {NoEntry}]
    BY DEF IInv, TypeOK
  <2> QED BY <1>1, <2>1 DEF Cancelled
<1>4. CallsKept /\ EntriesLeft /\ turn' \in Nat /\ turn <= turn'
  BY <1>2, <1>3 DEF CallsKept, EntriesLeft, IInv, TypeOK
<1>5. /\ EntriesFit' /\ CallsFit' /\ LineFits'
      /\ LineNotAhead' /\ CallsNotAhead' /\ EntryIsCallers' /\ CallsDiffer'
  BY <1>2, <1>4, NothingRegistered
<1>6. DueIsElapsed'
  BY <1>1, <1>2 DEF IInv, DueIsElapsed
<1>7. AnsweredLeft' /\ StaleAnswerNeedsWrap'
  BY <1>2, <1>3 DEF IInv, AnsweredLeft, StaleAnswerNeedsWrap
<1>8. WaiterKeepsEntry'
  <2> SUFFICES ASSUME NEW c \in Callers, call[c].st \in {"registered", "waiting"},
                      call[c].reply = NoReply, ~overrun, ~call[c].timer
               PROVE  /\ pending'[call[c].seq] # NoEntry
                      /\ pending'[call[c].seq].gen = call[c].gen
    BY <1>2 DEF WaiterKeepsEntry
  <2>1. call[c].seq \in Seqs /\ pending[call[c].seq] # NoEntry
        /\ pending[call[c].seq].gen = call[c].gen
    BY TypeFacts DEF IInv, WaiterKeepsEntry
  <2>2. call[c].gen # d.gen
    BY DEF IInv, DueIsElapsed
  <2> QED BY <1>3, <2>1, <2>2
<1>9. NoOrphanEntry'
  BY <1>2, <1>3 DEF IInv, NoOrphanEntry
<1> QED BY <1>5, <1>6, <1>7, <1>8, <1>9 DEF IInv

(* What the reader does with an answer that matches an entry.                 *)
LEMMA DeliverMatchStep ==
  ASSUME IInv, TypeOK', Deliver, Matches(Head(line))
  PROVE  IInv'
<1> DEFINE m == Head(line)
           e == pending[m.seq]
           x == e.tx
           hit == call[x].gen = e.gen /\ call[x].st \in Listening
<1>1. TypeOK /\ line # <<>> /\ 1 \in DOMAIN line /\ m = line[1]
  <2>1. line # <<>> /\ line \in Seq(Frame)
    BY DEF Deliver, IInv, TypeOK
  <2> QED BY <2>1 DEF IInv
<1>2. /\ m \in Frame /\ m # NoReply /\ m.seq \in Seqs /\ m.turn \in Nat
      /\ e # NoEntry /\ e \in Entry /\ e.what = m.what
      /\ e.turn \in Nat /\ x \in Callers
  BY <1>1, TypeFacts DEF Matches
<1>3. /\ \A s \in Seqs : pending'[s] = IF s = m.seq THEN NoEntry ELSE pending[s]
      /\ call' = Answers(m)
      /\ line' = Tail(line) /\ turn' = turn /\ gen' = gen /\ due' = due
      /\ overrun' = overrun
  BY <1>1, <1>2 DEF Deliver, TypeOK
<1>4. \A d \in Callers :
        /\ call'[d].gen = call[d].gen /\ call'[d].seq = call[d].seq
        /\ call'[d].turn = call[d].turn /\ call'[d].what = call[d].what
        /\ call'[d].st = call[d].st /\ call'[d].timer = call[d].timer
        /\ call'[d].reply = IF d = x /\ hit THEN m ELSE call[d].reply
  <2> SUFFICES ASSUME NEW d \in Callers
               PROVE  /\ call'[d].gen = call[d].gen /\ call'[d].seq = call[d].seq
                      /\ call'[d].turn = call[d].turn /\ call'[d].what = call[d].what
                      /\ call'[d].st = call[d].st /\ call'[d].timer = call[d].timer
                      /\ call'[d].reply = IF d = x /\ hit THEN m ELSE call[d].reply
    OBVIOUS
  <2>1. call' = IF hit THEN [call EXCEPT ![x].reply = m] ELSE call
    BY <1>3 DEF Answers
  <2>2. call \in [Callers -> Call] /\ call[d] \in Call
    BY <1>1, TypeFacts DEF TypeOK
  <2> HIDE DEF m, e, x, hit
  <2>3. call'[d] = IF d = x /\ hit THEN [call[d] EXCEPT !.reply = m] ELSE call[d]
    BY <2>1, <2>2, <1>2
  <2> QED BY <2>2, <2>3 DEF Call
<1> HIDE DEF m, e, x, hit
<1>5. CallsKept /\ EntriesLeft /\ turn' \in Nat /\ turn <= turn'
  BY <1>1, <1>3, <1>4 DEF CallsKept, EntriesLeft, TypeOK
<1>6. ASSUME NEW i \in DOMAIN line' PROVE \E j \in DOMAIN line : line'[i] = line[j]
  <2>1. line \in Seq(Frame) /\ line' = Tail(line) /\ line # <<>>
    BY <1>1, <1>3 DEF TypeOK
  <2>2. i + 1 \in DOMAIN line /\ line'[i] = line[i + 1]
    BY <2>1
  <2> QED BY <2>2
<1>7. /\ EntriesFit' /\ CallsFit' /\ LineFits'
      /\ LineNotAhead' /\ CallsNotAhead' /\ EntryIsCallers' /\ CallsDiffer'
  BY <1>3, <1>5, <1>6, NothingRegistered
<1>8. DueIsElapsed'
  BY <1>3, <1>4 DEF IInv, DueIsElapsed
<1>9. hit => e.turn = call[x].turn /\ e.what = call[x].what /\ m.seq = call[x].seq
             /\ e.gen = call[x].gen
  BY <1>2 DEF hit, e, IInv, EntryIsCallers, Listening
<1>10. AnsweredLeft'
  <2> SUFFICES ASSUME NEW s \in Seqs, NEW d \in Callers,
                      pending'[s] # NoEntry, call'[d].st # "idle", call'[d].reply # NoReply,
                      pending'[s].gen = call'[d].gen
               PROVE  FALSE
    BY DEF AnsweredLeft
  <2>1. s # m.seq /\ pending'[s] = pending[s]
    BY <1>3
  <2>2. d = x /\ hit
    BY <1>4, <2>1 DEF IInv, AnsweredLeft
  <2>3. s = call[d].seq
    BY <1>4, <2>1 DEF IInv, EntryIsCallers
  <2> QED BY <1>9, <2>1, <2>2, <2>3
<1>11. hit => m.gen = call[x].gen \/ m.turn + SeqSpace <= call[x].turn
  <2>1. /\ m.turn <= e.turn
        /\ m.turn = e.turn => m.gen = e.gen
    BY <1>1, <1>2 DEF IInv, LineNotAhead, NotAhead, e
  <2>2. m.seq = m.turn % SeqSpace /\ m.seq = e.turn % SeqSpace
    BY <1>1, <1>2 DEF IInv, LineFits, Owned, EntriesFit, e
  <2>3. SeqSpace \in Nat \ {0}
    BY SeqSpaceAssumption
  <2>4. m.turn < e.turn => m.turn + SeqSpace <= e.turn
    BY <1>2, <2>2, <2>3, WholeTurn
  <2> QED BY <1>2, <1>9, <2>1, <2>4
<1>12. StaleAnswerNeedsWrap'
  <2> SUFFICES ASSUME NEW d \in Callers, call'[d].reply # NoReply
               PROVE  /\ call'[d].reply.what = call'[d].what
                      /\ \/ call'[d].reply.gen = call'[d].gen
                         \/ call'[d].reply.turn + SeqSpace <= call'[d].turn
    BY DEF StaleAnswerNeedsWrap
  <2>1. CASE d = x /\ hit
    BY <1>2, <1>4, <1>9, <1>11, <2>1
  <2>2. CASE ~(d = x /\ hit)
    BY <1>4, <2>2 DEF IInv, StaleAnswerNeedsWrap
  <2> QED BY <2>1, <2>2
<1>13. WaiterKeepsEntry'
  <2> SUFFICES ASSUME NEW d \in Callers, call'[d].st \in {"registered", "waiting"},
                      call'[d].reply = NoReply, ~overrun, ~call'[d].timer
               PROVE  /\ pending'[call'[d].seq] # NoEntry
                      /\ pending'[call'[d].seq].gen = call'[d].gen
    BY <1>3 DEF WaiterKeepsEntry
  <2>1. ~(d = x /\ hit)
    BY <1>2, <1>4
  <2>2. /\ call[d].seq \in Seqs /\ pending[call[d].seq] # NoEntry
        /\ pending[call[d].seq].gen = call[d].gen
        /\ call[d].st \in Listening
    BY <1>1, <1>4, <2>1, TypeFacts DEF IInv, WaiterKeepsEntry, Listening
  <2>3. call[d].seq # m.seq
    <3>1. SUFFICES ASSUME call[d].seq = m.seq PROVE FALSE
      OBVIOUS
    <3>2. e.tx = d /\ e.gen = call[d].gen
      BY <2>2, <3>1 DEF IInv, EntryIsCallers, e, Listening
    <3> QED BY <2>1, <2>2, <3>2 DEF hit, x
  <2> QED BY <1>3, <1>4, <2>2, <2>3
<1>14. NoOrphanEntry'
  <2> SUFFICES ASSUME NEW s \in Seqs, pending'[s] # NoEntry, pending'[s].tx \in SyncCallers
               PROVE  /\ call'[pending'[s].tx].gen = pending'[s].gen
                      /\ call'[pending'[s].tx].st \in Listening
    BY DEF NoOrphanEntry
  <2>1. pending'[s] = pending[s]
    BY <1>3
  <2>2. /\ pending[s].tx \in Callers
        /\ call[pending[s].tx].gen = pending[s].gen
        /\ call[pending[s].tx].st \in Listening
    BY <2>1 DEF IInv, NoOrphanEntry, Callers
  <2> QED BY <1>4, <2>1, <2>2
<1> QED BY <1>7, <1>8, <1>10, <1>12, <1>13, <1>14 DEF IInv

LEMMA DeliverStep ==
  ASSUME IInv, TypeOK', Deliver
  PROVE  IInv'
<1>1. CASE Matches(Head(line))
  BY <1>1, DeliverMatchStep
<1>2. CASE ~Matches(Head(line))
  <2>1. /\ call' = call /\ pending' = pending /\ gen' = gen /\ due' = due
        /\ overrun' = overrun /\ turn' = turn /\ line' = Tail(line) /\ line # <<>>
    BY <1>2 DEF Deliver
  <2>2. line \in Seq(Frame) /\ turn <= turn'
    BY <2>1 DEF IInv, TypeOK
  <2>3. ASSUME NEW i \in DOMAIN line' PROVE \E j \in DOMAIN line : line'[i] = line[j]
    <3>1. i + 1 \in DOMAIN line /\ line'[i] = line[i + 1]
      BY <2>1, <2>2
    <3> QED BY <3>1
  <2> QED BY <2>1, <2>2, <2>3, CallsAloneStep
<1> QED BY <1>1, <1>2

-----------------------------------------------------------------------------
(* A registration.  Its turn and its gen are past every other's; only the     *)
(* entry under its SEQ changes hands.                                         *)
LEMMA RegisterStep ==
  ASSUME IInv, TypeOK', NEW c \in Callers, NEW w \in Selectors, Register(c, w)
  PROVE  IInv'
<1>0. TypeOK
  BY DEF IInv
<1>1. PICK k \in 0 .. SeqSpace + 1 :
        /\ IsSkip(k)
        /\ turn' = turn + k + 1
        /\ pending' = [pending EXCEPT ![SeqAt(k)] =
                        [gen |-> gen, what |-> w, tx |-> c, turn |-> turn + k]]
        /\ overrun' = (overrun \/ pending[SeqAt(k)] # NoEntry)
        /\ call' = [call EXCEPT ![c] =
                     [st |-> "registered", gen |-> gen, seq |-> SeqAt(k),
                      what |-> w, turn |-> turn + k, reply |-> NoReply,
                      timer |-> FALSE]]
  BY DEF Register
<1> DEFINE n == SeqAt(k)
           t == turn + k
           e == [gen |-> gen, what |-> w, tx |-> c, turn |-> t]
           q == [st |-> "registered", gen |-> gen, seq |-> n, what |-> w,
                 turn |-> t, reply |-> NoReply, timer |-> FALSE]
<1>2. /\ n \in Seqs /\ n # HelloSeq /\ n = t % SeqSpace
      /\ t \in Nat /\ turn \in Nat /\ turn <= t /\ turn' = t + 1 /\ gen \in Nat /\ gen' = gen + 1
      /\ line' = line /\ due' = due /\ call[c].st \in Ended
  BY <1>0, <1>1, SkipFacts, TypeFacts DEF Register, SeqAt
<1>3. /\ e # NoEntry /\ e.gen = gen /\ e.what = w /\ e.tx = c /\ e.turn = t
      /\ q.st = "registered" /\ q.gen = gen /\ q.seq = n /\ q.what = w
      /\ q.turn = t /\ q.reply = NoReply /\ q.timer = FALSE
  <2>1. e \in Entry
    BY <1>2 DEF Entry
  <2> QED BY <2>1, NoneAssumption DEF Entry
<1>4. /\ \A s \in Seqs : pending'[s] = IF s = n THEN e ELSE pending[s]
      /\ \A d \in Callers : call'[d] = IF d = c THEN q ELSE call[d]
      /\ overrun' = (overrun \/ pending[n] # NoEntry)
  BY <1>0, <1>1 DEF TypeOK
<1> HIDE DEF n, t, e, q
<1>5. EntriesFit'
  BY <1>0, <1>2, <1>3, <1>4, TypeFacts DEF IInv, EntriesFit
<1>6. CallsFit'
  BY <1>0, <1>2, <1>3, <1>4, TypeFacts DEF IInv, CallsFit, Owned
<1>7. LineFits'
  BY <1>0, <1>2, TypeFacts DEF IInv, LineFits, Owned
<1>8. LineNotAhead'
  <2> SUFFICES ASSUME NEW i \in DOMAIN line, pending'[line[i].seq] # NoEntry
               PROVE  /\ line[i].turn <= pending'[line[i].seq].turn
                      /\ line[i].turn = pending'[line[i].seq].turn =>
                           line[i].gen = pending'[line[i].seq].gen
    BY <1>2 DEF LineNotAhead, NotAhead
  <2>1. line[i].seq \in Seqs /\ line[i].turn \in Nat /\ line[i].turn < turn
    BY <1>0, TypeFacts DEF IInv, LineFits, Owned
  <2>2. CASE line[i].seq = n
    BY <1>2, <1>3, <1>4, <2>1, <2>2
  <2>3. CASE line[i].seq # n
    <3>1. pending'[line[i].seq] = pending[line[i].seq]
      BY <1>4, <2>1, <2>3
    <3> QED BY <3>1 DEF IInv, LineNotAhead, NotAhead
  <2> QED BY <2>2, <2>3
<1>9. CallsNotAhead'
  <2> SUFFICES ASSUME NEW d \in Callers, call'[d].st = "registered",
                      pending'[call'[d].seq] # NoEntry
               PROVE  /\ call'[d].turn <= pending'[call'[d].seq].turn
                      /\ call'[d].turn = pending'[call'[d].seq].turn =>
                           call'[d].gen = pending'[call'[d].seq].gen
    BY DEF CallsNotAhead, NotAhead
  <2>1. CASE d = c
    BY <1>2, <1>3, <1>4, <2>1
  <2>2. CASE d # c
    <3>1. call[d].seq \in Seqs /\ call[d].turn \in Nat /\ call[d].turn < turn
          /\ call'[d] = call[d]
      BY <1>0, <1>4, <2>2, TypeFacts DEF IInv, CallsFit, Owned
    <3>2. CASE call[d].seq = n
      BY <1>2, <1>3, <1>4, <3>1, <3>2
    <3>3. CASE call[d].seq # n
      <4>1. pending'[call[d].seq] = pending[call[d].seq]
        BY <1>4, <3>1, <3>3
      <4> QED BY <3>1, <4>1 DEF IInv, CallsNotAhead, NotAhead
    <3> QED BY <3>2, <3>3
  <2> QED BY <2>1, <2>2
<1>10. EntryIsCallers'
  <2> SUFFICES ASSUME NEW s \in Seqs, NEW d \in Callers, pending'[s] # NoEntry,
                      call'[d].st # "idle", pending'[s].gen = call'[d].gen
               PROVE  /\ pending'[s].tx = d
                      /\ pending'[s].what = call'[d].what
                      /\ pending'[s].turn = call'[d].turn
                      /\ s = call'[d].seq
    BY DEF EntryIsCallers
  <2>1. CASE s = n /\ d = c
    BY <1>3, <1>4, <2>1
  <2>2. CASE s = n /\ d # c
    BY <1>0, <1>2, <1>3, <1>4, <2>2, TypeFacts DEF IInv, CallsFit, Owned
  <2>3. CASE s # n /\ d = c
    BY <1>0, <1>2, <1>3, <1>4, <2>3, TypeFacts DEF IInv, EntriesFit
  <2>4. CASE s # n /\ d # c
    BY <1>4, <2>4 DEF IInv, EntryIsCallers
  <2> QED BY <2>1, <2>2, <2>3, <2>4
<1>11. CallsDiffer'
  <2> SUFFICES ASSUME NEW a \in Callers, NEW b \in Callers, call'[a].st # "idle",
                      call'[b].st # "idle", call'[a].gen = call'[b].gen
               PROVE  a = b
    BY DEF CallsDiffer
  <2>1. \A d \in Callers : d # c /\ call[d].st # "idle" => call[d].gen # gen
    BY <1>0, TypeFacts DEF IInv, CallsFit, Owned
  <2>2. CASE a # c /\ b # c
    BY <1>4, <2>2 DEF IInv, CallsDiffer
  <2>3. CASE a = c \/ b = c
    BY <1>3, <1>4, <2>1, <2>3
  <2> QED BY <2>2, <2>3
<1>12. DueIsElapsed'
  <2> SUFFICES ASSUME NEW d \in due
               PROVE  /\ d.gen < gen + 1
                      /\ \A x \in Callers : call'[x].st # "idle" /\ call'[x].gen = d.gen
                                              => call'[x].timer
    BY <1>2 DEF DueIsElapsed
  <2>1. d.gen \in Nat /\ d.gen < gen
    BY <1>0 DEF IInv, DueIsElapsed, TypeOK
  <2> QED BY <1>2, <1>3, <1>4, <2>1 DEF IInv, DueIsElapsed
<1>13. AnsweredLeft'
  <2> SUFFICES ASSUME NEW s \in Seqs, NEW d \in Callers, pending'[s] # NoEntry,
                      call'[d].st # "idle", call'[d].reply # NoReply,
                      pending'[s].gen = call'[d].gen
               PROVE  FALSE
    BY DEF AnsweredLeft
  <2>1. d # c /\ call'[d] = call[d]
    BY <1>3, <1>4
  <2>2. call[d].gen # gen
    BY <1>0, <2>1, TypeFacts DEF IInv, CallsFit, Owned
  <2> QED BY <1>3, <1>4, <2>1, <2>2 DEF IInv, AnsweredLeft
<1>14. StaleAnswerNeedsWrap'
  BY <1>3, <1>4 DEF IInv, StaleAnswerNeedsWrap
<1>15. WaiterKeepsEntry'
  <2> SUFFICES ASSUME NEW d \in Callers, call'[d].st \in {"registered", "waiting"},
                      call'[d].reply = NoReply, ~overrun', ~call'[d].timer
               PROVE  /\ pending'[call'[d].seq] # NoEntry
                      /\ pending'[call'[d].seq].gen = call'[d].gen
    BY DEF WaiterKeepsEntry
  <2>1. CASE d = c
    BY <1>2, <1>3, <1>4, <2>1
  <2>2. CASE d # c
    <3>1. call[d].seq \in Seqs /\ pending[call[d].seq] # NoEntry
          /\ pending[call[d].seq].gen = call[d].gen /\ call'[d] = call[d]
      BY <1>0, <1>4, <2>2, TypeFacts DEF IInv, WaiterKeepsEntry
    <3> QED BY <1>4, <3>1
  <2> QED BY <2>1, <2>2
<1>16. NoOrphanEntry'
  <2> SUFFICES ASSUME NEW s \in Seqs, pending'[s] # NoEntry, pending'[s].tx \in SyncCallers
               PROVE  /\ call'[pending'[s].tx].gen = pending'[s].gen
                      /\ call'[pending'[s].tx].st \in Listening
    BY DEF NoOrphanEntry
  <2>1. CASE s = n
    BY <1>3, <1>4, <2>1 DEF Listening
  <2>2. CASE s # n
    <3>1. /\ pending'[s] = pending[s] /\ pending[s].tx \in Callers
          /\ call[pending[s].tx].gen = pending[s].gen
          /\ call[pending[s].tx].st \in Listening
      BY <1>4, <2>2 DEF IInv, NoOrphanEntry, Callers
    <3>2. pending[s].tx # c
      BY <1>2, <3>1 DEF Listening, Ended
    <3> QED BY <1>4, <3>1, <3>2
  <2> QED BY <2>1, <2>2
<1> QED BY <1>5, <1>6, <1>7, <1>8, <1>9, <1>10, <1>11, <1>12, <1>13, <1>14, <1>15,
           <1>16 DEF IInv

-----------------------------------------------------------------------------
LEMMA IInvInit == Init => IInv
<1> SUFFICES ASSUME Init PROVE IInv
  OBVIOUS
<1>1. TypeOK
  BY TypeInit
<1>2. /\ turn = 0 /\ gen = 0 /\ line = <<>> /\ due = {}
      /\ \A s \in Seqs : pending[s] = NoEntry
      /\ \A c \in Callers : call[c].st = "idle" /\ call[c].reply = NoReply
  BY DEF Init
<1> QED BY <1>1, <1>2 DEF IInv, EntriesFit, CallsFit, LineFits, LineNotAhead,
             CallsNotAhead, EntryIsCallers, CallsDiffer, DueIsElapsed, AnsweredLeft,
             StaleAnswerNeedsWrap, WaiterKeepsEntry, NoOrphanEntry

LEMMA Inductive == IInv /\ [Next]_vars => IInv'
<1> SUFFICES ASSUME IInv, [Next]_vars PROVE IInv'
  OBVIOUS
<1>0. TypeOK /\ TypeOK'
  BY TypeStep DEF IInv
<1>1. CASE UNCHANGED vars
  <2>1. turn <= turn'
    BY <1>0, <1>1 DEF vars, TypeOK
  <2> QED BY <1>0, <1>1, <2>1, CallsAloneStep DEF vars
<1>2. ASSUME NEW c \in Callers, NEW w \in Selectors, Register(c, w) PROVE IInv'
  BY <1>0, <1>2, RegisterStep
<1>3. ASSUME NEW c \in Callers, SendRequest(c) PROVE IInv'
  BY <1>0, <1>3, SendRequestStep
<1>4. ASSUME NEW c \in Callers, SendFails(c) PROVE IInv'
  <2>1. Moved(c, "failed") /\ "failed" \in Ended
    BY <1>4 DEF SendFails, Moved, Ended
  <2> QED BY <1>0, <1>4, <2>1, GivesBackStep DEF SendFails
<1>5. ASSUME NEW c \in Callers, TakeAnswer(c) PROVE IInv'
  <2>1. Moved(c, "answered") /\ call[c].reply # NoReply
    BY <1>5 DEF TakeAnswer, Moved
  <2> QED BY <1>0, <1>5, <2>1, EndedStep DEF TakeAnswer
<1>6. ASSUME NEW c \in Callers, Expire(c) PROVE IInv'
  <2>1. Moved(c, "expired") /\ "expired" \in Listening
    BY <1>6 DEF Expire, Moved, Listening
  <2> QED BY <1>0, <1>6, <2>1, EndedStep DEF Expire
<1>7. ASSUME NEW c \in Callers, CancelExpired(c) PROVE IInv'
  <2>1. Moved(c, "timedout") /\ "timedout" \in Ended
    BY <1>7 DEF CancelExpired, Moved, Ended
  <2> QED BY <1>0, <1>7, <2>1, GivesBackStep DEF CancelExpired
<1>8. ASSUME NEW c \in Callers, TimerElapses(c) PROVE IInv'
  BY <1>0, <1>8, TimerElapsesStep
<1>9. ASSUME NEW c \in Callers, SeeDisconnect(c) PROVE IInv'
  <2>1. Moved(c, "timedout") /\ c \notin SyncCallers
    BY <1>9, CallerAssumption DEF SeeDisconnect, Moved
  <2> QED BY <1>0, <1>9, <2>1, EndedStep DEF SeeDisconnect
<1>10. ASSUME NEW c \in Callers, DropFuture(c) PROVE IInv'
  <2>1. Moved(c, "dropped") /\ c \notin SyncCallers
    BY <1>10, CallerAssumption DEF DropFuture, Moved
  <2> QED BY <1>0, <1>10, <2>1, EndedStep DEF DropFuture
<1>11. CASE SendCommand
  <2>1. turn <= turn'
    BY <1>0, <1>11 DEF SendCommand, TypeOK
  <2> QED BY <1>0, <1>11, <2>1, CallsAloneStep DEF SendCommand
<1>12. CASE Deliver
  BY <1>0, <1>12, DeliverStep
<1>13. CASE Lose
  <2>1. PICK i \in DOMAIN line : line' = RemoveAt(line, i)
    BY <1>13 DEF Lose
  <2>2. turn <= turn' /\ line \in Seq(Frame)
    BY <1>0, <1>13 DEF Lose, TypeOK
  <2>3. \A j \in DOMAIN line' : \E k \in DOMAIN line : line'[j] = line[k]
    BY <2>1, <2>2, RemoveAtFacts
  <2> QED BY <1>0, <1>13, <2>2, <2>3, CallsAloneStep DEF Lose
<1>14. CASE CancelDue
  BY <1>0, <1>14, CancelDueStep
<1> QED BY <1>1, <1>2, <1>3, <1>4, <1>5, <1>6, <1>7, <1>8, <1>9, <1>10, <1>11,
           <1>12, <1>13, <1>14 DEF Next

-----------------------------------------------------------------------------
(* The inductive invariant holds: every query, entry, answer and pending      *)
(* cancel belongs to one registration, and the map never holds an older one   *)
(* than the line does (register, cancel and deliver, correlation.rs:28-81).   *)
THEOREM Invariant == Spec => []IInv
BY IInvInit, Inductive, PTL DEF Spec

(* A query is given its own answer, or that of a query with the same selector *)
(* at least a whole turn of the SEQ counter older (deliver,                   *)
(* correlation.rs:68-81), for any SEQ width and any number of callers.        *)
THEOREM StaleAnswerCorrect == Spec => []StaleAnswerNeedsWrap
<1>1. IInv => StaleAnswerNeedsWrap
  BY DEF IInv
<1> QED BY <1>1, Invariant, PTL

(* A caller still waiting keeps its place in the map, whatever cancels of     *)
(* older queries run (cancel's gen_id check, correlation.rs:61-66).           *)
THEOREM WaiterCorrect == Spec => []WaiterKeepsEntry
<1>1. IInv => WaiterKeepsEntry
  BY DEF IInv
<1> QED BY <1>1, Invariant, PTL

(* No query is registered or sent under the hello's SEQ, also where the map   *)
(* is full (register, correlation.rs:27-28, 46-48).                           *)
THEOREM HelloSeqCorrect == Spec => []NoQueryUnderHelloSeq
<1>1. IInv => NoQueryUnderHelloSeq
  <2> SUFFICES ASSUME IInv PROVE NoQueryUnderHelloSeq
    OBVIOUS
  <2>1. HelloSeq \in Seqs
    BY SeqSpaceAssumption DEF HelloSeq, Seqs
  <2> QED BY <2>1 DEF IInv, EntriesFit, LineFits, Owned, NoQueryUnderHelloSeq
<1> QED BY <1>1, Invariant, PTL

(* A thread's query leaves no entry behind (recv_query, correlation.rs:196-198 *)
(* and the failed write, 127-130).                                             *)
THEOREM NoOrphanCorrect == Spec => []NoOrphanEntry
<1>1. IInv => NoOrphanEntry
  BY DEF IInv
<1> QED BY <1>1, Invariant, PTL

=============================================================================
