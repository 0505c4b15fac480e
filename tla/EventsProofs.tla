---------------------------- MODULE EventsProofs ----------------------------
(***************************************************************************)
(* Proofs about an event stream, for any capacity, receivers and closers   *)
(* (it is a Feed, a receive begun after a close gets nothing, decoded      *)
(* edges alternate and no usage stays pressed), and about placing an       *)
(* event's stamp, for any counter width, latency and order (it is placed   *)
(* at the instant it happened, wraps and restarts of the chip included).   *)
(***************************************************************************)
EXTENDS Events, Timeline, SequenceTheorems, WellFoundedInduction, TLAPS

\* Numbers that go up, past `low` and as far as `high`.
Rising(f, k, low, high) ==
  /\ low <= high
  /\ \A i \in 1 .. k : low + i <= f[i] /\ f[i] + (k - i) <= high
  /\ \A i, j \in 1 .. k : i <= j => f[i] + (j - i) <= f[j]

LEMMA AppendRising ==
  ASSUME NEW k \in Nat, NEW f \in [1 .. k -> Int], NEW low \in Int, NEW high \in Int,
         Rising(f, k, low, high),
         NEW g \in [1 .. k + 1 -> Int], \A i \in 1 .. k : g[i] = f[i], g[k + 1] = high + 1
  PROVE  Rising(g, k + 1, low, high + 1)
<1>1. ASSUME NEW i \in 1 .. k + 1 PROVE low + i <= g[i] /\ g[i] + (k + 1 - i) <= high + 1
  <2>1. CASE i \in 1 .. k BY <2>1 DEF Rising
  <2>2. CASE i = k + 1
    <3>1. low + k <= high
      <4>1. CASE k = 0 BY <4>1 DEF Rising
      <4>2. CASE k \in 1 .. k BY <4>2 DEF Rising
      <4> QED BY <4>1, <4>2
    <3> QED BY <2>2, <3>1
  <2> QED BY <2>1, <2>2
<1>2. ASSUME NEW i \in 1 .. k + 1, NEW j \in 1 .. k + 1, i <= j PROVE g[i] + (j - i) <= g[j]
  <2>1. CASE j \in 1 .. k
    <3>1. i \in 1 .. k BY <1>2, <2>1
    <3> QED BY <1>2, <2>1, <3>1 DEF Rising
  <2>2. CASE j = k + 1
    <3>1. CASE i \in 1 .. k BY <2>2, <3>1 DEF Rising
    <3>2. CASE i = j BY <3>2
    <3> QED BY <2>2, <3>1, <3>2
  <2> QED BY <2>1, <2>2
<1> QED BY <1>1, <1>2 DEF Rising

LEMMA TailRising ==
  ASSUME NEW k \in Nat \ {0}, NEW f \in [1 .. k -> Int], NEW low \in Int, NEW high \in Int,
         Rising(f, k, low, high),
         NEW g \in [1 .. k - 1 -> Int], \A i \in 1 .. k - 1 : g[i] = f[i + 1],
         NEW from \in {low, f[1]}
  PROVE  Rising(g, k - 1, from, high) /\ low < f[1] /\ f[1] + (k - 1) <= high
<1>1. 1 \in 1 .. k /\ from \in Int OBVIOUS
<1>2. low < f[1] /\ f[1] + (k - 1) <= high BY <1>1 DEF Rising
<1>3. ASSUME NEW i \in 1 .. k - 1 PROVE from + i <= g[i] /\ g[i] + (k - 1 - i) <= high
  <2>1. i + 1 \in 1 .. k /\ 1 <= i + 1 OBVIOUS
  <2>2. low + (i + 1) <= f[i + 1] /\ f[i + 1] + (k - (i + 1)) <= high BY <2>1 DEF Rising
  <2>3. f[1] + ((i + 1) - 1) <= f[i + 1] BY <1>1, <2>1 DEF Rising
  <2>4. g[i] = f[i + 1] /\ f[i + 1] \in Int /\ f[1] \in Int BY <1>1, <2>1
  <2>5. i \in Int /\ k \in Int /\ (from = low \/ from = f[1]) OBVIOUS
  <2>6. CASE from = low BY <2>2, <2>4, <2>5, <2>6
  <2>7. CASE from = f[1] BY <2>2, <2>3, <2>4, <2>5, <2>7
  <2> QED BY <2>5, <2>6, <2>7
<1>4. ASSUME NEW i \in 1 .. k - 1, NEW j \in 1 .. k - 1, i <= j PROVE g[i] + (j - i) <= g[j]
  <2>1. i + 1 \in 1 .. k /\ j + 1 \in 1 .. k /\ i + 1 <= j + 1 BY <1>4
  <2>2. f[i + 1] + ((j + 1) - (i + 1)) <= f[j + 1] BY <2>1 DEF Rising
  <2>3. f[i + 1] \in Int /\ f[j + 1] \in Int BY <2>1
  <2> QED BY <2>2, <2>3
<1>5. from <= high BY <1>1, <1>2 DEF Rising
<1> QED BY <1>2, <1>3, <1>4, <1>5 DEF Rising

-----------------------------------------------------------------------------
Numbers(q) == [i \in 1 .. Len(q) |-> q[i].n]

\* The event the reader holds and has not sent, and one it may have evicted and not counted.
Unsent == IF reader.pc \in {"evict", "send"} THEN 1 ELSE 0
Uncounted == IF reader.pc \in {"send", "count"} THEN 1 ELSE 0

\* The events that were neither taken nor are on their way.
Lost == offered - taken - Len(queue) - Unsent

\* The numbers of what waits go up, past the last one taken and as far as what was sent.
Ordered ==
  /\ Rising(Numbers(queue), Len(queue), last, offered - Unsent)
  /\ Unsent = 1 => reader.e.n = offered

\* No more are lost than are counted, and no more are skipped than are missed.  The eviction made
\* room, and no one but the reader fills it.
Counted ==
  /\ 0 <= Lost /\ Lost <= dropped + Uncounted
  /\ Missed <= offered
  /\ taken <= last /\ last - taken <= Missed
  /\ reader.pc = "send" => Len(queue) < Capacity

FlowType ==
  /\ queue \in Seq(Numbered) /\ Len(queue) <= Capacity
  /\ dropped \in 0 .. MaxReports
  /\ reader \in [pc : {"idle", "evict", "send", "count"}, e : Numbered]
  /\ offered \in 0 .. MaxReports /\ taken \in 0 .. MaxReports /\ last \in 0 .. MaxReports

RestType ==
  /\ registered \in BOOLEAN /\ closed \in BOOLEAN /\ ended \in BOOLEAN /\ gone \in BOOLEAN
  /\ closer \in [Closers -> {"idle", "detach", "return", "done"}]
  /\ turn \in Receivers \cup {Nobody}
  /\ rcv \in [Receivers -> Receive]
  /\ real \in [n : 0 .. MaxReports, listed : SUBSET Usages, cut : BOOLEAN]

FeedInv == FlowType /\ RestType /\ Ordered /\ Counted

LEMMA TypeSplit == TypeOK <=> FlowType /\ RestType
  BY DEF TypeOK, FlowType, RestType

LEMMA NumbersType ==
  ASSUME NEW q \in Seq(Numbered)
  PROVE  Numbers(q) \in [1 .. Len(q) -> Int]
<1>1. \A e \in Numbered : e.n \in Int BY MaxReportsAssumption DEF Numbered
<1>2. \A i \in 1 .. Len(q) : q[i] \in Numbered OBVIOUS
<1> QED BY <1>1, <1>2 DEF Numbers

LEMMA InitInv == Init => FeedInv
<1> SUFFICES ASSUME Init PROVE FeedInv OBVIOUS
<1> USE CapacityAssumption, MaxReportsAssumption
<1>1. Resting \in [pc : {"idle", "evict", "send", "count"}, e : Numbered] /\ Resting.pc = "idle"
  BY DEF Resting, Numbered, EventOf
<1>2. FlowType
  <2>1. queue \in Seq(Numbered) /\ Len(queue) <= Capacity BY DEF Init
  <2> QED BY <1>1, <2>1 DEF Init, FlowType
<1>3. RestType
  <2>1. real \in [n : 0 .. MaxReports, listed : SUBSET Usages, cut : BOOLEAN] BY DEF Init
  <2>2. closer \in [Closers -> {"idle", "detach", "return", "done"}] BY DEF Init
  <2> QED BY <2>1, <2>2 DEF Init, RestType
<1>4. /\ Len(queue) = 0 /\ last = 0 /\ offered = 0 /\ taken = 0 /\ dropped = 0
      /\ reader.pc = "idle"
  BY <1>1 DEF Init
<1>5. Unsent = 0 /\ Uncounted = 0 /\ Missed = 0 BY <1>4 DEF Unsent, Uncounted, Missed
<1>6. Ordered
  <2>1. offered - Unsent = 0 BY <1>4, <1>5
  <2> QED BY <1>4, <1>5, <2>1 DEF Ordered, Rising
<1>7. Counted BY <1>4, <1>5 DEF Counted, Lost
<1> QED BY <1>2, <1>3, <1>6, <1>7 DEF FeedInv

-----------------------------------------------------------------------------
(* The numbers of the flow, as far as arithmetic goes.                      *)

LEMMA FlowInts ==
  ASSUME FlowType
  PROVE  /\ Len(queue) \in Nat /\ dropped \in Nat /\ offered \in Nat /\ taken \in Nat /\ last \in Nat
         /\ Unsent \in {0, 1} /\ Uncounted \in {0, 1} /\ Missed \in Nat
         /\ Capacity \in Nat \ {0} /\ MaxReports \in Nat
         /\ offered <= MaxReports /\ Len(queue) <= Capacity
         /\ Missed = dropped + (IF reader.pc = "idle" THEN 0 ELSE 1)
         /\ Uncounted = 1 => Missed = dropped + 1
  BY CapacityAssumption, MaxReportsAssumption DEF FlowType, Unsent, Uncounted, Missed

\* A sent event goes to the end of the queue.
LEMMA SentOrdered ==
  ASSUME FlowType, Ordered, NEW e \in Numbered, queue' = Append(queue, e), last' = last,
         e.n = offered - Unsent + 1
  PROVE  /\ Rising(Numbers(queue'), Len(queue'), last', offered - Unsent + 1)
         /\ Len(queue') = Len(queue) + 1 /\ queue' \in Seq(Numbered)
<1>1. queue \in Seq(Numbered) BY DEF FlowType
<1>2. Len(queue') = Len(queue) + 1 /\ queue' \in Seq(Numbered) BY <1>1
<1>3. Numbers(queue) \in [1 .. Len(queue) -> Int] /\ Numbers(queue') \in [1 .. Len(queue') -> Int]
  BY <1>1, <1>2, NumbersType
<1>4. /\ \A i \in 1 .. Len(queue) : Numbers(queue')[i] = Numbers(queue)[i]
      /\ Numbers(queue')[Len(queue) + 1] = offered - Unsent + 1
  BY <1>1, <1>2 DEF Numbers
<1>5. Len(queue) \in Nat /\ last \in Int /\ offered - Unsent \in Int BY FlowInts
<1>6. Rising(Numbers(queue), Len(queue), last, offered - Unsent) BY DEF Ordered
<1>7. Rising(Numbers(queue'), Len(queue) + 1, last, offered - Unsent + 1)
  BY <1>2, <1>3, <1>4, <1>5, <1>6, AppendRising
<1> QED BY <1>2, <1>7

\* The first event leaves the queue, for a consumer or for good.
LEMMA LeftOrdered ==
  ASSUME FlowType, Ordered, queue # <<>>, queue' = Tail(queue), last' \in {last, Head(queue).n}
  PROVE  /\ Rising(Numbers(queue'), Len(queue'), last', offered - Unsent)
         /\ Len(queue') = Len(queue) - 1 /\ queue' \in Seq(Numbered)
         /\ Head(queue) \in Numbered /\ Head(queue).n \in Nat
         /\ last < Head(queue).n /\ Head(queue).n + (Len(queue) - 1) <= offered - Unsent
<1>1. queue \in Seq(Numbered) BY DEF FlowType
<1>2. /\ Len(queue') = Len(queue) - 1 /\ queue' \in Seq(Numbered) /\ Len(queue) \in Nat \ {0}
      /\ Head(queue) = queue[1] /\ Head(queue) \in Numbered
  BY <1>1
<1>3. Numbers(queue) \in [1 .. Len(queue) -> Int] /\ Numbers(queue') \in [1 .. Len(queue') -> Int]
  BY <1>1, <1>2, NumbersType
<1>4. /\ \A i \in 1 .. Len(queue) - 1 : Numbers(queue')[i] = Numbers(queue)[i + 1]
      /\ Numbers(queue)[1] = Head(queue).n
  BY <1>1, <1>2 DEF Numbers
<1>5. last \in Int /\ offered - Unsent \in Int BY FlowInts
<1>6. Rising(Numbers(queue), Len(queue), last, offered - Unsent) BY DEF Ordered
<1>7. /\ Rising(Numbers(queue'), Len(queue) - 1, last', offered - Unsent)
      /\ last < Numbers(queue)[1] /\ Numbers(queue)[1] + (Len(queue) - 1) <= offered - Unsent
  <2>1. last' \in {last, Numbers(queue)[1]} BY <1>4
  <2> QED BY ONLY <1>2, <1>3, <1>4, <1>5, <1>6, <2>1, TailRising
<1>8. Head(queue).n \in Nat BY <1>2, MaxReportsAssumption DEF Numbered
<1> QED BY <1>2, <1>4, <1>7, <1>8

-----------------------------------------------------------------------------
(* The steps, and what each is for a Feed.                                  *)

FeedStep == [FeedView!Next]_(FeedView!vars)
Kept == FlowType' /\ Ordered' /\ Counted' /\ FeedStep

LEMMA ReportKeeps ==
  ASSUME FeedInv, NEW ev \in EventOf, Report(ev)
  PROVE  Kept
<1> DEFINE e == [n |-> offered + 1, ev |-> ev]
<1>1. FlowType /\ Ordered /\ Counted BY DEF FeedInv
<1>2. /\ reader.pc = "idle" /\ offered < MaxReports /\ offered' = offered + 1
      /\ UNCHANGED <<dropped, taken, last>>
      /\ \/ Len(queue) < Capacity /\ queue' = Append(queue, e) /\ UNCHANGED reader
         \/ ~(Len(queue) < Capacity) /\ reader' = [pc |-> "evict", e |-> e] /\ UNCHANGED queue
  BY DEF Report, Wanted, Delivering
<1>3. e \in Numbered /\ e.n = offered + 1
  <2>1. offered + 1 \in 1 .. MaxReports BY <1>1, <1>2, FlowInts
  <2> QED BY <2>1 DEF Numbered
<1> HIDE DEF e
<1>4. Unsent = 0 /\ Uncounted = 0 BY <1>2 DEF Unsent, Uncounted
<1>5. CASE Len(queue) < Capacity /\ queue' = Append(queue, e) /\ UNCHANGED reader
  <2>1. /\ Rising(Numbers(queue'), Len(queue'), last', offered - Unsent + 1)
        /\ Len(queue') = Len(queue) + 1 /\ queue' \in Seq(Numbered)
    BY <1>1, <1>2, <1>3, <1>4, <1>5, FlowInts, SentOrdered
  <2>2. Unsent' = 0 /\ Uncounted' = 0 /\ Missed' = Missed
    BY <1>2, <1>4, <1>5 DEF Unsent, Uncounted, Missed
  <2>3. FlowType' BY <1>1, <1>2, <1>5, <2>1, FlowInts DEF FlowType
  <2>4. Ordered'
    <3>1. offered' - Unsent' = offered - Unsent + 1 BY <1>1, <1>2, <1>4, <2>2, FlowInts
    <3> QED BY <2>1, <2>2, <3>1 DEF Ordered
  <2>5. Counted' BY <1>1, <1>2, <1>4, <1>5, <2>1, <2>2, FlowInts DEF Counted, Lost
  <2>6. FeedStep BY <1>2, <2>2 DEF FeedStep, FeedView!Next, FeedView!Offer
  <2> QED BY <2>3, <2>4, <2>5, <2>6 DEF Kept
<1>6. CASE ~(Len(queue) < Capacity) /\ reader' = [pc |-> "evict", e |-> e] /\ UNCHANGED queue
  <2>1. Unsent' = 1 /\ Uncounted' = 0 /\ Missed' = Missed + 1 /\ reader'.e = e /\ reader'.pc = "evict"
    BY <1>1, <1>2, <1>6, FlowInts DEF Unsent, Uncounted, Missed
  <2>2. FlowType' BY <1>1, <1>2, <1>3, <1>6, FlowInts DEF FlowType
  <2>3. offered' - Unsent' = offered - Unsent BY <1>1, <1>2, <1>4, <2>1, FlowInts
  <2>4. Ordered' BY <1>1, <1>2, <1>3, <1>6, <2>1, <2>3 DEF Ordered
  <2>5. Counted' BY <1>1, <1>2, <1>4, <1>6, <2>1, FlowInts DEF Counted, Lost
  <2>6. offered - last >= Capacity
    <3>1. Len(queue) \in 1 .. Len(queue) /\ Capacity = Len(queue) BY <1>1, <1>6, FlowInts
    <3>2. queue \in Seq(Numbered) BY <1>1 DEF FlowType
    <3>3. Numbers(queue)[Len(queue)] \in Int BY <3>1, <3>2, NumbersType
    <3>4. /\ last + Len(queue) <= Numbers(queue)[Len(queue)]
          /\ Numbers(queue)[Len(queue)] + (Len(queue) - Len(queue)) <= offered - Unsent
      BY <1>1, <3>1 DEF Ordered, Rising
    <3> QED BY <1>1, <1>4, <3>1, <3>3, <3>4, FlowInts
  <2>7. FeedStep BY <1>2, <2>1, <2>6 DEF FeedStep, FeedView!Next, FeedView!Offer
  <2> QED BY <2>2, <2>4, <2>5, <2>7 DEF Kept
<1> QED BY <1>2, <1>5, <1>6

LEMMA EvictKeeps ==
  ASSUME FeedInv, Evict
  PROVE  Kept
<1>1. FlowType /\ Ordered /\ Counted BY DEF FeedInv
<1>2. /\ reader.pc = "evict" /\ reader' = [reader EXCEPT !.pc = "send"]
      /\ UNCHANGED <<dropped, offered, taken, last>>
      /\ queue' = IF queue = <<>> THEN queue ELSE Tail(queue)
  BY DEF Evict, Delivering
<1>3. reader'.pc = "send" /\ reader'.e = reader.e BY <1>1, <1>2 DEF FlowType
<1>4. Unsent = 1 /\ Uncounted = 0 /\ Unsent' = 1 /\ Uncounted' = 1 /\ Missed' = Missed
  BY <1>2, <1>3 DEF Unsent, Uncounted, Missed
<1>5. FeedStep BY <1>2, <1>4 DEF FeedStep, FeedView!vars
<1>6. /\ Rising(Numbers(queue'), Len(queue'), last', offered - Unsent)
      /\ queue' \in Seq(Numbered)
      /\ Len(queue') = Len(queue) - 1 \/ (Len(queue) = 0 /\ Len(queue') = 0)
  <2>1. CASE queue = <<>>
    <3>1. queue' = queue /\ Len(queue) = 0 BY <1>2, <2>1
    <3> QED BY <1>1, <1>2, <3>1 DEF Ordered, FlowType
  <2>2. CASE queue # <<>> BY <1>1, <1>2, <2>2, LeftOrdered
  <2> QED BY <2>1, <2>2
<1>7. FlowType' BY <1>1, <1>2, <1>6, FlowInts DEF FlowType
<1>8. Ordered' BY <1>1, <1>2, <1>3, <1>4, <1>6 DEF Ordered
<1>9. Counted' BY <1>1, <1>2, <1>3, <1>4, <1>6, FlowInts DEF Counted, Lost
<1> QED BY <1>5, <1>7, <1>8, <1>9 DEF Kept

LEMMA SendKeeps ==
  ASSUME FeedInv, SendAgain
  PROVE  Kept
<1>1. FlowType /\ Ordered /\ Counted BY DEF FeedInv
<1>2. /\ reader.pc = "send" /\ reader' = [reader EXCEPT !.pc = "count"]
      /\ UNCHANGED <<dropped, offered, taken, last>>
      /\ queue' = IF Len(queue) < Capacity THEN Append(queue, reader.e) ELSE queue
  BY DEF SendAgain, Delivering
<1>3. reader'.pc = "count" /\ reader.e \in Numbered BY <1>1, <1>2 DEF FlowType
<1>4. Unsent = 1 /\ Uncounted = 1 /\ Unsent' = 0 /\ Uncounted' = 1 /\ Missed' = Missed
  BY <1>2, <1>3 DEF Unsent, Uncounted, Missed
<1>5. FeedStep BY <1>2, <1>4 DEF FeedStep, FeedView!vars
<1>6. Len(queue) < Capacity BY <1>1, <1>2 DEF Counted
<1>7. reader.e.n = offered - Unsent + 1 BY <1>1, <1>4, FlowInts DEF Ordered
<1>8. /\ Rising(Numbers(queue'), Len(queue'), last', offered - Unsent + 1)
      /\ Len(queue') = Len(queue) + 1 /\ queue' \in Seq(Numbered)
  BY <1>1, <1>2, <1>3, <1>6, <1>7, SentOrdered
<1>9. FlowType' BY <1>1, <1>2, <1>6, <1>8, FlowInts DEF FlowType
<1>10. Ordered'
  <2>1. offered' - Unsent' = offered - Unsent + 1 BY <1>1, <1>2, <1>4, FlowInts
  <2> QED BY <1>4, <1>8, <2>1 DEF Ordered
<1>11. Counted' BY <1>1, <1>2, <1>3, <1>4, <1>8, FlowInts DEF Counted, Lost
<1> QED BY <1>5, <1>9, <1>10, <1>11 DEF Kept

LEMMA CountKeeps ==
  ASSUME FeedInv, CountDrop
  PROVE  Kept
<1>1. FlowType /\ Ordered /\ Counted BY DEF FeedInv
<1>2. /\ reader.pc = "count" /\ reader' = Resting /\ dropped' = dropped + 1
      /\ UNCHANGED <<queue, offered, taken, last>>
  BY DEF CountDrop, Delivering
<1>3. Resting.pc = "idle" /\ Resting.e \in Numbered /\ Resting = [pc |-> Resting.pc, e |-> Resting.e]
  BY MaxReportsAssumption DEF Resting, Numbered, EventOf
<1>4. Unsent = 0 /\ Uncounted = 1 /\ Unsent' = 0 /\ Uncounted' = 0 /\ Missed' = Missed
  BY <1>1, <1>2, <1>3, FlowInts DEF Unsent, Uncounted, Missed
<1>5. FeedStep BY <1>2, <1>4 DEF FeedStep, FeedView!vars
<1>6. Missed = dropped + 1 BY <1>1, <1>4, FlowInts
<1>7. FlowType' BY <1>1, <1>2, <1>3, <1>6, FlowInts DEF FlowType, Counted
<1>8. Ordered' BY <1>1, <1>2, <1>4 DEF Ordered
<1>9. Counted' BY <1>1, <1>2, <1>3, <1>4, <1>6, FlowInts DEF Counted, Lost
<1> QED BY <1>5, <1>7, <1>8, <1>9 DEF Kept

LEMMA TakeKeeps ==
  ASSUME FeedInv, NEW c \in Receivers, Take(c)
  PROVE  Kept
<1> DEFINE n == Head(queue).n
<1>1. FlowType /\ Ordered /\ Counted BY DEF FeedInv
<1>2. /\ queue # <<>> /\ queue' = Tail(queue) /\ taken' = taken + 1 /\ last' = n
      /\ UNCHANGED <<dropped, reader, offered>>
  BY DEF Take, Receiving
<1>3. /\ Rising(Numbers(queue'), Len(queue'), last', offered - Unsent)
      /\ Len(queue') = Len(queue) - 1 /\ queue' \in Seq(Numbered)
      /\ n \in Nat /\ last < n /\ n + (Len(queue) - 1) <= offered - Unsent
  BY <1>1, <1>2, LeftOrdered
<1> HIDE DEF n
<1>4. Unsent' = Unsent /\ Uncounted' = Uncounted /\ Missed' = Missed
  BY <1>2 DEF Unsent, Uncounted, Missed
<1>5. Lost <= Missed
  BY <1>1, FlowInts DEF Counted, Lost
<1>6. n - (taken + 1) <= Missed /\ taken + 1 <= n /\ n <= offered
  <2>1. /\ Len(queue) \in Nat \ {0} /\ offered \in Nat /\ taken \in Nat /\ last \in Nat
        /\ Unsent \in {0, 1} /\ Missed \in Nat
    <3>1. Len(queue) \in Nat /\ queue \in Seq(Numbered) BY <1>1, FlowInts DEF FlowType
    <3>2. Len(queue) # 0 BY <1>2, <3>1
    <3> QED BY <1>1, <3>1, <3>2, FlowInts
  <2>2. offered - taken - Len(queue) - Unsent <= Missed BY <1>5 DEF Lost
  <2>3. taken <= last BY <1>1 DEF Counted
  <2> HIDE DEF Missed, Unsent, Uncounted
  <2> QED BY ONLY <1>3, <2>1, <2>2, <2>3
<1>7. FlowType' BY <1>1, <1>2, <1>3, <1>6, FlowInts DEF FlowType
<1>8. Ordered' BY <1>1, <1>2, <1>3, <1>4 DEF Ordered
<1>9. Counted'
  <2>1. Lost' = Lost BY <1>1, <1>2, <1>3, <1>4, FlowInts DEF Lost
  <2>2. 0 <= Lost' /\ Lost' <= dropped' + Uncounted' BY <1>1, <1>2, <1>4, <2>1 DEF Counted
  <2>3. Missed' <= offered' /\ taken' <= last' /\ last' - taken' <= Missed'
    BY <1>1, <1>2, <1>4, <1>6 DEF Counted
  <2>4. reader'.pc = "send" => Len(queue') < Capacity BY <1>1, <1>2, <1>3, FlowInts DEF Counted
  <2> QED BY <2>2, <2>3, <2>4 DEF Counted
<1>10. FeedStep
  <2>1. n \in last + 1 .. offered BY <1>1, <1>3, <1>6, FlowInts
  <2>2. last' - taken' = (last - taken) + (n - last - 1) BY <1>1, <1>2, <1>3, FlowInts
  <2>3. last' - taken' <= Missed BY <1>2, <1>6
  <2> QED BY <1>2, <1>4, <2>1, <2>2, <2>3 DEF FeedStep, FeedView!Next, FeedView!Take
<1> QED BY <1>7, <1>8, <1>9, <1>10 DEF Kept

LEMMA OthersKeep ==
  ASSUME FeedInv, UNCHANGED <<queue, dropped, reader, offered, taken, last>>
  PROVE  Kept
<1>1. FlowType /\ Ordered /\ Counted BY DEF FeedInv
<1>2. Unsent' = Unsent /\ Uncounted' = Uncounted /\ Missed' = Missed
  BY DEF Unsent, Uncounted, Missed
<1>3. FlowType' BY <1>1 DEF FlowType
<1>4. Ordered' BY <1>1, <1>2 DEF Ordered
<1>5. Counted' BY <1>1, <1>2 DEF Counted, Lost
<1>6. FeedStep BY <1>2 DEF FeedStep, FeedView!vars
<1> QED BY <1>3, <1>4, <1>5, <1>6 DEF Kept

-----------------------------------------------------------------------------
(* The rest of the stream's state.                                          *)

LEMMA RestStep ==
  ASSUME FeedInv, [Next]_vars
  PROVE  RestType'
<1> USE DEF FeedInv, RestType
<1>1. ASSUME NEW ev \in EventOf, Report(ev) PROVE RestType'
  <2>1. real' \in [n : 0 .. MaxReports, listed : SUBSET Usages, cut : BOOLEAN]
    <3>1. CASE ev = Motion BY <1>1, <3>1 DEF Report
    <3>2. CASE ev # Motion
      <4>1. ev \in Seq(Usages) BY <3>2, SnapshotsAssumption DEF EventOf
      <4>2. ToSet(ev) \in SUBSET Usages BY <4>1 DEF ToSet
      <4>3. offered + 1 \in 0 .. MaxReports BY <1>1, FlowInts DEF Report
      <4> QED BY <1>1, <3>2, <4>2, <4>3 DEF Report
    <3> QED BY <3>1, <3>2
  <2> QED BY <1>1, <2>1 DEF Report, Delivering
<1>2. CASE Evict
  <2>1. real' \in [n : 0 .. MaxReports, listed : SUBSET Usages, cut : BOOLEAN]
    <3>1. (real.cut \/ (queue # <<>> /\ Head(queue).n = real.n)) \in BOOLEAN OBVIOUS
    <3> QED BY <1>2, <3>1 DEF Evict
  <2> QED BY <1>2, <2>1 DEF Evict, Delivering
<1>3. CASE SendAgain \/ CountDrop BY <1>3 DEF SendAgain, CountDrop, Delivering
<1>4. CASE Unplug \/ ResetEnds BY <1>4 DEF Unplug, ResetEnds, Closing
<1>5. ASSUME NEW k \in Closers, Close(k) \/ Detach(k) \/ CloseReturns(k) PROVE RestType'
  BY <1>5 DEF Close, Detach, CloseReturns, Closing
<1>6. ASSUME NEW c \in Receivers, Begin(c) \/ GiveUpTurn(c) \/ Receiver(c) PROVE RestType'
  <2> USE DEF Receiving, Quit, To
  <2>1. turn' \in Receivers \cup {Nobody}
    BY <1>6 DEF Begin, GiveUpTurn, Receiver, TakeTurn, CheckClosed, Pop, Take, WaitEnds, Pump
  <2>2. rcv' \in [Receivers -> Receive]
    <3>0. ASSUME NEW r \in Receive, rcv' = [rcv EXCEPT ![c] = r]
          PROVE  rcv' \in [Receivers -> Receive]
      BY ONLY <3>0, RestType DEF RestType
    <3>1. ASSUME NEW pc \in {"idle", "turn", "check", "pop", "wait", "pump"},
                 rcv' = [rcv EXCEPT ![c].pc = pc]
          PROVE  rcv' \in [Receivers -> Receive]
      <4>1. [rcv[c] EXCEPT !.pc = pc] \in Receive BY DEF Receive
      <4> QED BY <3>0, <3>1, <4>1
    <3>2. CASE Begin(c)
      <4> PICK pc \in {"check", "turn"} : rcv' = [rcv EXCEPT ![c].pc = pc, ![c].late = ended]
        BY <3>2 DEF Begin
      <4>1. rcv[c] \in Receive /\ ended \in BOOLEAN OBVIOUS
      <4>2. [rcv[c] EXCEPT !.pc = pc, !.late = ended] \in Receive BY ONLY <4>1 DEF Receive
      <4> QED BY <3>0, <4>2
    <3>3. CASE Take(c)
      <4>1. Head(queue) \in Numbered BY <3>3 DEF Take, FlowType
      <4>2. Head(queue).ev \in EventOf BY <4>1 DEF Numbered
      <4>3. [rcv[c] EXCEPT !.pc = "pump", !.ev = Head(queue).ev] \in Receive BY <4>2 DEF Receive
      <4> QED BY <3>0, <3>3, <4>3 DEF Take
    <3>4. CASE Pump(c)
      <4>1. Motion \in EventOf BY DEF EventOf
      <4>2. [rcv[c] EXCEPT !.pc = "check", !.ev = Motion] \in Receive BY <4>1 DEF Receive
      <4> QED BY <3>0, <3>4, <4>2 DEF Pump
    <3>5. CASE GiveUpTurn(c) \/ TakeTurn(c) \/ CheckClosed(c) \/ Pop(c) \/ WaitEnds(c)
      BY <3>1, <3>5 DEF GiveUpTurn, TakeTurn, CheckClosed, Pop, WaitEnds
    <3> QED BY <1>6, <3>2, <3>3, <3>4, <3>5 DEF Receiver
  <2>3. UNCHANGED <<registered, closed, ended, gone, closer, real>>
    BY <1>6 DEF Begin, GiveUpTurn, Receiver, TakeTurn, CheckClosed, Pop, Take, WaitEnds, Pump
  <2> QED BY <2>1, <2>2, <2>3
<1>7. CASE UNCHANGED vars BY <1>7 DEF vars, histories
<1> QED BY <1>1, <1>2, <1>3, <1>4, <1>5, <1>6, <1>7 DEF Next, ReaderStep

LEMMA FlowStep ==
  ASSUME FeedInv, [Next]_vars
  PROVE  Kept
<1>1. CASE \E ev \in EventOf : Report(ev) BY <1>1, ReportKeeps
<1>2. CASE ReaderStep BY <1>2, EvictKeeps, SendKeeps, CountKeeps DEF ReaderStep
<1>3. CASE \E c \in Receivers : Take(c) BY <1>3, TakeKeeps
<1>4. CASE \/ Unplug \/ ResetEnds
           \/ \E k \in Closers : Close(k) \/ Detach(k) \/ CloseReturns(k)
  BY <1>4, OthersKeep DEF Unplug, ResetEnds, Close, Detach, CloseReturns, Closing
<1>5. ASSUME NEW c \in Receivers,
             \/ Begin(c) \/ GiveUpTurn(c) \/ TakeTurn(c) \/ CheckClosed(c) \/ Pop(c) \/ WaitEnds(c)
             \/ Pump(c)
      PROVE  Kept
  <2>1. UNCHANGED <<queue, dropped, reader, offered, taken, last>>
    BY <1>5 DEF Begin, GiveUpTurn, TakeTurn, CheckClosed, Pop, WaitEnds, Pump, Receiving
  <2> QED BY <2>1, OthersKeep
<1>6. CASE UNCHANGED vars BY <1>6, OthersKeep DEF vars, histories
<1> QED BY <1>1, <1>2, <1>3, <1>4, <1>5, <1>6 DEF Next, Receiver

LEMMA InvStep == FeedInv /\ [Next]_vars => FeedInv' /\ FeedStep
  BY FlowStep, RestStep DEF FeedInv, Kept

-----------------------------------------------------------------------------
(* After a close.                                                           *)

\* A close that returned had set the flag, and a receive begun since does not get past its check.
LateStop ==
  /\ ended => closed
  /\ \A k \in Closers : closer[k] \in {"detach", "return"} => closed
  /\ \A c \in Receivers : rcv[c].late => closed /\ rcv[c].pc \in {"idle", "turn", "check"}

LEMMA LateStep == RestType /\ LateStop /\ [Next]_vars => LateStop'
<1> SUFFICES ASSUME RestType, LateStop, [Next]_vars PROVE LateStop' OBVIOUS
<1> USE DEF RestType, LateStop
<1>1. CASE \/ \E ev \in EventOf : Report(ev)
           \/ ReaderStep \/ Unplug \/ ResetEnds
  <2>1. UNCHANGED <<closed, closer, ended, rcv>>
    <3>1. CASE \E ev \in EventOf : Report(ev) BY <3>1 DEF Report, Delivering
    <3>2. CASE ReaderStep BY <3>2 DEF ReaderStep, Evict, SendAgain, CountDrop, Delivering
    <3>3. CASE Unplug \/ ResetEnds BY <3>3 DEF Unplug, ResetEnds, Closing
    <3> QED BY <1>1, <3>1, <3>2, <3>3
  <2> QED BY <2>1
<1>2. ASSUME NEW k \in Closers, Close(k) \/ Detach(k) \/ CloseReturns(k) PROVE LateStop'
  <2>1. UNCHANGED rcv BY <1>2 DEF Close, Detach, CloseReturns, Closing
  <2>2. CASE Close(k) BY <2>1, <2>2 DEF Close
  <2>3. CASE Detach(k) BY <2>1, <2>3 DEF Detach
  <2>4. CASE CloseReturns(k) BY <2>1, <2>4 DEF CloseReturns
  <2> QED BY <1>2, <2>2, <2>3, <2>4
<1>3. ASSUME NEW c \in Receivers, Begin(c) \/ GiveUpTurn(c) \/ Receiver(c) PROVE LateStop'
  <2>1. UNCHANGED <<closed, closer, ended>>
    BY <1>3 DEF Begin, GiveUpTurn, Receiver, TakeTurn, CheckClosed, Pop, Take, WaitEnds, Pump, Receiving
  <2>2. \A o \in Receivers \ {c} : rcv'[o] = rcv[o]
    BY <1>3 DEF Begin, GiveUpTurn, Receiver, TakeTurn, CheckClosed, Pop, Take, WaitEnds, Pump, Quit, To
  <2>3. rcv'[c].late => closed /\ rcv'[c].pc \in {"idle", "turn", "check"}
    <3> USE DEF Receive, Quit, To, At
    <3>1. CASE Begin(c) BY <3>1 DEF Begin
    <3>2. CASE GiveUpTurn(c) \/ TakeTurn(c) BY <3>2 DEF GiveUpTurn, TakeTurn
    <3>3. CASE CheckClosed(c) BY <3>3 DEF CheckClosed
    <3>4. CASE Pop(c) \/ WaitEnds(c) BY <3>4 DEF Pop, WaitEnds
    <3>5. CASE Take(c) \/ Pump(c) BY <3>5 DEF Take, Pump
    <3> QED BY <1>3, <3>1, <3>2, <3>3, <3>4, <3>5 DEF Receiver
  <2> QED BY <2>1, <2>2, <2>3
<1>4. CASE UNCHANGED vars BY <1>4 DEF vars, histories
<1> QED BY <1>1, <1>2, <1>3, <1>4 DEF Next

-----------------------------------------------------------------------------
\* Every state of the stream and its channel has its type.
THEOREM TypeCorrect == Spec => []TypeOK
<1>1. FeedInv => TypeOK BY TypeSplit DEF FeedInv
<1> QED BY InitInv, InvStep, <1>1, PTL DEF Spec

\* However the reader's three steps and the receivers interleave, the stream is a Feed: what it
\* gives comes in order and once, and nothing is skipped that is not counted.
THEOREM FeedCorrect == Spec => Refines
<1>1. Init => FeedView!Init
  BY InitInv DEF Init, FeedView!Init, Missed, Resting
<1>2. FeedInv /\ [Next]_vars => [FeedView!Next]_(FeedView!vars) BY InvStep DEF FeedStep
<1> QED BY InitInv, InvStep, <1>1, <1>2, PTL DEF Spec, Refines, FeedView!Spec

\* A receive that begins after a close returned gives nothing of what is queued or decoded, however
\* many close and receive at once: the flag is set before the close returns, and looked at after a
\* receive has its turn.
THEOREM NothingAfterCloseCorrect == Spec => NothingAfterClose
<1>1. Init => LateStop BY DEF Init, LateStop
<1>2. LateStop => \A c \in Receivers : ~(rcv[c].late /\ At(c, "pop")) BY DEF LateStop, At
<1>3. FeedInv => RestType BY DEF FeedInv
<1>4. LateStop /\ [Next]_vars =>
        [\A c \in Receivers : rcv[c].late /\ At(c, "pop") => pending' = pending]_vars
  BY <1>2
<1> QED
  BY InitInv, InvStep, <1>1, <1>3, LateStep, <1>4, PTL DEF Spec, NothingAfterClose

-----------------------------------------------------------------------------
(* What is listed, each usage once.                                         *)

LEMMA Lowest ==
  ASSUME NEW S \in SUBSET Nat, S # {}
  PROVE  \E n \in S : \A m \in S : n <= m
<1> DEFINE R == OpToRel(<, Nat)
<1>1. IsWellFoundedOn(R, Nat) BY NatLessThanWellFounded
<1>2. \A m, n \in Nat : <<m, n>> \in R <=> m < n BY DEF OpToRel
<1>3. PICK n \in S : \A m \in S : ~(<<m, n>> \in R)
  <2> HIDE DEF R
  <2> QED BY <1>1, WFMin
<1>4. ASSUME NEW m \in S PROVE n <= m
  <2>1. m \in Nat /\ n \in Nat BY <1>3
  <2>2. ~(m < n) BY <1>2, <1>3, <2>1
  <2> QED BY ONLY <2>1, <2>2
<1> QED BY <1>4

Distinct(s) == \A i, j \in 1 .. Len(s) : s[i] = s[j] => i = j

\* What is picked of the first elements of a sequence: those in `kept`, and not again if `once`.
Fresher(kept, once, s) == kept \ (IF once THEN ToSet(s) ELSE {})
PickTo(s, kept, once, n, f) ==
  f = [i \in 0 .. n |->
         IF i = 0 THEN <<>>
         ELSE IF s[i] \in Fresher(kept, once, f[i - 1]) THEN Append(f[i - 1], s[i]) ELSE f[i - 1]]

LEMMA PickUpTo ==
  ASSUME NEW T, NEW s \in Seq(T), NEW kept, NEW once
  PROVE  \A n \in 0 .. Len(s) : \E f : PickTo(s, kept, once, n, f)
<1> DEFINE Bad == {n \in 0 .. Len(s) : ~ \E f : PickTo(s, kept, once, n, f)}
<1>1. Len(s) \in Nat OBVIOUS
<1> SUFFICES ASSUME Bad # {} PROVE FALSE OBVIOUS
<1>2. Bad \in SUBSET Nat BY <1>1
<1>3. PICK n \in Bad : \A m \in Bad : n <= m
  <2> HIDE DEF Bad
  <2> QED BY <1>2, Lowest
<1>4. n \in Nat /\ n <= Len(s) BY <1>1
<1>5. n # 0
  <2>1. PickTo(s, kept, once, 0, [i \in 0 .. 0 |-> <<>>]) BY DEF PickTo
  <2> QED BY <2>1
<1>6. n - 1 \in 0 .. Len(s) /\ n - 1 \notin Bad
  <2>1. n - 1 \in Nat /\ ~(n <= n - 1) /\ n - 1 \in 0 .. Len(s) BY ONLY <1>1, <1>4, <1>5
  <2> HIDE DEF Bad
  <2> QED BY <1>3, <2>1
<1>7. PICK f : PickTo(s, kept, once, n - 1, f) BY <1>6
<1> DEFINE newest == IF s[n] \in Fresher(kept, once, f[n - 1]) THEN Append(f[n - 1], s[n]) ELSE f[n - 1]
           g == [i \in 0 .. n |-> IF i = n THEN newest ELSE f[i]]
<1>8. PickTo(s, kept, once, n, g)
  <2> HIDE DEF newest
  <2>1. \A i \in 0 .. (n - 1) : g[i] = f[i] BY <1>4, <1>5
  <2>2. \A i \in 0 .. (n - 1) :
          f[i] = IF i = 0 THEN <<>>
                 ELSE IF s[i] \in Fresher(kept, once, f[i - 1]) THEN Append(f[i - 1], s[i]) ELSE f[i - 1]
    BY <1>7 DEF PickTo
  <2>3. g[n] = newest BY <1>4
  <2>4. ASSUME NEW i \in 0 .. n
        PROVE  g[i] = IF i = 0 THEN <<>>
                      ELSE IF s[i] \in Fresher(kept, once, g[i - 1]) THEN Append(g[i - 1], s[i]) ELSE g[i - 1]
    <3>1. CASE i = n
      <4>1. n - 1 \in 0 .. (n - 1) BY <1>4, <1>5
      <4>2. g[n - 1] = f[n - 1] BY <2>1, <4>1
      <4> QED BY <1>5, <2>3, <3>1, <4>2 DEF newest
    <3>2. CASE i # n
      <4>1. i \in 0 .. (n - 1) /\ (i # 0 => i - 1 \in 0 .. (n - 1)) BY <1>4, <3>2
      <4> HIDE DEF g
      <4> QED BY <2>1, <2>2, <4>1
    <3> QED BY <3>1, <3>2
  <2>5. g = [i \in 0 .. n |-> g[i]] OBVIOUS
  <2> HIDE DEF g
  <2> QED BY <2>4, <2>5 DEF PickTo
<1> QED BY <1>3, <1>8

LEMMA Longer ==
  ASSUME NEW T, NEW s \in Seq(T), NEW e \in T
  PROVE  /\ Append(s, e) \in Seq(T) /\ ToSet(Append(s, e)) = ToSet(s) \cup {e}
         /\ Distinct(s) /\ e \notin ToSet(s) => Distinct(Append(s, e))
<1> DEFINE t == Append(s, e)
<1>1. /\ t \in Seq(T) /\ Len(t) = Len(s) + 1 /\ Len(s) \in Nat /\ DOMAIN s = 1 .. Len(s)
      /\ DOMAIN t = 1 .. Len(s) + 1
      /\ \A i \in 1 .. Len(s) : t[i] = s[i]
      /\ t[Len(s) + 1] = e
  OBVIOUS
<1> HIDE DEF t
<1>2. 1 .. Len(s) + 1 = (1 .. Len(s)) \cup {Len(s) + 1} BY <1>1
<1>3. ToSet(t) = ToSet(s) \cup {e} BY <1>1, <1>2 DEF ToSet
<1>4. ASSUME Distinct(s), e \notin ToSet(s), NEW i \in 1 .. Len(t), NEW j \in 1 .. Len(t), t[i] = t[j]
      PROVE  i = j
  <2>1. \A k \in 1 .. Len(s) : s[k] # e BY <1>1, <1>4 DEF ToSet
  <2>2. CASE i \in 1 .. Len(s) /\ j \in 1 .. Len(s) BY <1>1, <1>4, <2>2 DEF Distinct
  <2>3. CASE i \in 1 .. Len(s) /\ j = Len(s) + 1 BY <1>1, <1>4, <2>1, <2>3
  <2>4. CASE i = Len(s) + 1 /\ j \in 1 .. Len(s) BY <1>1, <1>4, <2>1, <2>4
  <2>5. CASE i = Len(s) + 1 /\ j = Len(s) + 1 BY <2>5
  <2> QED BY <1>1, <1>2, <2>2, <2>3, <2>4, <2>5
<1> QED BY <1>1, <1>3, <1>4 DEF t, Distinct

LEMMA Picked ==
  ASSUME NEW T, NEW s \in Seq(T), NEW kept, NEW once \in BOOLEAN,
         NEW f, PickTo(s, kept, once, Len(s), f)
  PROVE  /\ f[Len(s)] \in Seq(T) /\ ToSet(f[Len(s)]) = kept \cap ToSet(s)
         /\ once \/ Distinct(s) => Distinct(f[Len(s)])
<1> DEFINE len == Len(s)
           First(n) == {s[i] : i \in 1 .. n}
<1>1. len \in Nat /\ len \in 0 .. len /\ DOMAIN s = 1 .. len /\ \A i \in 1 .. len : s[i] \in T OBVIOUS
<1>2. \A n \in 0 .. len :
        f[n] = IF n = 0 THEN <<>>
               ELSE IF s[n] \in Fresher(kept, once, f[n - 1]) THEN Append(f[n - 1], s[n]) ELSE f[n - 1]
  BY DEF PickTo
<1>3. Distinct(s) => \A n \in 1 .. len : s[n] \notin First(n - 1)
  <2> SUFFICES ASSUME Distinct(s), NEW n \in 1 .. len, NEW i \in 1 .. (n - 1) PROVE s[i] # s[n] OBVIOUS
  <2>1. i \in 1 .. len /\ i # n BY <1>1
  <2> QED BY <2>1 DEF Distinct
<1> HIDE DEF len
<1> DEFINE Fine(n) == /\ f[n] \in Seq(T) /\ ToSet(f[n]) = kept \cap First(n)
                      /\ once \/ Distinct(s) => Distinct(f[n])
           Bad == {n \in 0 .. len : ~Fine(n)}
<1>4. Bad = {}
  <2> SUFFICES ASSUME Bad # {} PROVE FALSE OBVIOUS
  <2>1. Bad \in SUBSET Nat BY <1>1
  <2>2. PICK n \in Bad : \A m \in Bad : n <= m
    <3> HIDE DEF Bad
    <3> QED BY <2>1, Lowest
  <2>3. n \in Nat /\ n <= len /\ n \in 0 .. len /\ ~Fine(n) BY <1>1
  <2>4. n # 0
    <3>1. f[0] = <<>> BY <1>1, <1>2
    <3>2. First(0) = {} OBVIOUS
    <3>3. <<>> \in Seq(T) /\ ToSet(<<>>) = {} /\ Distinct(<<>>) BY DEF ToSet, Distinct
    <3> HIDE DEF First
    <3>4. Fine(0) BY <3>1, <3>2, <3>3
    <3> QED BY ONLY <2>3, <3>4
  <2>5. n - 1 \in 0 .. len /\ n - 1 \notin Bad
    <3>1. n - 1 \in Nat /\ ~(n <= n - 1) /\ n - 1 \in 0 .. len BY ONLY <1>1, <2>3, <2>4
    <3> HIDE DEF Bad
    <3> QED BY <2>2, <3>1
  <2>6. Fine(n - 1) BY <2>5
  <2>7. n \in 1 .. len /\ s[n] \in T
    <3>1. n \in 1 .. len BY ONLY <1>1, <2>3, <2>4
    <3> QED BY <1>1, <3>1
  <2> DEFINE was == f[n - 1]
  <2>8. f[n] = IF s[n] \in Fresher(kept, once, was) THEN Append(was, s[n]) ELSE was
    BY <1>2, <2>3, <2>4
  <2>9. First(n) = First(n - 1) \cup {s[n]}
    <3>1. 1 .. n = (1 .. (n - 1)) \cup {n} BY ONLY <2>3, <2>4
    <3> QED BY <3>1
  <2>10. Distinct(s) => s[n] \notin First(n - 1) BY <1>3, <2>7
  <2> HIDE DEF First
  <2>11. /\ was \in Seq(T) /\ ToSet(was) = kept \cap First(n - 1)
         /\ once \/ Distinct(s) => Distinct(was)
    BY <2>6
  <2> HIDE DEF was
  <2>12. Fine(n)
    <3>1. CASE s[n] \in Fresher(kept, once, was)
      <4>1. f[n] = Append(was, s[n]) BY <2>8, <3>1
      <4>2. s[n] \in kept BY <3>1 DEF Fresher
      <4>3. f[n] \in Seq(T) /\ ToSet(f[n]) = ToSet(was) \cup {s[n]}
        BY <2>7, <2>11, <4>1, Longer
      <4>4. ToSet(f[n]) = kept \cap First(n) BY <2>9, <2>11, <4>2, <4>3
      <4>5. once \/ Distinct(s) => s[n] \notin ToSet(was) BY <2>10, <2>11, <3>1 DEF Fresher
      <4>6. once \/ Distinct(s) => Distinct(f[n]) BY <2>7, <2>11, <4>1, <4>5, Longer
      <4> QED BY <4>3, <4>4, <4>6
    <3>2. CASE s[n] \notin Fresher(kept, once, was)
      <4>1. f[n] = was BY <2>8, <3>2
      <4>2. s[n] \notin kept \/ s[n] \in ToSet(was) BY <3>2 DEF Fresher
      <4>3. kept \cap First(n) = kept \cap First(n - 1) BY <2>9, <2>11, <4>2
      <4> QED BY <2>11, <4>1, <4>3
    <3> QED BY <3>1, <3>2
  <2> QED BY ONLY <2>3, <2>12
<1>5. Fine(len) BY <1>1, <1>4
<1>6. First(len) = ToSet(s) BY <1>1 DEF ToSet
<1> HIDE DEF First
<1> QED BY <1>5, <1>6 DEF len

LEMMA Retained ==
  ASSUME NEW T, NEW s \in Seq(T), NEW kept
  PROVE  /\ Retain(s, kept) \in Seq(T) /\ ToSet(Retain(s, kept)) = kept \cap ToSet(s)
         /\ Distinct(s) => Distinct(Retain(s, kept))
<1> DEFINE Is(f) == f = [n \in 0 .. Len(s) |->
                           IF n = 0 THEN <<>>
                           ELSE IF s[n] \in kept THEN Append(f[n - 1], s[n]) ELSE f[n - 1]]
<1>1. Len(s) \in 0 .. Len(s) OBVIOUS
<1>2. \A f : PickTo(s, kept, FALSE, Len(s), f) <=> Is(f) BY DEF PickTo, Fresher
<1>3. \E f : Is(f) BY <1>1, <1>2, PickUpTo
<1>4. PICK f : Is(f) /\ Retain(s, kept) = f[Len(s)] BY <1>3 DEF Retain
<1> HIDE DEF Is
<1>5. PICK once \in BOOLEAN : once = FALSE /\ PickTo(s, kept, once, Len(s), f) BY <1>2, <1>4
<1>6. /\ f[Len(s)] \in Seq(T) /\ ToSet(f[Len(s)]) = kept \cap ToSet(s)
      /\ once \/ Distinct(s) => Distinct(f[Len(s)])
  BY ONLY <1>5, s \in Seq(T), Picked
<1> QED BY <1>4, <1>6

LEMMA ListedIs ==
  ASSUME NEW s \in Seq(Usages)
  PROVE  /\ Listed(s) \in Seq(Watched) /\ ToSet(Listed(s)) = ToSet(s) \cap Watched
         /\ Distinct(Listed(s))
<1> DEFINE Is(f) == f = [n \in 0 .. Len(s) |->
                           IF n = 0 THEN <<>>
                           ELSE IF s[n] \in Watched \ ToSet(f[n - 1]) THEN Append(f[n - 1], s[n])
                           ELSE f[n - 1]]
<1>1. Len(s) \in 0 .. Len(s) OBVIOUS
<1>2. \A f : PickTo(s, Watched, TRUE, Len(s), f) <=> Is(f) BY DEF PickTo, Fresher
<1>3. \E f : Is(f) BY <1>1, <1>2, PickUpTo
<1>4. PICK f : Is(f) /\ Listed(s) = f[Len(s)] BY <1>3 DEF Listed
<1> HIDE DEF Is
<1>5. PICK once \in BOOLEAN : once = TRUE /\ PickTo(s, Watched, once, Len(s), f) BY <1>2, <1>4
<1>6. /\ f[Len(s)] \in Seq(Usages) /\ ToSet(f[Len(s)]) = Watched \cap ToSet(s)
      /\ once \/ Distinct(s) => Distinct(f[Len(s)])
  BY ONLY <1>5, s \in Seq(Usages), Picked
<1>7. Listed(s) \in Seq(Usages) /\ ToSet(Listed(s)) = Watched \cap ToSet(s) /\ Distinct(Listed(s))
  BY <1>4, <1>5, <1>6
<1>8. \A i \in 1 .. Len(Listed(s)) : Listed(s)[i] \in Watched BY <1>7 DEF ToSet
<1> QED BY <1>7, <1>8

-----------------------------------------------------------------------------
(* Where decoded edges lead.                                                *)

PendingEdge == {Motion} \cup ({"press", "release"} \X Usages)

\* An edge leads from what is pressed before it to what is pressed after it.
EdgeStep(e, s, t) ==
  \/ e = Motion /\ t = s
  \/ \E u \in Usages : e = <<"press", u>> /\ u \notin s /\ t = s \cup {u}
  \/ \E u \in Usages : e = <<"release", u>> /\ u \in s /\ t = s \ {u}

Path(p, g) ==
  /\ g \in [0 .. Len(p) -> SUBSET Usages]
  /\ \A i \in 1 .. Len(p) : EdgeStep(p[i], g[i - 1], g[i])

Leads(p, from, to) == \E g : Path(p, g) /\ g[0] = from /\ g[Len(p)] = to

LEMMA LeadsNowhere ==
  ASSUME NEW S \in SUBSET Usages
  PROVE  Leads(<<>>, S, S)
<1> DEFINE g == [i \in 0 .. 0 |-> S]
<1>1. Len(<<>>) = 0 OBVIOUS
<1>2. Path(<<>>, g) /\ g[0] = S BY DEF Path
<1> QED BY <1>1, <1>2 DEF Leads

LEMMA LeadsOn ==
  ASSUME NEW p \in Seq(PendingEdge), p # <<>>, NEW from, NEW to, Leads(p, from, to)
  PROVE  \E via \in SUBSET Usages : EdgeStep(Head(p), from, via) /\ Leads(Tail(p), via, to)
<1>1. PICK g : Path(p, g) /\ g[0] = from /\ g[Len(p)] = to BY DEF Leads
<1> DEFINE q == Tail(p)
           h == [i \in 0 .. Len(p) - 1 |-> g[i + 1]]
<1>2. /\ Len(p) \in Nat \ {0} /\ Head(p) = p[1] /\ Len(q) = Len(p) - 1
      /\ \A i \in 1 .. Len(p) - 1 : q[i] = p[i + 1]
  OBVIOUS
<1> HIDE DEF q
<1>3. g \in [0 .. Len(p) -> SUBSET Usages] /\ \A i \in 1 .. Len(p) : EdgeStep(p[i], g[i - 1], g[i])
  BY <1>1 DEF Path
<1>4. h \in [0 .. Len(q) -> SUBSET Usages]
  <2>1. \A i \in 0 .. Len(p) - 1 : i + 1 \in 0 .. Len(p) BY <1>2
  <2> QED BY <1>2, <1>3, <2>1
<1>5. \A i \in 0 .. Len(p) - 1 : h[i] = g[i + 1] OBVIOUS
<1> HIDE DEF h
<1>6. ASSUME NEW i \in 1 .. Len(q) PROVE EdgeStep(q[i], h[i - 1], h[i])
  <2>1. /\ i \in 1 .. Len(p) - 1 /\ i \in 0 .. Len(p) - 1 /\ i - 1 \in 0 .. Len(p) - 1
        /\ (i - 1) + 1 = i /\ i + 1 \in 1 .. Len(p) /\ (i + 1) - 1 = i
    BY <1>2
  <2>2. q[i] = p[i + 1] /\ h[i] = g[i + 1] /\ h[i - 1] = g[i] BY <1>2, <1>5, <2>1
  <2>3. EdgeStep(p[i + 1], g[(i + 1) - 1], g[i + 1]) BY <1>3, <2>1
  <2> QED BY ONLY <2>1, <2>2, <2>3
<1>7. EdgeStep(Head(p), from, g[1]) /\ g[1] \in SUBSET Usages
  <2>1. 1 \in 1 .. Len(p) /\ 1 - 1 = 0 /\ 1 \in 0 .. Len(p) BY <1>2
  <2>2. EdgeStep(p[1], g[1 - 1], g[1]) BY <1>3, <2>1
  <2> QED BY <1>1, <1>2, <1>3, <2>1, <2>2
<1>8. h[0] = g[1] /\ h[Len(q)] = to
  <2>1. 0 \in 0 .. Len(p) - 1 /\ Len(p) - 1 \in 0 .. Len(p) - 1 /\ (Len(p) - 1) + 1 = Len(p) BY <1>2
  <2> QED BY <1>1, <1>2, <1>5, <2>1
<1>9. Leads(q, g[1], to) BY <1>4, <1>6, <1>8 DEF Leads, Path
<1> QED BY <1>7, <1>9 DEF q

LEMMA LeadsFurther ==
  ASSUME NEW p \in Seq(PendingEdge), NEW e \in PendingEdge, NEW from, NEW via, NEW to \in SUBSET Usages,
         Leads(p, from, via), EdgeStep(e, via, to)
  PROVE  Append(p, e) \in Seq(PendingEdge) /\ Leads(Append(p, e), from, to)
<1>1. PICK g : Path(p, g) /\ g[0] = from /\ g[Len(p)] = via BY DEF Leads
<1> DEFINE q == Append(p, e)
           n == Len(p) + 1
           h == [i \in 0 .. n |-> IF i = n THEN to ELSE g[i]]
<1>2. /\ q \in Seq(PendingEdge) /\ Len(q) = n /\ Len(p) \in Nat /\ q[n] = e
      /\ \A i \in 1 .. Len(p) : q[i] = p[i]
  OBVIOUS
<1> HIDE DEF q
<1>3. g \in [0 .. Len(p) -> SUBSET Usages] /\ \A i \in 1 .. Len(p) : EdgeStep(p[i], g[i - 1], g[i])
  BY <1>1 DEF Path
<1>4. h \in [0 .. Len(q) -> SUBSET Usages]
  <2>1. \A i \in 0 .. n : i # n => i \in 0 .. Len(p) BY <1>2
  <2> QED BY <1>2, <1>3, <2>1
<1>5. (\A i \in 0 .. Len(p) : h[i] = g[i]) /\ h[n] = to BY <1>2
<1> HIDE DEF h
<1>6. ASSUME NEW i \in 1 .. Len(q) PROVE EdgeStep(q[i], h[i - 1], h[i])
  <2>1. CASE i = n
    <3>1. i - 1 = Len(p) /\ Len(p) \in 0 .. Len(p) BY <1>2, <2>1
    <3>2. h[i - 1] = via BY <1>1, <1>5, <3>1
    <3> QED BY <1>2, <1>5, <2>1, <3>2
  <2>2. CASE i # n
    <3>1. i \in 1 .. Len(p) /\ i \in 0 .. Len(p) /\ i - 1 \in 0 .. Len(p) BY <1>2, <2>2
    <3> QED BY <1>2, <1>3, <1>5, <3>1
  <2> QED BY <2>1, <2>2
<1>7. h[0] = from /\ h[Len(q)] = to
  <2>1. 0 \in 0 .. Len(p) BY <1>2
  <2> QED BY <1>1, <1>2, <1>5, <2>1
<1> QED BY <1>2, <1>4, <1>6, <1>7 DEF q, Leads, Path

\* What an edge of each usage of a list leads to.
Moved(edge, s, of) == IF edge = "press" THEN s \cup of ELSE s \ of

LEMMA LeadsByEdges ==
  ASSUME NEW p \in Seq(PendingEdge), NEW from, NEW via \in SUBSET Usages, Leads(p, from, via),
         NEW edge \in {"press", "release"}, NEW s \in Seq(Usages), Distinct(s),
         IF edge = "press" THEN ToSet(s) \cap via = {} ELSE ToSet(s) \subseteq via
  PROVE  /\ p \o EdgesOf(edge, s) \in Seq(PendingEdge)
         /\ Leads(p \o EdgesOf(edge, s), from, Moved(edge, via, ToSet(s)))
<1> DEFINE len == Len(s)
           First(n) == {s[i] : i \in 1 .. n}
           E(n) == [i \in 1 .. n |-> <<edge, s[i]>>]
           Fine(n) == p \o E(n) \in Seq(PendingEdge) /\ Leads(p \o E(n), from, Moved(edge, via, First(n)))
           Bad == {n \in 0 .. len : ~Fine(n)}
<1>1. len \in Nat /\ len \in 0 .. len /\ DOMAIN s = 1 .. len /\ \A i \in 1 .. len : s[i] \in Usages OBVIOUS
<1>2. EdgesOf(edge, s) = E(len) /\ ToSet(s) = First(len) BY <1>1 DEF EdgesOf, ToSet
<1>3. \A n \in 1 .. len : s[n] \notin First(n - 1)
  <2> SUFFICES ASSUME NEW n \in 1 .. len, NEW i \in 1 .. (n - 1) PROVE s[i] # s[n] OBVIOUS
  <2>1. i \in 1 .. len /\ i # n BY <1>1
  <2> QED BY <2>1 DEF Distinct
<1>4. \A n \in 1 .. len : IF edge = "press" THEN s[n] \notin via ELSE s[n] \in via
  BY <1>1 DEF ToSet
<1> HIDE DEF len
<1>5. Bad = {}
  <2> SUFFICES ASSUME Bad # {} PROVE FALSE OBVIOUS
  <2>1. Bad \in SUBSET Nat BY <1>1
  <2>2. PICK n \in Bad : \A m \in Bad : n <= m
    <3> HIDE DEF Bad
    <3> QED BY <2>1, Lowest
  <2>3. n \in Nat /\ n <= len /\ n \in 0 .. len /\ ~Fine(n) BY <1>1
  <2>4. n # 0
    <3>1. E(0) = <<>> /\ First(0) = {} OBVIOUS
    <3>2. p \o <<>> = p OBVIOUS
    <3>3. Moved(edge, via, {}) = via BY DEF Moved
    <3> HIDE DEF E, First
    <3>4. Fine(0) BY <3>1, <3>2, <3>3
    <3> QED BY ONLY <2>3, <3>4
  <2>5. n - 1 \in 0 .. len /\ n - 1 \notin Bad
    <3>1. n - 1 \in Nat /\ ~(n <= n - 1) /\ n - 1 \in 0 .. len BY ONLY <1>1, <2>3, <2>4
    <3> HIDE DEF Bad
    <3> QED BY <2>2, <3>1
  <2>6. Fine(n - 1) BY <2>5
  <2>7. n \in 1 .. len /\ s[n] \in Usages
    <3>1. n \in 1 .. len BY ONLY <1>1, <2>3, <2>4
    <3> QED BY <1>1, <3>1
  <2> DEFINE e == <<edge, s[n]>>
             before == First(n - 1)
             was == Moved(edge, via, before)
             is == Moved(edge, via, First(n))
  <2>8. First(n) = before \cup {s[n]}
    <3>1. 1 .. n = (1 .. (n - 1)) \cup {n} BY ONLY <2>3, <2>4
    <3> QED BY <3>1
  <2>9. p \o E(n) = Append(p \o E(n - 1), e)
    <3>1. n - 1 \in Nat /\ n \in Nat /\ Len(p) \in Nat BY ONLY <2>3, <2>4, p \in Seq(PendingEdge)
    <3>2. \A i \in 1 .. n : i \in 1 .. len BY ONLY <1>1, <2>3
    <3>3. E(n - 1) \in Seq(PendingEdge) /\ E(n) \in Seq(PendingEdge) /\ e \in PendingEdge
      <4>1. \A i \in 1 .. n : <<edge, s[i]>> \in PendingEdge BY <1>1, <3>2 DEF PendingEdge
      <4>2. \A i \in 1 .. n - 1 : i \in 1 .. n BY ONLY <3>1
      <4>3. n \in 1 .. n BY ONLY <3>1, <2>4, <2>3
      <4> QED BY <3>1, <4>1, <4>2, <4>3
    <3>4. E(n) = Append(E(n - 1), e)
      <4> DEFINE a == Append(E(n - 1), e)
      <4>1. Len(E(n - 1)) = n - 1 /\ Len(E(n)) = n BY ONLY <3>1
      <4>2. a \in Seq(PendingEdge) /\ Len(a) = (n - 1) + 1 /\ a[(n - 1) + 1] = e
            /\ \A i \in 1 .. n - 1 : a[i] = E(n - 1)[i]
        <5> HIDE DEF E, e
        <5> QED BY ONLY <3>3, <4>1
      <4>3. (n - 1) + 1 = n BY ONLY <3>1
      <4>4. \A i \in 1 .. n - 1 : E(n - 1)[i] = E(n)[i] BY ONLY <3>1
      <4>5. E(n)[n] = e BY ONLY <3>1, <2>3, <2>4
      <4>6. \A i \in 1 .. n : i = n \/ i \in 1 .. n - 1 BY ONLY <3>1
      <4> HIDE DEF E, e, a
      <4>7. Len(a) = n /\ \A i \in 1 .. n : a[i] = E(n)[i] BY ONLY <4>2, <4>3, <4>4, <4>5, <4>6
      <4>8. a = E(n) BY ONLY <3>3, <4>1, <4>2, <4>7, SeqEqual
      <4> QED BY <4>8 DEF a
    <3> HIDE DEF E, e
    <3>5. p \o Append(E(n - 1), e) = Append(p \o E(n - 1), e)
      BY ONLY <3>3, p \in Seq(PendingEdge)
    <3> QED BY ONLY <3>4, <3>5
  <2>10. EdgeStep(e, was, is) /\ is \in SUBSET Usages /\ e \in PendingEdge
    <3>1. s[n] \notin before /\ (IF edge = "press" THEN s[n] \notin via ELSE s[n] \in via)
      BY <1>3, <1>4, <2>7
    <3>2. is = Moved(edge, via, before \cup {s[n]}) BY <2>8
    <3>3. before \subseteq Usages
      <4>1. \A i \in 1 .. (n - 1) : i \in 1 .. len BY ONLY <1>1, <2>3
      <4> QED BY <1>1, <4>1
    <3> HIDE DEF before, First
    <3>4. CASE edge = "press"
      <4>1. was = via \cup before /\ is = was \cup {s[n]} BY <3>2, <3>4 DEF Moved
      <4>2. s[n] \notin was BY <3>1, <3>4, <4>1
      <4>3. is \in SUBSET Usages BY <3>3, <4>1, <2>7
      <4> HIDE DEF was, is
      <4> QED BY <2>7, <3>4, <4>1, <4>2, <4>3 DEF EdgeStep, PendingEdge
    <3>5. CASE edge = "release"
      <4>1. was = via \ before /\ is = was \ {s[n]} BY <3>2, <3>5 DEF Moved
      <4>2. s[n] \in was BY <3>1, <3>5, <4>1
      <4>3. is \in SUBSET Usages BY <4>1
      <4> HIDE DEF was, is
      <4> QED BY <2>7, <3>5, <4>1, <4>2, <4>3 DEF EdgeStep, PendingEdge
    <3> QED BY <3>4, <3>5
  <2>11. p \o E(n - 1) \in Seq(PendingEdge) /\ Leads(p \o E(n - 1), from, was) BY <2>6
  <2> HIDE DEF e, was, is, E, First
  <2>12. p \o E(n) \in Seq(PendingEdge) /\ Leads(p \o E(n), from, is)
    BY ONLY <2>9, <2>10, <2>11, LeadsFurther
  <2>13. Fine(n) BY <2>12 DEF is
  <2> QED BY ONLY <2>3, <2>13
<1>6. Fine(len) BY <1>1, <1>5
<1> HIDE DEF E, First
<1> QED BY <1>2, <1>6

-----------------------------------------------------------------------------
(* What the consumer believes pressed.                                      *)

EdgesAt(i, u) == {j \in 1 .. i : pending[j] # Motion /\ pending[j][2] = u}

\* The consumer, once it has every edge up to one, believes what the edges lead to.
LEMMA AfterIs ==
  ASSUME pending \in Seq(PendingEdge), NEW g, Path(pending, g), g[0] = app
  PROVE  \A i \in 0 .. Len(pending) : After(i) = g[i]
<1> DEFINE len == Len(pending)
           Bad == {n \in 0 .. len : After(n) # g[n]}
<1>1. len \in Nat /\ \A i \in 1 .. len : pending[i] \in PendingEdge OBVIOUS
<1>2. g \in [0 .. len -> SUBSET Usages] /\ \A i \in 1 .. len : EdgeStep(pending[i], g[i - 1], g[i])
  BY DEF Path
<1> HIDE DEF len
<1> SUFFICES ASSUME Bad # {} PROVE FALSE BY DEF len
<1>3. Bad \in SUBSET Nat BY <1>1
<1>4. PICK n \in Bad : \A m \in Bad : n <= m
  <2> HIDE DEF Bad
  <2> QED BY <1>3, Lowest
<1>5. n \in Nat /\ n <= len /\ n \in 0 .. len /\ After(n) # g[n] BY <1>1
<1>6. n # 0
  <2>1. \A u \in Usages : EdgesAt(0, u) = {} BY DEF EdgesAt
  <2>2. After(0) = {u \in Usages : u \in app} BY <2>1 DEF After, EdgesAt
  <2>3. g[0] \in SUBSET Usages BY <1>1, <1>2
  <2>4. After(0) = g[0] BY <2>2, <2>3
  <2> QED BY <1>5, <2>4
<1>7. n - 1 \in 0 .. len /\ n - 1 \notin Bad
  <2>1. n - 1 \in Nat /\ ~(n <= n - 1) /\ n - 1 \in 0 .. len BY ONLY <1>1, <1>5, <1>6
  <2> HIDE DEF Bad
  <2> QED BY <1>4, <2>1
<1>8. After(n - 1) = g[n - 1] BY <1>7
<1>9. n \in 1 .. len /\ n - 1 \in 0 .. len BY ONLY <1>1, <1>5, <1>6
<1>10. EdgeStep(pending[n], g[n - 1], g[n]) /\ g[n] \in SUBSET Usages /\ g[n - 1] \in SUBSET Usages
  BY <1>2, <1>5, <1>9
<1> DEFINE e == pending[n]
<1>11. e \in PendingEdge BY <1>1, <1>9
<1>12. ASSUME NEW u \in Usages, e = Motion \/ e[2] # u PROVE u \in After(n) <=> u \in After(n - 1)
  <2>1. EdgesAt(n, u) = EdgesAt(n - 1, u)
    <3>1. \A j \in 1 .. n : j \in 1 .. n - 1 \/ j = n BY ONLY <1>5
    <3>2. \A j \in 1 .. n - 1 : j \in 1 .. n BY ONLY <1>5
    <3> QED BY <1>12, <3>1, <3>2 DEF EdgesAt
  <2>2. \A i : u \in After(i) <=>
               IF EdgesAt(i, u) = {} THEN u \in app
               ELSE pending[CHOOSE j \in EdgesAt(i, u) : \A k \in EdgesAt(i, u) : k <= j][1] = "press"
    BY DEF After, EdgesAt
  <2> QED BY <2>1, <2>2
<1>13. ASSUME NEW u \in Usages, e # Motion, e[2] = u PROVE u \in After(n) <=> e[1] = "press"
  <2> DEFINE of == EdgesAt(n, u)
  <2>1. n \in of BY <1>5, <1>9, <1>13 DEF EdgesAt
  <2>2. \A k \in of : k <= n /\ k \in Nat BY <1>5 DEF EdgesAt
  <2>3. u \in After(n) <=>
          IF of = {} THEN u \in app
          ELSE pending[CHOOSE j \in of : \A k \in of : k <= j][1] = "press"
    BY DEF After, EdgesAt
  <2> HIDE DEF of
  <2>4. (CHOOSE j \in of : \A k \in of : k <= j) = n
    <3>1. \A j \in of : (\A k \in of : k <= j) => j = n BY <1>5, <2>1, <2>2
    <3> QED BY <2>1, <2>2, <3>1
  <2> QED BY <2>1, <2>3, <2>4
<1> HIDE DEF e
<1>14. After(n) \subseteq Usages BY DEF After
<1>15. Motion # <<"press", 0>> /\ \A w, u : <<w, u>> # Motion BY DEF Motion
<1>16. EdgeStep(e, g[n - 1], g[n]) BY <1>10 DEF e
<1> HIDE DEF Bad
<1>17. After(n) = g[n]
  <2>1. CASE e = Motion /\ g[n] = g[n - 1] BY <1>8, <1>10, <1>12, <1>14, <2>1
  <2>2. ASSUME NEW u \in Usages, e = <<"press", u>>, g[n] = g[n - 1] \cup {u} PROVE After(n) = g[n]
    <3>1. e # Motion /\ e[1] = "press" /\ e[2] = u BY <1>15, <2>2
    <3>2. u \in After(n) BY <1>13, <3>1
    <3>3. \A v \in Usages \ {u} : v \in After(n) <=> v \in g[n - 1] BY <1>8, <1>12, <3>1
    <3> QED BY <1>10, <1>14, <2>2, <3>2, <3>3
  <2>3. ASSUME NEW u \in Usages, e = <<"release", u>>, g[n] = g[n - 1] \ {u} PROVE After(n) = g[n]
    <3>1. e # Motion /\ e[1] # "press" /\ e[2] = u BY <1>15, <2>3
    <3>2. u \notin After(n) BY <1>13, <3>1
    <3>3. \A v \in Usages \ {u} : v \in After(n) <=> v \in g[n - 1] BY <1>8, <1>12, <3>1
    <3> QED BY <1>10, <1>14, <2>3, <3>2, <3>3
  <2> QED BY <1>16, <2>1, <2>2, <2>3 DEF EdgeStep
<1> QED BY <1>5, <1>17

\* What is decoded leads from what the consumer believes to what the decoder holds.
Decoder ==
  /\ held \in Seq(Watched) /\ Distinct(held)
  /\ app \in SUBSET Usages
  /\ pending \in Seq(PendingEdge)
  /\ Leads(pending, app, ToSet(held))

LEMMA DecoderAlternates == Decoder => EdgesAlternate
<1> SUFFICES ASSUME Decoder PROVE EdgesAlternate OBVIOUS
<1>1. PICK g : Path(pending, g) /\ g[0] = app /\ g[Len(pending)] = ToSet(held) BY DEF Decoder, Leads
<1>2. \A i \in 0 .. Len(pending) : After(i) = g[i] BY <1>1, AfterIs DEF Decoder
<1>3. Len(pending) \in Nat BY DEF Decoder
<1>4. After(Len(pending)) = ToSet(held) BY <1>1, <1>2, <1>3
<1>5. ASSUME NEW i \in 1 .. Len(pending), pending[i] # Motion
      PROVE  pending[i][1] = "press" <=> pending[i][2] \notin After(i - 1)
  <2>1. EdgeStep(pending[i], g[i - 1], g[i]) BY <1>1 DEF Path
  <2>2. After(i - 1) = g[i - 1]
    <3>1. i - 1 \in 0 .. Len(pending) BY <1>3
    <3> QED BY <1>2, <3>1
  <2> QED BY <1>5, <2>1, <2>2 DEF EdgeStep
<1>6. DOMAIN pending = 1 .. Len(pending) BY DEF Decoder
<1> QED BY <1>4, <1>5, <1>6 DEF EdgesAlternate

LEMMA InitDecoder == Init => Decoder
<1> SUFFICES ASSUME Init PROVE Decoder OBVIOUS
<1>1. held = <<>> /\ pending = <<>> /\ app = {} BY DEF Init
<1>2. ToSet(<<>>) = {} /\ Distinct(<<>>) BY DEF ToSet, Distinct
<1>3. Leads(<<>>, {}, {}) BY LeadsNowhere
<1> QED BY <1>1, <1>2, <1>3 DEF Decoder

\* An edge is received.
LEMMA PopDecoder ==
  ASSUME Decoder, pending # <<>>, pending' = Tail(pending), held' = held,
         LET e == Head(pending)
         IN  app' = CASE e[1] = "press" -> app \cup {e[2]}
                      [] e[1] = "release" -> app \ {e[2]}
                      [] OTHER -> app
  PROVE  Decoder'
<1> DEFINE e == Head(pending)
<1>1. PICK via \in SUBSET Usages : EdgeStep(e, app, via) /\ Leads(Tail(pending), via, ToSet(held))
  BY LeadsOn DEF Decoder
<1>2. app' = CASE e[1] = "press" -> app \cup {e[2]}
               [] e[1] = "release" -> app \ {e[2]}
               [] OTHER -> app
  OBVIOUS
<1> HIDE DEF e
<1>3. app' = via
  <2>1. CASE e = Motion /\ via = app
    <3>1. e[1] # "press" /\ e[1] # "release" BY <2>1 DEF Motion
    <3> QED BY <1>2, <2>1, <3>1
  <2>2. ASSUME NEW u \in Usages, e = <<"press", u>>, via = app \cup {u} PROVE app' = via
    <3>1. e[1] = "press" /\ e[2] = u /\ e[1] # "release" BY <2>2
    <3> QED BY <1>2, <2>2, <3>1
  <2>3. ASSUME NEW u \in Usages, e = <<"release", u>>, via = app \ {u} PROVE app' = via
    <3>1. e[1] = "release" /\ e[2] = u /\ e[1] # "press" BY <2>3
    <3> QED BY <1>2, <2>3, <3>1
  <2> QED BY <1>1, <2>1, <2>2, <2>3 DEF EdgeStep
<1>4. Tail(pending) \in Seq(PendingEdge) BY DEF Decoder
<1> QED BY <1>1, <1>3, <1>4 DEF Decoder

\* A snapshot is decoded.
LEMMA DecodeDecoder ==
  ASSUME Decoder, NEW ev \in Seq(Usages), Decode(ev), app' = app
  PROVE  Decoder' /\ ToSet(held') = ToSet(ev) \cap Watched
<1> DEFINE now == Listed(ev)
           up == Retain(held, ToSet(held) \ ToSet(now))
           down == Retain(now, ToSet(now) \ ToSet(held))
<1>1. /\ now \in Seq(Watched) /\ Distinct(now) /\ ToSet(now) = ToSet(ev) \cap Watched
  BY ListedIs
<1>2. held' = now /\ pending' = pending \o EdgesOf("release", up) \o EdgesOf("press", down)
  BY DEF Decode
<1> HIDE DEF now
<1>3. held \in Seq(Watched) /\ Distinct(held) BY DEF Decoder
<1>4. \A q \in Seq(Watched) : q \in Seq(Usages) /\ ToSet(q) \in SUBSET Usages
  BY WatchedAssumption DEF ToSet
<1>5. up \in Seq(Watched) /\ Distinct(up) /\ ToSet(up) = ToSet(held) \ ToSet(now)
  BY <1>3, Retained
<1>6. down \in Seq(Watched) /\ Distinct(down) /\ ToSet(down) = ToSet(now) \ ToSet(held)
  BY <1>1, Retained
<1> HIDE DEF up, down
<1> DEFINE p == pending \o EdgesOf("release", up)
           mid == Moved("release", ToSet(held), ToSet(up))
<1>7. p \in Seq(PendingEdge) /\ Leads(p, app, mid)
  <2>1. \E edge \in {"press", "release"} : edge = "release" OBVIOUS
  <2> PICK edge \in {"press", "release"} : edge = "release" BY <2>1
  <2>2. IF edge = "press" THEN ToSet(up) \cap ToSet(held) = {} ELSE ToSet(up) \subseteq ToSet(held)
    BY <1>5
  <2>3. /\ pending \in Seq(PendingEdge) /\ Leads(pending, app, ToSet(held))
        /\ ToSet(held) \in SUBSET Usages /\ up \in Seq(Usages) /\ Distinct(up)
    BY <1>3, <1>4, <1>5 DEF Decoder
  <2>4. /\ pending \o EdgesOf(edge, up) \in Seq(PendingEdge)
        /\ Leads(pending \o EdgesOf(edge, up), app, Moved(edge, ToSet(held), ToSet(up)))
    BY ONLY <2>2, <2>3, edge \in {"press", "release"}, LeadsByEdges
  <2> QED BY <2>4
<1>8. mid = ToSet(held) \cap ToSet(now) /\ mid \in SUBSET Usages BY <1>3, <1>4, <1>5 DEF Moved
<1> HIDE DEF p, mid
<1> DEFINE q == p \o EdgesOf("press", down)
           to == Moved("press", mid, ToSet(down))
<1>9. q \in Seq(PendingEdge) /\ Leads(q, app, to)
  <2>1. \E edge \in {"press", "release"} : edge = "press" OBVIOUS
  <2> PICK edge \in {"press", "release"} : edge = "press" BY <2>1
  <2>2. IF edge = "press" THEN ToSet(down) \cap mid = {} ELSE ToSet(down) \subseteq mid
    BY <1>6, <1>8
  <2>3. down \in Seq(Usages) /\ Distinct(down) BY <1>4, <1>6
  <2>4. /\ p \o EdgesOf(edge, down) \in Seq(PendingEdge)
        /\ Leads(p \o EdgesOf(edge, down), app, Moved(edge, mid, ToSet(down)))
    BY ONLY <1>7, <1>8, <2>2, <2>3, edge \in {"press", "release"}, LeadsByEdges
  <2> QED BY <2>4
<1>10. to = ToSet(now) BY <1>6, <1>8 DEF Moved
<1> HIDE DEF q, to
<1>11. pending' = q BY <1>2 DEF p, q
<1> QED BY <1>1, <1>2, <1>9, <1>10, <1>11 DEF Decoder

\* Motion is an edge of no usage.
LEMMA MotionDecoder ==
  ASSUME Decoder, pending' \in {pending, Append(pending, Motion)}, held' = held, app' = app
  PROVE  Decoder'
<1>1. ToSet(held) \in SUBSET Usages BY WatchedAssumption DEF Decoder, ToSet
<1>2. Motion \in PendingEdge BY DEF PendingEdge
<1>3. EdgeStep(Motion, ToSet(held), ToSet(held)) BY DEF EdgeStep
<1>4. /\ Append(pending, Motion) \in Seq(PendingEdge)
      /\ Leads(Append(pending, Motion), app, ToSet(held))
  BY <1>1, <1>2, <1>3, LeadsFurther DEF Decoder
<1> QED BY <1>4 DEF Decoder

LEMMA DecoderSame ==
  ASSUME Decoder, UNCHANGED <<held, pending, app>>
  PROVE  Decoder'
BY DEF Decoder

LEMMA PumpDecoder ==
  ASSUME RestType, Decoder, NEW c \in Receivers, Pump(c)
  PROVE  /\ Decoder'
         /\ rcv[c].ev # Motion => ToSet(held') = ToSet(rcv[c].ev) \cap Watched
         /\ rcv[c].ev = Motion => held' = held
<1>1. app' = app BY DEF Pump
<1>2. CASE rcv[c].ev = Motion
  <2>1. pending' \in {pending, Append(pending, Motion)} /\ held' = held BY <1>2 DEF Pump
  <2> QED BY <1>1, <1>2, <2>1, MotionDecoder
<1>3. CASE rcv[c].ev # Motion
  <2>1. Decode(rcv[c].ev) BY <1>3 DEF Pump
  <2>2. rcv[c].ev \in Seq(Usages)
    <3>1. rcv[c].ev \in EventOf BY DEF RestType, Receive
    <3> QED BY <1>3, <3>1, SnapshotsAssumption DEF EventOf
  <2> QED BY <1>1, <1>3, <2>1, <2>2, DecodeDecoder
<1> QED BY <1>2, <1>3

LEMMA DecoderStep == RestType /\ Decoder /\ [Next]_vars => Decoder'
<1> SUFFICES ASSUME RestType, Decoder, [Next]_vars PROVE Decoder' OBVIOUS
<1>1. CASE \/ \E ev \in EventOf : Report(ev)
           \/ ReaderStep \/ Unplug \/ ResetEnds
           \/ \E k \in Closers : Close(k) \/ Detach(k) \/ CloseReturns(k)
  <2>1. UNCHANGED <<held, pending, app>>
    <3>1. CASE \E ev \in EventOf : Report(ev) BY <3>1 DEF Report, Delivering, decoder
    <3>2. CASE ReaderStep BY <3>2 DEF ReaderStep, Evict, SendAgain, CountDrop, Delivering, decoder
    <3>3. CASE Unplug \/ ResetEnds BY <3>3 DEF Unplug, ResetEnds, Closing, decoder
    <3>4. CASE \E k \in Closers : Close(k) \/ Detach(k) \/ CloseReturns(k)
      BY <3>4 DEF Close, Detach, CloseReturns, Closing, decoder
    <3> QED BY <1>1, <3>1, <3>2, <3>3, <3>4
  <2> QED BY <2>1, DecoderSame
<1>2. ASSUME NEW c \in Receivers, Begin(c) \/ GiveUpTurn(c) \/ Receiver(c) PROVE Decoder'
  <2>1. CASE Begin(c) \/ GiveUpTurn(c) \/ TakeTurn(c) \/ CheckClosed(c) \/ Take(c) \/ WaitEnds(c)
    <3>1. UNCHANGED <<held, pending, app>>
      BY <2>1 DEF Begin, GiveUpTurn, TakeTurn, CheckClosed, Take, WaitEnds, decoder
    <3> QED BY <3>1, DecoderSame
  <2>2. CASE Pop(c)
    <3>1. held' = held BY <2>2 DEF Pop
    <3>2. CASE UNCHANGED <<pending, app>> BY <3>1, <3>2, DecoderSame
    <3>3. CASE pending # <<>> /\ pending' = Tail(pending)
      <4>1. LET e == Head(pending)
            IN  app' = CASE e[1] = "press" -> app \cup {e[2]}
                         [] e[1] = "release" -> app \ {e[2]}
                         [] OTHER -> app
        BY <2>2, <3>3 DEF Pop
      <4> QED BY <3>1, <3>3, <4>1, PopDecoder
    <3> QED BY <2>2, <3>2, <3>3 DEF Pop
  <2>3. CASE Pump(c) BY <2>3, PumpDecoder
  <2> QED BY <1>2, <2>1, <2>2, <2>3 DEF Receiver
<1>3. CASE UNCHANGED vars BY <1>3, DecoderSame DEF vars, decoder, histories
<1> QED BY <1>1, <1>2, <1>3 DEF Next

\* Whatever was listed, dropped and decoded, what waits for the consumer are presses of what is up
\* and releases of what is down, and they lead to what the decoder holds.
THEOREM EdgesAlternateCorrect == Spec => []EdgesAlternate
<1>1. FeedInv => RestType BY DEF FeedInv
<1> QED BY InitInv, InvStep, <1>1, InitDecoder, DecoderStep, DecoderAlternates, PTL DEF Spec

-----------------------------------------------------------------------------
(* The last snapshot.                                                       *)

\* Who is past the turn holds it.
UnderTurn == {"check", "pop", "wait", "pump"}
OneTurn == \A c \in Receivers : rcv[c].pc \in UnderTurn => turn = c

\* A snapshot on its way is the last one or an earlier one.
EventIs(e) ==
  /\ e.ev # Motion => e.n <= real.n /\ (e.n = real.n => ToSet(e.ev) = real.listed)
  /\ e.ev = Motion => e.n # real.n
Holding == reader.pc \in {"evict", "send"}
EventsAre ==
  /\ \A i \in 1 .. Len(queue) : EventIs(queue[i])
  /\ Holding => EventIs(reader.e)
  /\ real.n <= offered

\* Where the last snapshot is, unless it was evicted.
Decoding(c) == At(c, "pump") /\ rcv[c].ev # Motion
InQueue == \E i \in 1 .. Len(queue) : queue[i].n = real.n
InReader == Holding /\ reader.e.n = real.n
InDecoder ==
  /\ real.n <= last
  /\ \/ \E c \in Receivers : Decoding(c) /\ ToSet(rcv[c].ev) = real.listed
     \/ (\A c \in Receivers : ~Decoding(c)) /\ ToSet(held) = real.listed \cap Watched
Latest == ~real.cut => InQueue \/ InReader \/ InDecoder

SnapInv == OneTurn /\ EventsAre /\ Latest

LEMMA InitSnap == Init => SnapInv
<1> SUFFICES ASSUME Init PROVE SnapInv OBVIOUS
<1>1. /\ queue = <<>> /\ reader = Resting /\ held = <<>> /\ last = 0 /\ offered = 0
      /\ real = [n |-> 0, listed |-> {}, cut |-> FALSE]
      /\ \A c \in Receivers : rcv[c].pc = "idle"
  BY DEF Init
<1>2. Len(queue) = 0 /\ reader.pc = "idle" /\ ToSet(held) = {} BY <1>1 DEF Resting, ToSet
<1>3. real.n = 0 /\ real.listed = {} BY <1>1
<1>4. OneTurn BY <1>1 DEF OneTurn, UnderTurn
<1>5. EventsAre BY <1>1, <1>2, <1>3 DEF EventsAre, Holding
<1>6. InDecoder BY <1>1, <1>2, <1>3 DEF InDecoder, Decoding, At
<1> QED BY <1>4, <1>5, <1>6 DEF SnapInv, Latest

LEMMA TurnStep == RestType /\ OneTurn /\ [Next]_vars => OneTurn'
<1> SUFFICES ASSUME RestType, OneTurn, [Next]_vars PROVE OneTurn' OBVIOUS
<1>1. CASE UNCHANGED <<turn, rcv>> BY <1>1 DEF OneTurn
<1>2. CASE \/ \E ev \in EventOf : Report(ev)
           \/ ReaderStep \/ Unplug \/ ResetEnds
           \/ \E k \in Closers : Close(k) \/ Detach(k) \/ CloseReturns(k)
  <2>1. UNCHANGED <<turn, rcv>>
    <3>1. CASE \E ev \in EventOf : Report(ev) BY <3>1 DEF Report, Delivering
    <3>2. CASE ReaderStep BY <3>2 DEF ReaderStep, Evict, SendAgain, CountDrop, Delivering
    <3>3. CASE Unplug \/ ResetEnds BY <3>3 DEF Unplug, ResetEnds, Closing
    <3>4. CASE \E k \in Closers : Close(k) \/ Detach(k) \/ CloseReturns(k)
      BY <3>4 DEF Close, Detach, CloseReturns, Closing
    <3> QED BY <1>2, <3>1, <3>2, <3>3, <3>4
  <2> QED BY <1>1, <2>1
<1>3. ASSUME NEW c \in Receivers, Begin(c) \/ GiveUpTurn(c) \/ Receiver(c) PROVE OneTurn'
  <2>1. \A o \in Receivers \ {c} : rcv'[o] = rcv[o]
    BY <1>3 DEF RestType, Begin, GiveUpTurn, Receiver, TakeTurn, CheckClosed, Pop, Take, WaitEnds, Pump, Quit, To
  <2>2. \A o \in Receivers : o # Nobody BY NobodyAssumption
  <2>3. /\ rcv'[c].pc \in UnderTurn => turn' = c
        /\ turn' = turn \/ turn = Nobody \/ rcv[c].pc \in UnderTurn
    <3> USE DEF Quit, To, At, UnderTurn, RestType, Receive
    <3>1. CASE Begin(c) BY <3>1 DEF Begin
    <3>2. CASE GiveUpTurn(c) BY <3>2 DEF GiveUpTurn
    <3>3. CASE TakeTurn(c) BY <3>3 DEF TakeTurn
    <3>4. CASE CheckClosed(c) BY <3>4 DEF CheckClosed, OneTurn
    <3>5. CASE Pop(c) BY <3>5 DEF Pop, OneTurn
    <3>6. CASE WaitEnds(c) BY <3>6 DEF WaitEnds, OneTurn
    <3>7. CASE Take(c) \/ Pump(c)
      <4>1. turn' = turn /\ rcv[c].pc \in UnderTurn BY ONLY <3>7 DEF Take, Pump, At, UnderTurn
      <4>2. turn = c BY <4>1 DEF OneTurn
      <4> QED BY ONLY <4>1, <4>2
    <3> QED BY <1>3, <3>1, <3>2, <3>3, <3>4, <3>5, <3>6, <3>7 DEF Receiver
  <2>4. ASSUME NEW o \in Receivers \ {c}, rcv'[o].pc \in UnderTurn PROVE turn' = o
    <3>1. rcv[o].pc \in UnderTurn /\ turn = o BY <2>1, <2>4 DEF OneTurn
    <3>2. ~(rcv[c].pc \in UnderTurn) BY <3>1 DEF OneTurn
    <3>3. CASE turn' = turn BY <3>1, <3>3
    <3>4. CASE turn = Nobody BY <2>2, <3>1, <3>4
    <3> QED BY <2>3, <3>2, <3>3, <3>4
  <2> QED BY <2>3, <2>4 DEF OneTurn
<1>4. CASE UNCHANGED vars BY <1>1, <1>4 DEF vars
<1> QED BY <1>2, <1>3, <1>4 DEF Next

LEMMA NumberedIs == \A e \in Numbered : e.n \in Nat \ {0} /\ e.ev \in EventOf
  BY MaxReportsAssumption DEF Numbered

\* What waits in the queue has a number past the last one taken, and none has its neighbour's.
LEMMA QueueNumbers ==
  ASSUME FlowType, Ordered
  PROVE  /\ queue \in Seq(Numbered) /\ Len(queue) \in Nat
         /\ \A i \in 1 .. Len(queue) :
              queue[i] \in Numbered /\ last < queue[i].n /\ queue[i].n <= offered - Unsent
         /\ last \in Nat /\ offered \in Nat /\ Unsent \in {0, 1} /\ last <= offered - Unsent
<1>1. queue \in Seq(Numbered) /\ Len(queue) \in Nat BY DEF FlowType
<1>2. last \in Nat /\ offered \in Nat /\ Unsent \in {0, 1} BY FlowInts
<1>3. ASSUME NEW i \in 1 .. Len(queue) PROVE queue[i] \in Numbered /\ last < queue[i].n /\ queue[i].n <= offered - Unsent
  <2>1. queue[i] \in Numbered /\ queue[i].n \in Nat BY <1>1, NumberedIs
  <2>2. Numbers(queue)[i] = queue[i].n BY DEF Numbers
  <2>3. last + i <= Numbers(queue)[i] /\ Numbers(queue)[i] + (Len(queue) - i) <= offered - Unsent
    BY DEF Ordered, Rising
  <2> QED BY <1>1, <1>2, <2>1, <2>2, <2>3
<1>4. last <= offered - Unsent BY DEF Ordered, Rising
<1> QED BY <1>1, <1>2, <1>3, <1>4

LEMMA ReportSnap ==
  ASSUME FeedInv, SnapInv, NEW ev \in EventOf, Report(ev)
  PROVE  EventsAre' /\ Latest'
<1> DEFINE e == [n |-> offered + 1, ev |-> ev]
<1>1. FlowType /\ Ordered /\ RestType /\ EventsAre /\ Latest BY DEF FeedInv, SnapInv
<1>2. /\ reader.pc = "idle" /\ offered' = offered + 1 /\ UNCHANGED <<rcv, held, last>>
      /\ \/ Len(queue) < Capacity /\ queue' = Append(queue, e) /\ UNCHANGED reader
         \/ reader' = [pc |-> "evict", e |-> e] /\ UNCHANGED queue
      /\ real' = IF ev = Motion THEN real
                 ELSE [n |-> offered + 1, listed |-> ToSet(ev), cut |-> FALSE]
  BY DEF Report, Wanted, Delivering, decoder
<1>3. /\ queue \in Seq(Numbered) /\ Len(queue) \in Nat
      /\ \A i \in 1 .. Len(queue) : queue[i] \in Numbered /\ queue[i].n \in Nat /\ queue[i].n <= offered
      /\ offered \in Nat /\ real.n \in Nat /\ real.n <= offered
  <2>1. real.n \in Nat BY <1>1, MaxReportsAssumption DEF RestType
  <2>2. \A i \in 1 .. Len(queue) : queue[i].n \in Nat BY <1>1, QueueNumbers, NumberedIs
  <2>3. Unsent = 0 BY <1>2 DEF Unsent
  <2>4. real.n <= offered BY <1>1 DEF EventsAre
  <2> QED BY <1>1, <2>1, <2>2, <2>3, <2>4, QueueNumbers
<1>4. e.n = offered + 1 /\ e.ev = ev OBVIOUS
<1> HIDE DEF e
<1>5. /\ real'.n <= offered + 1
      /\ ev # Motion => real'.n = offered + 1 /\ real'.listed = ToSet(ev) /\ real'.cut = FALSE
      /\ ev = Motion => real' = real
  BY <1>2, <1>3
<1>6. \A i \in 1 .. Len(queue) : EventIs(queue[i])'
  <2> SUFFICES ASSUME NEW i \in 1 .. Len(queue) PROVE EventIs(queue[i])' OBVIOUS
  <2>1. EventIs(queue[i]) BY <1>1 DEF EventsAre
  <2>4. queue'[i] = queue[i] BY ONLY <1>2, <1>3, i \in 1 .. Len(queue)
  <2>2. CASE ev = Motion BY ONLY <1>5, <2>1, <2>2, <2>4 DEF EventIs
  <2>3. CASE ev # Motion
    <3>1. real'.n = offered + 1 /\ queue[i].n \in Nat /\ queue[i].n <= offered /\ offered \in Nat
      BY ONLY <1>3, <1>5, <2>3, i \in 1 .. Len(queue)
    <3>2. queue[i].n # real'.n /\ queue[i].n < real'.n BY ONLY <3>1
    <3> QED BY ONLY <2>1, <2>4, <3>1, <3>2 DEF EventIs
  <2> QED BY <2>2, <2>3
<1>7. CASE Len(queue) < Capacity /\ queue' = Append(queue, e) /\ UNCHANGED reader
  <2>1. /\ Len(queue') = Len(queue) + 1 /\ queue'[Len(queue) + 1] = e
        /\ \A i \in 1 .. Len(queue) : queue'[i] = queue[i]
    BY <1>3, <1>7
  <2>2. EventsAre'
    <3>1. \A i \in 1 .. Len(queue') : i \in 1 .. Len(queue) \/ i = Len(queue) + 1 BY <1>3, <2>1
    <3>2. ASSUME NEW i \in 1 .. Len(queue') PROVE EventIs(queue[i])'
      <4>1. CASE i \in 1 .. Len(queue)
        <5>1. queue'[i] = queue[i] BY <2>1, <4>1
        <5> QED BY <1>6, <2>1, <4>1, <5>1 DEF EventIs
      <4>2. CASE i = Len(queue) + 1
        <5>1. queue'[i] = e BY <2>1, <4>2
        <5> QED BY <1>3, <1>4, <1>5, <5>1 DEF EventIs
      <4> QED BY <3>1, <4>1, <4>2
    <3>3. ~Holding' BY <1>2, <1>7 DEF Holding
    <3> QED BY <1>2, <1>5, <3>2, <3>3 DEF EventsAre
  <2>3. Latest'
    <3>1. CASE ev # Motion
      <4>1. Len(queue) + 1 \in 1 .. Len(queue') BY <1>3, <2>1
      <4>2. InQueue' BY <1>4, <1>5, <2>1, <3>1, <4>1 DEF InQueue
      <4> QED BY <4>2 DEF Latest
    <3>2. CASE ev = Motion
      <4>1. real' = real BY <1>5, <3>2
      <4>2. InQueue => InQueue'
        <5>1. \A i \in 1 .. Len(queue) : i \in 1 .. Len(queue') BY <1>3, <2>1
        <5> QED BY <2>1, <4>1, <5>1 DEF InQueue
      <4>3. ~InReader BY <1>2 DEF InReader, Holding
      <4>4. InDecoder => InDecoder' BY <1>2, <4>1 DEF InDecoder, Decoding, At
      <4> QED BY <1>1, <4>1, <4>2, <4>3, <4>4 DEF Latest
    <3> QED BY <3>1, <3>2
  <2> QED BY <2>2, <2>3
<1>8. CASE reader' = [pc |-> "evict", e |-> e] /\ UNCHANGED queue
  <2>1. reader'.pc = "evict" /\ reader'.e = e BY <1>8
  <2>2. EventsAre'
    <3>1. EventIs(reader.e)' BY <1>3, <1>4, <1>5, <2>1 DEF EventIs
    <3>2. \A i \in 1 .. Len(queue') : EventIs(queue[i])' BY <1>6, <1>8 DEF EventIs
    <3> QED BY <1>2, <1>5, <3>1, <3>2 DEF EventsAre
  <2>3. Latest'
    <3>1. CASE ev # Motion
      <4>1. InReader' BY <1>4, <1>5, <2>1, <3>1 DEF InReader, Holding
      <4> QED BY <4>1 DEF Latest
    <3>2. CASE ev = Motion
      <4>1. real' = real BY <1>5, <3>2
      <4>2. InQueue => InQueue' BY <1>8, <4>1 DEF InQueue
      <4>3. ~InReader BY <1>2 DEF InReader, Holding
      <4>4. InDecoder => InDecoder' BY <1>2, <4>1 DEF InDecoder, Decoding, At
      <4> QED BY <1>1, <4>1, <4>2, <4>3, <4>4 DEF Latest
    <3> QED BY <3>1, <3>2
  <2> QED BY <2>2, <2>3
<1> QED BY <1>2, <1>7, <1>8

LEMMA EvictSnap ==
  ASSUME FeedInv, SnapInv, Evict
  PROVE  EventsAre' /\ Latest'
<1>1. FlowType /\ Ordered /\ RestType /\ EventsAre /\ Latest BY DEF FeedInv, SnapInv
<1>2. /\ reader.pc = "evict" /\ reader' = [reader EXCEPT !.pc = "send"]
      /\ UNCHANGED <<rcv, held, last, offered>>
      /\ queue' = IF queue = <<>> THEN queue ELSE Tail(queue)
      /\ real' = [real EXCEPT !.cut = @ \/ (queue # <<>> /\ Head(queue).n = real.n)]
  BY DEF Evict, Delivering, decoder
<1>3. reader'.pc = "send" /\ reader'.e = reader.e BY <1>1, <1>2 DEF FlowType
<1>4. /\ real'.n = real.n /\ real'.listed = real.listed
      /\ real'.cut <=> real.cut \/ (queue # <<>> /\ Head(queue).n = real.n)
  BY <1>1, <1>2 DEF RestType
<1>5. queue \in Seq(Numbered) /\ Len(queue) \in Nat BY <1>1 DEF FlowType
<1>6. \A i \in 1 .. Len(queue') : i + 1 \in 1 .. Len(queue) /\ queue'[i] = queue[i + 1]
  <2>1. CASE queue = <<>> BY <1>2, <2>1
  <2>2. CASE queue # <<>> BY <1>2, <1>5, <2>2
  <2> QED BY <2>1, <2>2
<1>7. EventsAre'
  <2>1. ASSUME NEW i \in 1 .. Len(queue') PROVE EventIs(queue[i])'
    <3>1. EventIs(queue[i + 1]) /\ queue'[i] = queue[i + 1] BY <1>1, <1>6 DEF EventsAre
    <3> QED BY <1>4, <3>1 DEF EventIs
  <2>2. EventIs(reader.e)'
    <3>1. EventIs(reader.e) BY <1>1, <1>2 DEF EventsAre, Holding
    <3> QED BY <1>3, <1>4, <3>1 DEF EventIs
  <2> QED BY <1>1, <1>2, <1>4, <2>1, <2>2 DEF EventsAre
<1>8. ASSUME ~real'.cut PROVE InQueue' \/ InReader' \/ InDecoder'
  <2>1. ~real.cut /\ (queue # <<>> => Head(queue).n # real.n) BY <1>4, <1>8
  <2>2. CASE InQueue
    <3>1. PICK i \in 1 .. Len(queue) : queue[i].n = real.n BY <2>2 DEF InQueue
    <3>2. queue # <<>> /\ i # 1 BY <1>5, <2>1, <3>1
    <3>3. i - 1 \in 1 .. Len(queue') /\ queue'[i - 1] = queue[i] BY <1>2, <1>5, <3>2
    <3> QED BY <1>4, <3>1, <3>3 DEF InQueue
  <2>3. CASE InReader BY <1>3, <1>4, <2>3 DEF InReader, Holding
  <2>4. CASE InDecoder BY <1>2, <1>4, <2>4 DEF InDecoder, Decoding, At
  <2> QED BY <1>1, <2>1, <2>2, <2>3, <2>4 DEF Latest
<1> QED BY <1>7, <1>8 DEF Latest

LEMMA SendSnap ==
  ASSUME FeedInv, SnapInv, SendAgain
  PROVE  EventsAre' /\ Latest'
<1>1. FlowType /\ Ordered /\ RestType /\ EventsAre /\ Latest BY DEF FeedInv, SnapInv
<1>2. /\ reader.pc = "send" /\ reader' = [reader EXCEPT !.pc = "count"]
      /\ UNCHANGED <<rcv, held, last, offered, real>>
      /\ queue' = IF Len(queue) < Capacity THEN Append(queue, reader.e) ELSE queue
  BY DEF SendAgain, Delivering, decoder
<1>3. Len(queue) < Capacity BY <1>2 DEF FeedInv, Counted
<1>4. queue \in Seq(Numbered) /\ Len(queue) \in Nat BY <1>1 DEF FlowType
<1>5. /\ Len(queue') = Len(queue) + 1 /\ queue'[Len(queue) + 1] = reader.e
      /\ \A i \in 1 .. Len(queue) : queue'[i] = queue[i]
  BY <1>2, <1>3, <1>4
<1>6. reader'.pc = "count" BY <1>1, <1>2 DEF FlowType
<1>7. EventsAre'
  <2>1. \A i \in 1 .. Len(queue') : i \in 1 .. Len(queue) \/ i = Len(queue) + 1 BY <1>4, <1>5
  <2>2. ASSUME NEW i \in 1 .. Len(queue') PROVE EventIs(queue[i])'
    <3>1. CASE i \in 1 .. Len(queue)
      <4>1. EventIs(queue[i]) /\ queue'[i] = queue[i] BY <1>1, <1>5, <3>1 DEF EventsAre
      <4> QED BY <1>2, <4>1 DEF EventIs
    <3>2. CASE i = Len(queue) + 1
      <4>1. EventIs(reader.e) /\ queue'[i] = reader.e BY <1>1, <1>2, <1>5, <3>2 DEF EventsAre, Holding
      <4> QED BY <1>2, <4>1 DEF EventIs
    <3> QED BY <2>1, <3>1, <3>2
  <2>3. ~Holding' BY <1>6 DEF Holding
  <2> QED BY <1>1, <1>2, <2>2, <2>3 DEF EventsAre
<1>8. InQueue => InQueue'
  <2>1. \A i \in 1 .. Len(queue) : i \in 1 .. Len(queue') BY <1>4, <1>5
  <2> QED BY <1>2, <1>5, <2>1 DEF InQueue
<1>9. InReader => InQueue'
  <2>1. Len(queue) + 1 \in 1 .. Len(queue') BY <1>4, <1>5
  <2> QED BY <1>2, <1>5, <2>1 DEF InReader, InQueue
<1>10. InDecoder => InDecoder' BY <1>2 DEF InDecoder, Decoding, At
<1> QED BY <1>1, <1>2, <1>7, <1>8, <1>9, <1>10 DEF Latest

LEMMA TakeSnap ==
  ASSUME FeedInv, SnapInv, NEW c \in Receivers, Take(c)
  PROVE  EventsAre' /\ Latest'
<1> DEFINE e == Head(queue)
<1>1. FlowType /\ Ordered /\ RestType /\ EventsAre /\ Latest /\ OneTurn BY DEF FeedInv, SnapInv
<1>2. /\ rcv[c].pc = "wait" /\ queue # <<>> /\ queue' = Tail(queue) /\ last' = e.n
      /\ rcv' = [rcv EXCEPT ![c].pc = "pump", ![c].ev = e.ev]
      /\ UNCHANGED <<reader, held, offered, real>>
  BY DEF Take, Receiving, decoder, At
<1>3. /\ rcv'[c].pc = "pump" /\ rcv'[c].ev = e.ev
      /\ \A o \in Receivers \ {c} : rcv'[o] = rcv[o]
  BY <1>1, <1>2 DEF RestType, Receive
<1>4. queue \in Seq(Numbered) /\ Len(queue) \in Nat BY <1>1 DEF FlowType
<1>5. Len(queue) # 0 /\ e = queue[1] /\ 1 \in 1 .. Len(queue) BY <1>2, <1>4
<1>6. \A i \in 1 .. Len(queue') : i + 1 \in 1 .. Len(queue) /\ queue'[i] = queue[i + 1]
  BY <1>2, <1>4
<1>7. EventIs(e) /\ e.n \in Nat /\ last < e.n /\ last \in Nat
  <2>1. e \in Numbered /\ last < e.n BY <1>1, <1>5, QueueNumbers
  <2> QED BY <1>1, <1>5, <2>1, QueueNumbers, NumberedIs DEF EventsAre
<1> HIDE DEF e
<1>8. EventsAre'
  <2>1. ASSUME NEW i \in 1 .. Len(queue') PROVE EventIs(queue[i])'
    <3>1. EventIs(queue[i + 1]) /\ queue'[i] = queue[i + 1] BY <1>1, <1>6 DEF EventsAre
    <3> QED BY <1>2, <3>1 DEF EventIs
  <2>2. Holding' => EventIs(reader.e)' BY <1>1, <1>2 DEF EventsAre, Holding, EventIs
  <2> QED BY <1>1, <1>2, <2>1, <2>2 DEF EventsAre
<1>9. real.n \in Nat BY <1>1, MaxReportsAssumption DEF RestType
<1>10. \A o \in Receivers : ~Decoding(o)
  <2> SUFFICES ASSUME NEW o \in Receivers, rcv[o].pc = "pump" PROVE FALSE BY DEF Decoding, At
  <2>1. turn = o /\ turn = c BY <1>1, <1>2 DEF OneTurn, UnderTurn
  <2> QED BY <1>2, <2>1
<1>11. CASE InQueue
  <2>1. PICK i \in 1 .. Len(queue) : queue[i].n = real.n BY <1>11 DEF InQueue
  <2>2. CASE i = 1
    <3>1. e.n = real.n BY <1>5, <2>1, <2>2
    <3>2. e.ev # Motion /\ ToSet(e.ev) = real.listed BY <1>7, <3>1 DEF EventIs
    <3>3. real'.n <= last' BY <1>2, <1>7, <1>9, <3>1
    <3>4. (Decoding(c))' /\ ToSet(rcv'[c].ev) = real'.listed BY <1>2, <1>3, <3>2 DEF Decoding, At
    <3>5. InDecoder' BY <3>3, <3>4 DEF InDecoder
    <3> QED BY <1>8, <3>5 DEF Latest
  <2>3. CASE i # 1
    <3>1. i - 1 \in 1 .. Len(queue') /\ queue'[i - 1] = queue[i] BY <1>2, <1>4, <2>3
    <3>2. InQueue' BY <1>2, <2>1, <3>1 DEF InQueue
    <3> QED BY <1>8, <3>2 DEF Latest
  <2> QED BY <2>2, <2>3
<1>12. CASE InReader
  <2>1. InReader' BY <1>2, <1>12 DEF InReader, Holding
  <2> QED BY <1>8, <2>1 DEF Latest
<1>13. CASE InDecoder
  <2>1. real.n <= last /\ ToSet(held) = real.listed \cap Watched BY <1>10, <1>13 DEF InDecoder
  <2>2. e.ev = Motion BY <1>7, <1>9, <2>1 DEF EventIs
  <2>3. real'.n <= last' BY <1>2, <1>7, <1>9, <2>1
  <2>4. \A o \in Receivers : ~(Decoding(o))'
    <3> SUFFICES ASSUME NEW o \in Receivers PROVE ~(Decoding(o))' OBVIOUS
    <3>1. CASE o = c BY <1>3, <2>2, <3>1 DEF Decoding, At
    <3>2. CASE o # c BY <1>3, <1>10, <3>2 DEF Decoding, At
    <3> QED BY <3>1, <3>2
  <2>5. ToSet(held') = real'.listed \cap Watched BY <1>2, <2>1
  <2>6. InDecoder' BY <2>3, <2>4, <2>5 DEF InDecoder
  <2> QED BY <1>8, <2>6 DEF Latest
<1>14. CASE real.cut
  <2>1. real'.cut BY <1>2, <1>14
  <2> QED BY <1>8, <2>1 DEF Latest
<1> QED BY <1>1, <1>11, <1>12, <1>13, <1>14 DEF Latest

LEMMA PumpSnap ==
  ASSUME FeedInv, SnapInv, Decoder, NEW c \in Receivers, Pump(c)
  PROVE  EventsAre' /\ Latest'
<1> DEFINE ev == rcv[c].ev
<1>1. FlowType /\ Ordered /\ RestType /\ EventsAre /\ Latest /\ OneTurn BY DEF FeedInv, SnapInv
<1>2. /\ rcv[c].pc = "pump" /\ UNCHANGED <<reader, queue, last, offered, real>>
      /\ rcv' = [rcv EXCEPT ![c].pc = "check", ![c].ev = Motion]
  BY DEF Pump, Receiving, At
<1>3. rcv'[c].pc = "check" /\ \A o \in Receivers \ {c} : rcv'[o] = rcv[o]
  BY <1>1, <1>2 DEF RestType, Receive
<1>4. /\ ev # Motion => ToSet(held') = ToSet(ev) \cap Watched
      /\ ev = Motion => held' = held
  BY <1>1, PumpDecoder
<1>5. \A o \in Receivers \ {c} : rcv[o].pc # "pump"
  <2> SUFFICES ASSUME NEW o \in Receivers, o # c, rcv[o].pc = "pump" PROVE FALSE OBVIOUS
  <2>1. turn = o /\ turn = c BY <1>1, <1>2 DEF OneTurn, UnderTurn
  <2> QED BY <2>1
<1>6. EventsAre' BY <1>1, <1>2 DEF EventsAre, Holding, EventIs
<1>7. \A o \in Receivers : ~(Decoding(o))'
  <2> SUFFICES ASSUME NEW o \in Receivers PROVE ~(Decoding(o))' OBVIOUS
  <2>1. CASE o = c BY <1>3, <2>1 DEF Decoding, At
  <2>2. CASE o # c BY <1>3, <1>5, <2>2 DEF Decoding, At
  <2> QED BY <2>1, <2>2
<1>8. InQueue => InQueue' BY <1>2 DEF InQueue
<1>9. InReader => InReader' BY <1>2 DEF InReader, Holding
<1>10. InDecoder => InDecoder'
  <2> SUFFICES ASSUME InDecoder PROVE InDecoder' OBVIOUS
  <2>1. ToSet(held') = real.listed \cap Watched
    <3>1. CASE ev = Motion
      <4>1. \A o \in Receivers : ~Decoding(o) BY <1>5, <3>1 DEF Decoding, At
      <4>2. ToSet(held) = real.listed \cap Watched BY <4>1 DEF InDecoder
      <4> QED BY <1>4, <3>1, <4>2
    <3>2. CASE ev # Motion
      <4>1. Decoding(c) BY <1>2, <3>2 DEF Decoding, At
      <4>2. \E o \in Receivers : Decoding(o) /\ ToSet(rcv[o].ev) = real.listed BY <4>1 DEF InDecoder
      <4>3. ToSet(ev) = real.listed BY <1>5, <4>2 DEF Decoding, At
      <4> QED BY <1>4, <3>2, <4>3
    <3> QED BY <3>1, <3>2
  <2>2. real'.n <= last' BY <1>2 DEF InDecoder
  <2> QED BY <1>2, <1>7, <2>1, <2>2 DEF InDecoder
<1> QED BY <1>1, <1>2, <1>6, <1>8, <1>9, <1>10 DEF Latest

\* Steps that leave alone the events, and who decodes one.
LEMMA SnapSame ==
  ASSUME SnapInv, UNCHANGED <<queue, held, last, offered, real>>,
         Holding' <=> Holding, reader'.e = reader.e \/ ~Holding,
         \A c \in Receivers : /\ rcv'[c].pc = "pump" <=> rcv[c].pc = "pump"
                              /\ rcv'[c].ev = rcv[c].ev
  PROVE  EventsAre' /\ Latest'
<1>1. EventsAre /\ Latest BY DEF SnapInv
<1>2. EventsAre' BY <1>1 DEF EventsAre, EventIs
<1>3. InQueue => InQueue' BY DEF InQueue
<1>4. InReader => InReader' BY DEF InReader
<1>5. \A c \in Receivers : (Decoding(c))' <=> Decoding(c) BY DEF Decoding, At
<1>6. InDecoder => InDecoder' BY <1>5 DEF InDecoder
<1> QED BY <1>1, <1>2, <1>3, <1>4, <1>6 DEF Latest

LEMMA SnapStep == FeedInv /\ Decoder /\ SnapInv /\ [Next]_vars => SnapInv'
<1> SUFFICES ASSUME FeedInv, Decoder, SnapInv, [Next]_vars PROVE EventsAre' /\ Latest'
  BY TurnStep DEF SnapInv, FeedInv
<1>0. RestType BY DEF FeedInv
<1>1. CASE \E ev \in EventOf : Report(ev) BY <1>1, ReportSnap
<1>2. CASE ReaderStep
  <2>1. CASE CountDrop
    <3>1. UNCHANGED <<queue, held, last, offered, real, rcv>> BY <2>1 DEF CountDrop, Delivering, decoder
    <3>2. ~Holding /\ ~Holding' BY <2>1 DEF CountDrop, Holding, Resting
    <3> QED BY <3>1, <3>2, SnapSame
  <2> QED BY <1>2, <2>1, EvictSnap, SendSnap DEF ReaderStep
<1>3. CASE \/ Unplug \/ ResetEnds
           \/ \E k \in Closers : Close(k) \/ Detach(k) \/ CloseReturns(k)
  <2>1. UNCHANGED <<queue, held, last, offered, real, rcv, reader>>
    <3>1. CASE Unplug \/ ResetEnds BY <3>1 DEF Unplug, ResetEnds, Closing, decoder
    <3>2. CASE \E k \in Closers : Close(k) \/ Detach(k) \/ CloseReturns(k)
      BY <3>2 DEF Close, Detach, CloseReturns, Closing, decoder
    <3> QED BY <1>3, <3>1, <3>2
  <2>2. Holding' <=> Holding BY <2>1 DEF Holding
  <2> QED BY <2>1, <2>2, SnapSame
<1>4. ASSUME NEW c \in Receivers, Begin(c) \/ GiveUpTurn(c) \/ Receiver(c) PROVE EventsAre' /\ Latest'
  <2>1. CASE Begin(c) \/ GiveUpTurn(c) \/ TakeTurn(c) \/ CheckClosed(c) \/ Pop(c) \/ WaitEnds(c)
    <3>1. UNCHANGED <<queue, held, last, offered, real, reader>>
      BY <2>1 DEF Begin, GiveUpTurn, TakeTurn, CheckClosed, Pop, WaitEnds, Receiving, decoder
    <3>2. \A o \in Receivers : /\ rcv'[o].pc = "pump" <=> rcv[o].pc = "pump"
                               /\ rcv'[o].ev = rcv[o].ev
      <4> USE <1>0 DEF RestType, Receive, Quit, To, At
      <4>1. CASE Begin(c) BY <4>1 DEF Begin
      <4>2. CASE GiveUpTurn(c) \/ TakeTurn(c) BY <4>2 DEF GiveUpTurn, TakeTurn
      <4>3. CASE CheckClosed(c) BY <4>3 DEF CheckClosed
      <4>4. CASE Pop(c) BY <4>4 DEF Pop
      <4>5. CASE WaitEnds(c) BY <4>5 DEF WaitEnds
      <4> QED BY <2>1, <4>1, <4>2, <4>3, <4>4, <4>5
    <3>3. Holding' <=> Holding BY <3>1 DEF Holding
    <3> QED BY <3>1, <3>2, <3>3, SnapSame
  <2>2. CASE Take(c) BY <2>2, TakeSnap
  <2>3. CASE Pump(c) BY <2>3, PumpSnap
  <2> QED BY <1>4, <2>1, <2>2, <2>3 DEF Receiver
<1>5. CASE UNCHANGED vars
  <2>1. UNCHANGED <<queue, held, last, offered, real, rcv, reader>> BY <1>5 DEF vars, decoder, histories
  <2>2. Holding' <=> Holding BY <2>1 DEF Holding
  <2> QED BY <2>1, <2>2, SnapSame
<1> QED BY <1>1, <1>2, <1>3, <1>4, <1>5 DEF Next

LEMMA NothingIsStuck == FeedInv /\ Decoder /\ SnapInv => NothingStuck
<1> SUFFICES ASSUME Decoder, Latest, reader.pc = "idle", queue = <<>>, pending = <<>>,
                    \A c \in Receivers : ~At(c, "pump"), ~real.cut
             PROVE  app = real.listed \cap Watched
  BY DEF NothingStuck, SnapInv
<1>1. ~InQueue /\ ~InReader BY DEF InQueue, InReader, Holding
<1>2. ToSet(held) = real.listed \cap Watched BY <1>1 DEF Latest, InDecoder, Decoding
<1>3. app = ToSet(held)
  <2>1. Leads(<<>>, app, ToSet(held)) BY DEF Decoder
  <2> QED BY <2>1 DEF Leads
<1> QED BY <1>2, <1>3

\* However many snapshots the full queue dropped, and whoever receives, a consumer that has received
\* everything believes pressed what the box listed last, unless that list was itself pushed out.
THEOREM NothingStuckCorrect == Spec => []NothingStuck
<1>1. FeedInv => RestType BY DEF FeedInv
<1> QED
  BY InitInv, InvStep, <1>1, InitDecoder, DecoderStep, InitSnap, SnapStep, NothingIsStuck, PTL
     DEF Spec

-----------------------------------------------------------------------------
(* Where a stamp is placed.                                                 *)

LEMMA Euclid ==
  ASSUME NEW N \in Nat \ {0}, NEW a \in Int
  PROVE  /\ a \div N \in Int /\ a % N \in 0 .. N - 1
         /\ a = N * (a \div N) + (a % N)
BY SMTT(30)

LEMMA TimesGrows ==
  ASSUME NEW N \in Nat \ {0}, NEW k \in Int
  PROVE  N * k \in Int /\ (k >= 1 => N * k >= N) /\ (k <= -1 => N * k <= -N)
BY SMTT(30)

LEMMA Distribute ==
  ASSUME NEW N \in Nat \ {0}, NEW p \in Int, NEW q \in Int
  PROVE  N * (p - q) = N * p - N * q /\ N * p \in Int /\ N * q \in Int
BY SMTT(30)

\* A remainder is the one there is.
LEMMA Remainder ==
  ASSUME NEW N \in Nat \ {0}, NEW a \in Int, NEW q \in Int, NEW b \in 0 .. N - 1, a = N * q + b
  PROVE  a % N = b
<1> DEFINE p == a \div N
           m == a % N
<1>1. p \in Int /\ m \in 0 .. N - 1 /\ a = N * p + m BY ONLY Euclid, N \in Nat \ {0}, a \in Int
<1> HIDE DEF p, m
<1>2. N * (p - q) = N * p - N * q /\ N * p \in Int /\ N * q \in Int
  BY ONLY <1>1, Distribute, N \in Nat \ {0}, q \in Int
<1>3. p - q \in Int BY ONLY <1>1, q \in Int
<1>4. (p - q >= 1 => N * (p - q) >= N) /\ (p - q <= -1 => N * (p - q) <= -N)
  BY ONLY <1>3, TimesGrows, N \in Nat \ {0}
<1>5. N * (p - q) = b - m
  BY ONLY <1>1, <1>2, a = N * q + b, b \in 0 .. N - 1, N \in Nat \ {0}, a \in Int
<1>6. b - m < N /\ b - m > -N BY ONLY <1>1, b \in 0 .. N - 1, N \in Nat \ {0}
<1>7. p = q BY ONLY <1>1, <1>3, <1>4, <1>5, <1>6, N \in Nat \ {0}, q \in Int
<1>8. m = b BY ONLY <1>1, <1>2, <1>7, a = N * q + b, b \in 0 .. N - 1, a \in Int
<1> QED BY <1>8 DEF m

LEMMA StepUp ==
  ASSUME NEW N \in Nat \ {0}, NEW a \in Int, NEW k \in 0 .. N - 1
  PROVE  (a + k) % N = IF (a % N) + k < N THEN (a % N) + k ELSE (a % N) + k - N
<1> DEFINE p == a \div N
           m == a % N
<1>1. p \in Int /\ m \in 0 .. N - 1 /\ a = N * p + m BY ONLY Euclid, N \in Nat \ {0}, a \in Int
<1> HIDE DEF p, m
<1>2. N * p \in Int BY ONLY <1>1, TimesGrows, N \in Nat \ {0}
<1>3. CASE m + k < N
  <2>1. m + k \in 0 .. N - 1 /\ a + k \in Int /\ a + k = N * p + (m + k)
    BY ONLY <1>1, <1>2, <1>3, k \in 0 .. N - 1, N \in Nat \ {0}, a \in Int
  <2>2. (a + k) % N = m + k BY ONLY <1>1, <2>1, Remainder, N \in Nat \ {0}
  <2> QED BY <1>3, <2>2 DEF m
<1>4. CASE ~(m + k < N)
  <2>1. N * (p + 1) = N * p + N BY ONLY <1>1, N \in Nat \ {0}, SMTT(30)
  <2>2. m + k - N \in 0 .. N - 1 /\ a + k \in Int /\ p + 1 \in Int
        /\ a + k = N * (p + 1) + (m + k - N)
    BY ONLY <1>1, <1>2, <1>4, <2>1, k \in 0 .. N - 1, N \in Nat \ {0}, a \in Int
  <2>3. (a + k) % N = m + k - N BY ONLY <2>2, Remainder, N \in Nat \ {0}
  <2> QED BY <1>4, <2>3 DEF m
<1> QED BY <1>3, <1>4

LEMMA WholeOff ==
  ASSUME NEW N \in Nat \ {0}, NEW a \in Int, NEW p \in Int, NEW j \in Int, a = N * p - N * j
  PROVE  a % N = 0
<1>1. N * (p - j) = N * p - N * j BY ONLY p \in Int, j \in Int, N \in Nat \ {0}, SMTT(30)
<1>2. p - j \in Int /\ 0 \in 0 .. N - 1 OBVIOUS
<1>3. N * (p - j) \in Int BY ONLY <1>2, TimesGrows, N \in Nat \ {0}
<1>4. a = N * (p - j) + 0 BY ONLY <1>1, <1>3, a = N * p - N * j
<1> QED BY ONLY <1>2, <1>4, Remainder, a \in Int, N \in Nat \ {0}

LEMMA LeastOfTwo ==
  ASSUME NEW a \in Int, NEW b \in Int
  PROVE  LeastOf({a, b}) = IF a <= b THEN a ELSE b
<1>1. CASE a <= b
  <2>1. a \in {a, b} /\ \A m \in {a, b} : a <= m BY <1>1
  <2>2. \A n \in {a, b} : (\A m \in {a, b} : n <= m) => n = a BY <1>1
  <2> QED BY <1>1, <2>1, <2>2 DEF LeastOf
<1>2. CASE ~(a <= b)
  <2>1. b \in {a, b} /\ \A m \in {a, b} : b <= m BY <1>2
  <2>2. \A n \in {a, b} : (\A m \in {a, b} : n <= m) => n = b BY <1>2
  <2> QED BY <1>2, <2>1, <2>2 DEF LeastOf
<1> QED BY <1>1, <1>2

LEMMA LeastIs ==
  ASSUME NEW S \in SUBSET Int, NEW v \in S, \A m \in S : v <= m
  PROVE  LeastOf(S) = v
<1>1. \A n \in S : (\A m \in S : n <= m) => n = v OBVIOUS
<1> QED BY <1>1 DEF LeastOf

LEMMA AtLeastIs ==
  ASSUME NEW n \in Int, NEW m \in Int
  PROVE  AtLeast(n, m) \in Int /\ AtLeast(n, m) >= m /\ (AtLeast(n, m) > m => AtLeast(n, m) = n)
         /\ (n >= m => AtLeast(n, m) = n)
BY DEF AtLeast

-----------------------------------------------------------------------------
(* The least lag of the newest samples.                                     *)

LeastIn(v, s, i, j) == (\E k \in i..j : s[k] = v) /\ \A k \in i..j : v <= s[k]

\* observe_stamp's list of lags: the new one first, the oldest forgotten.
LEMMA ListedStamps ==
  ASSUME NEW s \in Seq(Int), NEW lag \in Int, NEW c \in 1..Len(s) + 1,
         NEW t, t = SubSeq(<<lag>> \o s, 1, c)
  PROVE  /\ t \in Seq(Int) /\ Len(t) = c /\ t[1] = lag
         /\ \A i \in 1..c - 1 : t[i + 1] = s[i]
<1> DEFINE u == <<lag>> \o s
<1>1. u \in Seq(Int) /\ Len(u) = Len(s) + 1 /\ u[1] = lag /\ \A i \in 1..Len(s) : u[i + 1] = s[i]
  OBVIOUS
<1> HIDE DEF u
<1>2. t = SubSeq(u, 1, c) BY DEF u
<1>3. t \in Seq(Int) /\ Len(t) = c /\ \A i \in 1..c : t[i] = u[i]
  <2>1. c \in Nat /\ c <= Len(u) /\ u \in Seq(Int) BY <1>1
  <2>2. t = [i \in 1..c |-> u[i]] BY ONLY <1>2, <2>1
  <2>3. \A i \in 1..c : u[i] \in Int BY ONLY <2>1
  <2> QED BY ONLY <2>1, <2>2, <2>3
<1>4. t[1] = lag BY <1>1, <1>3
<1>5. ASSUME NEW i \in 1..c - 1 PROVE t[i + 1] = s[i]
  <2>1. i + 1 \in 1..c /\ i \in 1..Len(s) OBVIOUS
  <2> QED BY <1>1, <1>3, <2>1
<1> QED BY <1>3, <1>4, <1>5

LEMMA Shifted ==
  ASSUME NEW s \in Seq(Int), NEW t \in Seq(Int), NEW i \in Nat \ {0}, NEW j \in Nat, j <= Len(t) - 1,
         \A k \in 1..Len(t) - 1 : t[k + 1] = s[k],
         NEW v \in Int, LeastIn(v, s, i, j)
  PROVE  LeastIn(v, t, i + 1, j + 1)
<1>1. PICK k \in i..j : s[k] = v BY DEF LeastIn
<1>2. k + 1 \in i + 1..j + 1 /\ k \in 1..Len(t) - 1 BY <1>1
<1>3. t[k + 1] = v BY <1>1, <1>2
<1>4. ASSUME NEW n \in i + 1..j + 1 PROVE v <= t[n]
  <2>1. n - 1 \in i..j /\ n - 1 \in 1..Len(t) - 1 /\ (n - 1) + 1 = n OBVIOUS
  <2>2. t[n] = s[n - 1] BY <2>1
  <2>3. v <= s[n - 1] BY <2>1 DEF LeastIn
  <2> QED BY <2>2, <2>3
<1> QED BY <1>2, <1>3, <1>4 DEF LeastIn

\* One more sample in the block.
LEMMA Grown ==
  ASSUME NEW s \in Seq(Int), NEW t \in Seq(Int), NEW j \in Nat, j <= Len(t) - 1,
         \A k \in 1..Len(t) - 1 : t[k + 1] = s[k],
         NEW v \in Int, NEW lag \in Int, t[1] = lag,
         (j = 0 /\ lag <= v) \/ LeastIn(v, s, 1, j)
  PROVE  LeastIn(LeastOf({v, lag}), t, 1, j + 1)
<1> DEFINE w == LeastOf({v, lag})
<1>1. w = IF v <= lag THEN v ELSE lag BY LeastOfTwo
<1> HIDE DEF w
<1>2. CASE j = 0 /\ lag <= v
  <2>1. w = lag BY <1>1, <1>2
  <2> QED BY <1>2, <2>1 DEF LeastIn, w
<1>3. CASE LeastIn(v, s, 1, j)
  <2>1. LeastIn(v, t, 2, j + 1)
    <3>1. LeastIn(v, t, 1 + 1, j + 1) BY <1>3, Shifted
    <3> QED BY <3>1
  <2>2. \E k \in 1..j + 1 : t[k] = w
    <3>1. PICK k \in 2..j + 1 : t[k] = v BY <2>1 DEF LeastIn
    <3>2. k \in 1..j + 1 /\ 1 \in 1..j + 1 OBVIOUS
    <3> QED BY <1>1, <3>1, <3>2
  <2>3. ASSUME NEW k \in 1..j + 1 PROVE w <= t[k]
    <3>1. CASE k = 1 BY <1>1, <3>1
    <3>2. CASE k # 1
      <4>1. k \in 2..j + 1 /\ k \in 1..Len(t) BY <3>2
      <4>2. v <= t[k] /\ t[k] \in Int BY <2>1, <4>1 DEF LeastIn
      <4> QED BY <1>1, <4>2
    <3> QED BY <3>1, <3>2
  <2> QED BY <2>2, <2>3 DEF LeastIn, w
<1> QED BY <1>2, <1>3

-----------------------------------------------------------------------------
(* The invariant.                                                           *)

\* The chip's counter, unwrapped, when it stamped the tap of time t.
Counts(t) == boxBoot + t
\* The whole turns before a boot's first event, which no place counts.
Turns == Span * (Counts(placed.first) \div Span)
\* The newest tap seen, as the state has it.
Newest == d.epoch + d.last + Turns - boxBoot

States == [epoch : Nat, last : 0 .. Span - 1, seen : BOOLEAN, now : Int, prev : Int,
           block : 0 .. FloorBlock - 1, host : Int]
Places == [host : Int, box : Nat, excess : Int, tap : Nat, first : Nat, newest : Nat,
           strayed : BOOLEAN, seen : BOOLEAN]

TimeTyped ==
  /\ time \in 0 .. MaxTime /\ boxBoot \in Int /\ resets \in Nat
  /\ coming \in SUBSET (0 .. time)
  /\ d \in States /\ placed \in Places /\ lags \in Seq(Int)
  /\ placed.seen = d.seen

\* What the state counts of roll-overs is whole ranges, whatever strayed.
WholeTurns == \E k \in Nat : d.epoch = Span * k

\* The state is that of the newest tap seen, until an event strays.
Tracks ==
  /\ ~d.seen => d.epoch = 0 /\ ~placed.strayed
  /\ d.seen /\ ~placed.strayed =>
       Newest = placed.newest /\ d.last = Counts(placed.newest) % Span

\* `now` is the least lag of this block, `prev` of the last.
Blocks ==
  /\ \A i \in 1 .. Len(lags) : lags[i] <= MaxTime
  /\ d.seen => Len(lags) >= 1
  /\ (d.now = NoLag /\ d.block = 0) \/ LeastIn(d.now, lags, 1, d.block)
  /\ \/ d.prev = NoLag /\ Len(lags) = d.block
     \/ Len(lags) >= d.block + FloorBlock /\ LeastIn(d.prev, lags, d.block + 1, d.block + FloorBlock)

TimelineInv == TimeTyped /\ WholeTurns /\ Tracks /\ Blocks /\ BoxExact

LEMMA SpanIs == Span \in Nat \ {0} /\ HalfRange \in Nat \ {0} /\ Span = 2 * HalfRange
<1>1. Span \in Nat /\ Span = 2 * HalfRange /\ HalfRange > 0 BY SpanAssumption
<1>2. HalfRange \in Int
  <2>1. 2 \in Nat \ {0} /\ Span \in Int BY <1>1
  <2>2. Span \div 2 \in Int BY ONLY <2>1, Euclid
  <2> QED BY <2>2 DEF HalfRange
<1> QED BY ONLY <1>1, <1>2

LEMMA FieldsOf ==
  ASSUME TimeTyped
  PROVE  /\ d.epoch \in Nat /\ d.last \in 0 .. Span - 1 /\ d.seen \in BOOLEAN /\ d.now \in Int
         /\ d.prev \in Int /\ d.block \in 0 .. FloorBlock - 1 /\ d.host \in Int
         /\ placed.first \in Nat /\ placed.seen \in BOOLEAN /\ placed.box \in Nat /\ placed.tap \in Nat
         /\ placed.newest \in Nat /\ placed.strayed \in BOOLEAN
         /\ Counts(placed.first) \in Int /\ Turns \in Int /\ Newest \in Int
<1>1. /\ d.epoch \in Nat /\ d.last \in 0 .. Span - 1 /\ d.seen \in BOOLEAN /\ d.now \in Int
      /\ d.prev \in Int /\ d.block \in 0 .. FloorBlock - 1 /\ d.host \in Int
  BY DEF TimeTyped, States
<1>2. /\ placed.first \in Nat /\ placed.seen \in BOOLEAN /\ placed.box \in Nat /\ placed.tap \in Nat
      /\ placed.newest \in Nat /\ placed.strayed \in BOOLEAN
  BY DEF TimeTyped, Places
<1>3. boxBoot \in Int BY DEF TimeTyped
<1>4. Counts(placed.first) \in Int BY <1>2, <1>3 DEF Counts
<1>5. Turns \in Int
  <2>1. Counts(placed.first) \div Span \in Int BY ONLY <1>4, SpanIs, Euclid
  <2>2. Span * (Counts(placed.first) \div Span) \in Int BY ONLY <2>1, SpanIs, TimesGrows
  <2> QED BY <2>2 DEF Turns
<1>6. Newest \in Int
  <2>1. d.last \in Int /\ d.epoch \in Int BY <1>1, SpanIs
  <2> QED BY <1>3, <1>5, <2>1 DEF Newest
<1> QED BY <1>1, <1>2, <1>4, <1>5, <1>6

\* An event on its way, and the counter at its tap.
LEMMA ComingIs ==
  ASSUME TimeTyped, NEW t \in coming
  PROVE  /\ t \in Nat /\ time \in Nat /\ boxBoot \in Int /\ Counts(t) = boxBoot + t /\ Counts(t) \in Int
         /\ Stamp(t) = Counts(t) % Span /\ Stamp(t) \in 0 .. Span - 1
         /\ Counts(t) = Span * (Counts(t) \div Span) + Stamp(t) /\ Counts(t) \div Span \in Int
<1>1. time \in Nat /\ boxBoot \in Int /\ coming \in SUBSET (0 .. time)
  BY ONLY TimeTyped, TimelineBoundAssumption DEF TimeTyped
<1>2. t \in Nat BY ONLY <1>1, t \in coming
<1>3. Counts(t) = boxBoot + t /\ Counts(t) \in Int BY ONLY <1>1, <1>2 DEF Counts
<1>4. Stamp(t) = Counts(t) % Span BY DEF Stamp, Counts
<1> DEFINE n == Counts(t)
           raw == Stamp(t)
<1> HIDE DEF n, raw
<1>5. n \in Int /\ raw = n % Span BY ONLY <1>3, <1>4 DEF n, raw
<1>6. n % Span \in 0 .. Span - 1 /\ n = Span * (n \div Span) + (n % Span) /\ n \div Span \in Int
  BY ONLY <1>5, SpanIs, Euclid
<1>7. raw \in 0 .. Span - 1 /\ n = Span * (n \div Span) + raw /\ n \div Span \in Int
  BY ONLY <1>5, <1>6
<1> QED BY ONLY <1>1, <1>2, <1>3, <1>4, <1>7 DEF n, raw

\* Timeline::box_us_of of an event that does not stray: what it says of the place, and
\* of the newest tap.
LEMMA Unwraps ==
  ASSUME TimelineInv, NEW t \in coming, d.seen, ~placed.strayed, ~Strays(t)
  PROVE  /\ t >= Newest =>
              /\ \E epoch \in Nat :
                   /\ box_us_of(d, Stamp(t)).state = [d EXCEPT !.last = Stamp(t), !.epoch = epoch]
                   /\ epoch + Stamp(t) = Counts(t) - Turns
              /\ box_us_of(d, Stamp(t)).box = Counts(t) - Turns
         /\ t < Newest =>
              /\ box_us_of(d, Stamp(t)).state = d
              /\ box_us_of(d, Stamp(t)).box = AtLeast(Counts(t) - Turns, 0)
<1> DEFINE raw == Stamp(t)
           u == box_us_of(d, raw)
<1>1. /\ d.epoch \in Nat /\ d.last \in 0 .. Span - 1 /\ Turns \in Int /\ Newest \in Int
      /\ boxBoot \in Int /\ t \in Nat /\ Counts(t) = boxBoot + t /\ Counts(Newest) = boxBoot + Newest
      /\ raw = (boxBoot + t) % Span
  <2>1. TimeTyped BY DEF TimelineInv
  <2>2. boxBoot \in Int /\ t \in Nat BY ONLY <2>1, ComingIs, t \in coming
  <2> QED BY <2>1, <2>2, FieldsOf DEF Counts, Stamp
<1>0. /\ d.epoch \in Nat /\ d.last \in 0 .. Span - 1 /\ Turns \in Int /\ Newest \in Int
      /\ boxBoot \in Int /\ t \in Nat /\ Counts(t) = boxBoot + t
  BY ONLY <1>1
<1>9. Newest = placed.newest /\ d.last = Counts(placed.newest) % Span BY DEF TimelineInv, Tracks
<1>2. d.last = (boxBoot + Newest) % Span BY ONLY <1>1, <1>9
<1>3. d.epoch + d.last = boxBoot + Newest - Turns BY <1>1, SpanIs DEF Newest
<1>4. t - Newest <= HalfRange /\ Newest - t < HalfRange
  <2>1. placed.seen BY DEF TimelineInv, TimeTyped
  <2>2. ~(t - placed.newest > HalfRange) /\ ~(placed.newest - t >= HalfRange) BY <2>1 DEF Strays
  <2> QED BY ONLY <1>0, <1>9, <2>2, SpanIs
<1>5. raw \in 0 .. Span - 1
  <2>1. boxBoot + t \in Int BY <1>1
  <2> QED BY ONLY <1>1, <2>1, SpanIs, Euclid
<1>6. u = IF Ahead(raw, d.last) <= HalfRange
          THEN LET epoch == IF raw < d.last THEN d.epoch + Span ELSE d.epoch
               IN [state |-> [d EXCEPT !.last = raw, !.epoch = epoch], box |-> epoch + raw]
          ELSE [state |-> d, box |-> AtLeast(d.epoch + d.last - Ahead(d.last, raw), 0)]
  BY DEF box_us_of
<1> HIDE DEF u, raw
<1>7. ASSUME t >= Newest
      PROVE  /\ \E epoch \in Nat : u.state = [d EXCEPT !.last = raw, !.epoch = epoch]
                                  /\ epoch + raw = Counts(t) - Turns
             /\ u.box = Counts(t) - Turns
  <2> DEFINE k == t - Newest
             epoch == IF raw < d.last THEN d.epoch + Span ELSE d.epoch
  <2>1. k \in 0 .. Span - 1 /\ boxBoot + Newest \in Int /\ (boxBoot + Newest) + k = boxBoot + t
    BY ONLY <1>1, <1>4, <1>7, SpanIs
  <2> HIDE DEF k
  <2>2. raw = IF d.last + k < Span THEN d.last + k ELSE d.last + k - Span
    <3>1. ((boxBoot + Newest) + k) % Span
             = IF ((boxBoot + Newest) % Span) + k < Span THEN ((boxBoot + Newest) % Span) + k
               ELSE ((boxBoot + Newest) % Span) + k - Span
      BY ONLY <2>1, SpanIs, StepUp
    <3> QED BY ONLY <1>1, <1>2, <2>1, <3>1
  <2>3. k <= HalfRange BY <1>4 DEF k
  <2>4. raw - d.last = k \/ (raw - d.last = k - Span /\ raw < d.last)
    BY ONLY <1>1, <1>5, <2>1, <2>2, SpanIs
  <2>5. Ahead(raw, d.last) = k
    <3>1. raw - d.last \in Int BY ONLY <1>1, <1>5, SpanIs
    <3>2. CASE raw - d.last = k
      <4>1. raw - d.last = Span * 0 + k BY ONLY <2>1, <3>2, SpanIs
      <4> QED BY ONLY <2>1, <3>1, <4>1, SpanIs, Remainder, 0 \in Int DEF Ahead
    <3>3. CASE raw - d.last = k - Span
      <4>1. raw - d.last = Span * (-1) + k BY ONLY <2>1, <3>3, SpanIs
      <4> QED BY ONLY <2>1, <3>1, <4>1, SpanIs, Remainder, -1 \in Int DEF Ahead
    <3> QED BY <2>4, <3>2, <3>3
  <2>6. Ahead(raw, d.last) <= HalfRange BY ONLY <2>1, <2>3, <2>5, SpanIs
  <2>7. epoch \in Nat BY ONLY <1>1, SpanIs
  <2>8. u = [state |-> [d EXCEPT !.last = raw, !.epoch = epoch], box |-> epoch + raw]
    BY ONLY <1>6, <2>6
  <2>9. epoch + raw = Counts(t) - Turns
    <3>1. epoch + raw = d.epoch + d.last + k
      <4>1. CASE raw - d.last = k
        <5>1. ~(raw < d.last) BY ONLY <1>0, <1>5, <2>1, <4>1
        <5>2. epoch = d.epoch BY ONLY <5>1
        <5> HIDE DEF epoch
        <5> QED BY ONLY <1>0, <1>5, <2>1, <4>1, <5>2, SpanIs
      <4>2. CASE raw - d.last = k - Span /\ raw < d.last
        <5>1. epoch = d.epoch + Span BY ONLY <4>2
        <5> HIDE DEF epoch
        <5> QED BY ONLY <1>0, <1>5, <2>1, <4>2, <5>1, SpanIs
      <4> QED BY <2>4, <4>1, <4>2
    <3>2. boxBoot + t = boxBoot + Newest + k BY ONLY <1>0, <2>1, SpanIs
    <3> HIDE DEF epoch
    <3> QED BY ONLY <1>0, <1>3, <1>5, <2>1, <2>7, <3>1, <3>2, SpanIs
  <2> HIDE DEF epoch
  <2>10. u.state = [d EXCEPT !.last = raw, !.epoch = epoch] /\ u.box = epoch + raw
    BY ONLY <2>8
  <2>11. \E e \in Nat : u.state = [d EXCEPT !.last = raw, !.epoch = e] /\ e + raw = Counts(t) - Turns
    BY ONLY <2>7, <2>9, <2>10
  <2>12. u.box = Counts(t) - Turns BY ONLY <2>9, <2>10
  <2> QED BY ONLY <2>11, <2>12
<1>8. ASSUME t < Newest
      PROVE  u.state = d /\ u.box = AtLeast(Counts(t) - Turns, 0)
  <2> DEFINE k == Newest - t
  <2>1. k \in 1 .. HalfRange - 1 /\ boxBoot + t \in Int /\ (boxBoot + t) + k = boxBoot + Newest
        /\ k \in 0 .. Span - 1
    BY ONLY <1>1, <1>4, <1>8, SpanIs
  <2> HIDE DEF k
  <2>2. d.last = IF raw + k < Span THEN raw + k ELSE raw + k - Span
    <3>1. ((boxBoot + t) + k) % Span
             = IF ((boxBoot + t) % Span) + k < Span THEN ((boxBoot + t) % Span) + k
               ELSE ((boxBoot + t) % Span) + k - Span
      BY ONLY <2>1, SpanIs, StepUp
    <3> QED BY ONLY <1>1, <1>2, <2>1, <3>1
  <2>3. d.last - raw = k \/ d.last - raw = k - Span
    BY ONLY <1>1, <1>5, <2>1, <2>2, SpanIs
  <2>4. Ahead(d.last, raw) = k
    <3>1. d.last - raw \in Int BY ONLY <1>1, <1>5, SpanIs
    <3>2. CASE d.last - raw = k
      <4>1. d.last - raw = Span * 0 + k BY ONLY <2>1, <3>2, SpanIs
      <4> QED BY ONLY <2>1, <3>1, <4>1, SpanIs, Remainder, 0 \in Int DEF Ahead
    <3>3. CASE d.last - raw = k - Span
      <4>1. d.last - raw = Span * (-1) + k BY ONLY <2>1, <3>3, SpanIs
      <4> QED BY ONLY <2>1, <3>1, <4>1, SpanIs, Remainder, -1 \in Int DEF Ahead
    <3> QED BY <2>3, <3>2, <3>3
  <2>5. Ahead(raw, d.last) = Span - k
    <3>1. raw - d.last \in Int /\ Span - k \in 0 .. Span - 1 BY ONLY <1>1, <1>5, <2>1, SpanIs
    <3>2. CASE d.last - raw = k
      <4>1. raw - d.last = Span * (-1) + (Span - k) BY ONLY <1>1, <1>5, <2>1, <3>2, SpanIs
      <4> QED BY ONLY <3>1, <4>1, SpanIs, Remainder, -1 \in Int DEF Ahead
    <3>3. CASE d.last - raw = k - Span
      <4>1. raw - d.last = Span * 0 + (Span - k) BY ONLY <1>1, <1>5, <2>1, <3>3, SpanIs
      <4> QED BY ONLY <3>1, <4>1, SpanIs, Remainder, 0 \in Int DEF Ahead
    <3> QED BY <2>3, <3>2, <3>3
  <2>6. ~(Ahead(raw, d.last) <= HalfRange) BY ONLY <2>1, <2>5, SpanIs
  <2>7. u = [state |-> d, box |-> AtLeast(d.epoch + d.last - Ahead(d.last, raw), 0)]
    BY ONLY <1>6, <2>6
  <2>8. d.epoch + d.last - Ahead(d.last, raw) = Counts(t) - Turns
    BY ONLY <1>0, <1>3, <2>1, <2>4, SpanIs
  <2>9. u.state = d /\ u.box = AtLeast(Counts(t) - Turns, 0) BY ONLY <2>7, <2>8
  <2> QED BY ONLY <2>9
<1> QED BY <1>7, <1>8 DEF u, raw

-----------------------------------------------------------------------------
(* One observation.                                                         *)

\* The state box_us_of leaves, and the place it gives.
Unwrapped(t) == box_us_of(d, Stamp(t)).state
Box(t) == box_us_of(d, Stamp(t)).box
FirstOf(t) == IF placed.seen THEN placed.first ELSE t
TurnsOf(t) == Span * (Counts(FirstOf(t)) \div Span)

\* Whatever strayed, box_us_of counts whole ranges: the forward step with what the state
\* has, plus one at a roll-over, the backward step by the distance to the state.
LEMMA UnwrapsWhole ==
  ASSUME TimelineInv, NEW t \in coming
  PROVE  /\ Unwrapped(t) \in States /\ Unwrapped(t).seen = TRUE
         /\ Unwrapped(t).now = d.now /\ Unwrapped(t).prev = d.prev /\ Unwrapped(t).block = d.block
         /\ \E k \in Nat : Unwrapped(t).epoch = Span * k
         /\ Box(t) \in Nat /\ (Box(t) > 0 => (Counts(t) - Box(t)) % Span = 0)
<1> DEFINE raw == Stamp(t)
           n == Counts(t)
           q == Counts(t) \div Span
           u == box_us_of(d, raw)
           behind == Ahead(d.last, raw)
<1>1. d \in States /\ TimeTyped BY DEF TimelineInv, TimeTyped
<1>2. d.last \in 0 .. Span - 1 /\ d.seen \in BOOLEAN /\ d.epoch \in Nat BY ONLY <1>1 DEF States
<1>3. n \in Int /\ q \in Int /\ raw \in 0 .. Span - 1 /\ n = Span * q + raw BY ONLY <1>1, ComingIs, t \in coming
<1>4. PICK k \in Nat : d.epoch = Span * k BY DEF TimelineInv, WholeTurns
<1>5. u = IF ~d.seen
          THEN [state |-> [d EXCEPT !.seen = TRUE, !.last = raw], box |-> d.epoch + raw]
          ELSE IF Ahead(raw, d.last) <= HalfRange
          THEN LET epoch == IF raw < d.last THEN d.epoch + Span ELSE d.epoch
               IN [state |-> [d EXCEPT !.last = raw, !.epoch = epoch], box |-> epoch + raw]
          ELSE [state |-> d, box |-> AtLeast(d.epoch + d.last - behind, 0)]
  BY DEF box_us_of
<1> HIDE DEF u, raw, n, q, behind
<1>6. ASSUME NEW e \in Nat, NEW j \in Nat, e = Span * j, u.box = e + raw
      PROVE  u.box \in Nat /\ (n - u.box) % Span = 0
  <2>1. u.box \in Nat BY ONLY <1>3, <1>6, SpanIs
  <2>2. n - u.box \in Int /\ n - u.box = Span * q - Span * j /\ j \in Int
    <3>1. Span * q \in Int /\ Span * j \in Int BY ONLY <1>3, <1>6, SpanIs, TimesGrows
    <3> QED BY ONLY <1>3, <1>6, <3>1, SpanIs
  <2>3. (n - u.box) % Span = 0 BY ONLY <1>3, <2>2, SpanIs, WholeOff
  <2> QED BY ONLY <2>1, <2>3
<1>7. CASE ~d.seen
  <2>1. u.state = [d EXCEPT !.seen = TRUE, !.last = raw] /\ u.box = d.epoch + raw
    BY ONLY <1>5, <1>7
  <2>2. /\ u.state \in States /\ u.state.seen = TRUE /\ u.state.epoch = d.epoch
        /\ u.state.now = d.now /\ u.state.prev = d.prev /\ u.state.block = d.block
    BY ONLY <1>1, <1>3, <2>1 DEF States
  <2>3. u.box \in Nat /\ (n - u.box) % Span = 0 BY ONLY <1>2, <1>4, <1>6, <2>1
  <2> QED BY ONLY <1>4, <2>2, <2>3 DEF Unwrapped, Box, u, raw, n
<1>8. CASE d.seen /\ Ahead(raw, d.last) <= HalfRange
  <2> DEFINE epoch == IF raw < d.last THEN d.epoch + Span ELSE d.epoch
  <2>1. u.state = [d EXCEPT !.last = raw, !.epoch = epoch] /\ u.box = epoch + raw
    BY ONLY <1>5, <1>8
  <2>2. epoch \in Nat BY ONLY <1>2, SpanIs
  <2>3. PICK j \in Nat : epoch = Span * j
    <3>1. CASE raw < d.last
      <4>1. epoch = d.epoch + Span BY ONLY <3>1
      <4>2. Span * (k + 1) = Span * k + Span BY ONLY k \in Nat, SpanIs, SMTT(30)
      <4>3. k + 1 \in Nat /\ epoch = Span * (k + 1) BY ONLY k \in Nat, <1>4, <4>1, <4>2
      <4> QED BY ONLY <4>3
    <3>2. CASE ~(raw < d.last) BY ONLY k \in Nat, <1>4, <3>2
    <3> QED BY ONLY <3>1, <3>2
  <2> HIDE DEF epoch
  <2>4. /\ u.state \in States /\ u.state.seen = d.seen /\ u.state.epoch = epoch
        /\ u.state.now = d.now /\ u.state.prev = d.prev /\ u.state.block = d.block
    BY ONLY <1>1, <1>3, <2>1, <2>2 DEF States
  <2>5. u.box \in Nat /\ (n - u.box) % Span = 0 BY ONLY <1>6, <2>1, <2>2, <2>3
  <2> QED BY ONLY <1>8, <2>3, <2>4, <2>5 DEF Unwrapped, Box, u, raw, n
<1>9. CASE d.seen /\ ~(Ahead(raw, d.last) <= HalfRange)
  <2>1. u.state = d /\ u.box = AtLeast(d.epoch + d.last - behind, 0) BY ONLY <1>5, <1>9
  <2> DEFINE j == (d.last - raw) \div Span
  <2>2. d.last - raw \in Int BY ONLY <1>2, <1>3, SpanIs
  <2>3. behind \in 0 .. Span - 1 /\ d.last - raw = Span * j + behind /\ j \in Int
    BY ONLY <2>2, SpanIs, Euclid DEF behind, Ahead
  <2> HIDE DEF j
  <2>4. u.box \in Int /\ u.box >= 0 /\ (u.box > 0 => u.box = d.epoch + d.last - behind)
    <3>1. d.epoch + d.last - behind \in Int BY ONLY <1>2, <2>3, SpanIs
    <3> QED BY ONLY <2>1, <3>1, AtLeastIs, 0 \in Int
  <2>5. ASSUME u.box > 0 PROVE (n - u.box) % Span = 0
    <3>1. Span * q \in Int /\ Span * k \in Int /\ Span * j \in Int
      BY ONLY <1>3, k \in Nat, <2>3, SpanIs, TimesGrows
    <3>2. Span * (k + j) = Span * k + Span * j /\ k + j \in Int
      BY ONLY k \in Nat, <2>3, SpanIs, SMTT(30)
    <3>5. PICK A \in Int, B \in Int, C \in Int : A = Span * q /\ B = Span * k /\ C = Span * j
      BY ONLY <3>1
    <3>6. n = A + raw /\ d.epoch = B /\ d.last - raw = C + behind /\ Span * (k + j) = B + C
      BY ONLY <1>3, <1>4, <2>3, <3>2, <3>5
    <3>7. u.box = d.epoch + d.last - behind BY ONLY <2>4, <2>5
    <3>8. raw \in Int /\ d.last \in Int /\ behind \in Int /\ d.epoch \in Int BY ONLY <1>2, <1>3, <2>3, SpanIs
    <3>9. n - u.box = A - (B + C) BY ONLY <3>5, <3>6, <3>7, <3>8
    <3>3. n - u.box = Span * q - Span * (k + j) BY ONLY <3>5, <3>6, <3>9
    <3>4. n - u.box \in Int BY ONLY <1>3, <2>4
    <3>10. PICK a \in Int, p \in Int, i \in Int : a = n - u.box /\ p = q /\ i = k + j
      BY ONLY <1>3, <3>2, <3>4
    <3>11. a = Span * p - Span * i BY ONLY <3>3, <3>10
    <3>12. a % Span = 0 BY ONLY <3>10, <3>11, SpanIs, WholeOff
    <3> QED BY ONLY <3>10, <3>12
  <2>6. u.box \in Nat BY ONLY <2>4
  <2> QED BY ONLY <1>1, <1>4, <1>9, <2>1, <2>5, <2>6 DEF Unwrapped, Box, u, raw, n
<1> QED BY ONLY <1>2, <1>7, <1>8, <1>9

\* The state after events that did not stray is that of the newest tap, the place exact but
\* for what came before the boot's first.
LEMMA UnwrappedIs ==
  ASSUME TimelineInv, NEW t \in coming, ~placed.strayed, ~Strays(t)
  PROVE  /\ TurnsOf(t) \in Int /\ (d.seen => TurnsOf(t) = Turns)
         /\ Unwrapped(t).epoch + Unwrapped(t).last + TurnsOf(t) - boxBoot
              = IF d.seen /\ t < Newest THEN Newest ELSE t
         /\ Unwrapped(t).last = Counts(IF d.seen /\ t < Newest THEN Newest ELSE t) % Span
         /\ Box(t) \in Nat
         /\ Box(t) > 0 => Counts(t) - Box(t) = TurnsOf(t)
<1> DEFINE raw == Stamp(t)
<1>1. /\ TimeTyped /\ d \in States /\ t \in Nat /\ boxBoot \in Int /\ Counts(t) = boxBoot + t
      /\ placed.seen = d.seen /\ d.seen \in BOOLEAN
  <2>1. TimeTyped BY DEF TimelineInv
  <2>2. d \in States /\ placed.seen = d.seen BY ONLY <2>1 DEF TimeTyped
  <2> QED BY ONLY <2>1, <2>2, FieldsOf, ComingIs, t \in coming
<1>2. Counts(t) \in Int /\ raw = Counts(t) % Span BY ONLY <1>1, ComingIs, t \in coming
<1>3. raw \in 0 .. Span - 1 /\ Counts(t) = Span * (Counts(t) \div Span) + raw
  BY ONLY <1>1, ComingIs, t \in coming
<1> HIDE DEF raw
<1>4. CASE d.seen
  <2>1. TurnsOf(t) = Turns BY <1>1, <1>4 DEF TurnsOf, Turns, FirstOf
  <2>2. Turns \in Int /\ Newest \in Int /\ d.epoch \in Nat /\ d.last \in 0 .. Span - 1
    BY <1>1, FieldsOf
  <2>5. d \in States BY <1>1
  <2>3. CASE t >= Newest
    <3>1. ~(t < Newest) BY ONLY <1>1, <2>2, <2>3
    <3>2. PICK epoch \in Nat : /\ Unwrapped(t) = [d EXCEPT !.last = raw, !.epoch = epoch]
                               /\ epoch + raw = Counts(t) - Turns
      BY <1>4, <2>3, Unwraps DEF Unwrapped, raw
    <3>3. Box(t) = Counts(t) - Turns BY <1>4, <2>3, Unwraps DEF Box
    <3>4. /\ Unwrapped(t) \in States /\ Unwrapped(t).seen = d.seen
          /\ Unwrapped(t).now = d.now /\ Unwrapped(t).prev = d.prev /\ Unwrapped(t).block = d.block
          /\ Unwrapped(t).epoch = epoch /\ Unwrapped(t).last = raw
      BY ONLY <1>3, <2>5, <3>2 DEF States
    <3>5. epoch + raw + Turns - boxBoot = t
      BY ONLY <1>1, <1>2, <1>3, <2>2, <3>2, SpanIs
    <3>6. Box(t) \in Nat
      <4>1. epoch + raw \in Nat BY ONLY <1>3, <3>2, SpanIs
      <4> QED BY ONLY <3>2, <3>3, <4>1
    <3>7. Counts(t) - Box(t) = Turns BY ONLY <1>2, <2>2, <3>3
    <3> QED BY ONLY <1>2, <1>4, <2>1, <2>2, <3>1, <3>4, <3>5, <3>6, <3>7
  <2>4. CASE ~(t >= Newest)
    <3>1. t < Newest BY ONLY <1>1, <2>2, <2>4
    <3>2. Unwrapped(t) = d /\ Box(t) = AtLeast(Counts(t) - Turns, 0)
      BY <1>4, <3>1, Unwraps DEF Unwrapped, Box
    <3>3. Box(t) \in Nat /\ (Box(t) > 0 => Counts(t) - Box(t) = Turns)
      <4>1. Counts(t) - Turns \in Int BY ONLY <1>2, <2>2
      <4>2. Box(t) \in Int /\ Box(t) >= 0 /\ (Box(t) > 0 => Box(t) = Counts(t) - Turns)
        BY ONLY <3>2, <4>1, AtLeastIs, 0 \in Int
      <4> QED BY ONLY <1>2, <2>2, <4>2
    <3>4. d.last = Counts(Newest) % Span BY <1>4 DEF TimelineInv, Tracks, Counts
    <3>5. d.epoch + d.last + Turns - boxBoot = Newest BY DEF Newest
    <3> QED BY ONLY <1>1, <1>4, <2>1, <2>2, <3>1, <3>2, <3>3, <3>4, <3>5
  <2> QED BY <2>3, <2>4
<1>5. CASE ~d.seen
  <2>1. FirstOf(t) = t BY <1>1, <1>5 DEF FirstOf
  <2>2. TurnsOf(t) = Span * (Counts(t) \div Span) BY <2>1 DEF TurnsOf
  <2>3. TurnsOf(t) \in Int
    <3>1. Counts(t) \div Span \in Int BY ONLY <1>2, SpanIs, Euclid
    <3> QED BY ONLY <2>2, <3>1, SpanIs, TimesGrows
  <2>4. d.epoch = 0 BY <1>5 DEF TimelineInv, Tracks
  <2>5. Unwrapped(t) = [d EXCEPT !.seen = TRUE, !.last = raw] /\ Box(t) = d.epoch + raw
    BY <1>5 DEF Unwrapped, Box, box_us_of, raw
  <2>11. d \in States BY <1>1
  <2>6. /\ Unwrapped(t) \in States /\ Unwrapped(t).seen = TRUE
        /\ Unwrapped(t).now = d.now /\ Unwrapped(t).prev = d.prev /\ Unwrapped(t).block = d.block
        /\ Unwrapped(t).epoch = d.epoch /\ Unwrapped(t).last = raw
    BY ONLY <1>3, <2>5, <2>11 DEF States
  <2>7. Box(t) \in Nat /\ Box(t) = raw BY ONLY <1>3, <2>4, <2>5, SpanIs
  <2>8. Counts(t) = TurnsOf(t) + raw BY ONLY <1>3, <2>2
  <2>9. Counts(t) - Box(t) = TurnsOf(t) BY ONLY <1>2, <1>3, <2>3, <2>7, <2>8, SpanIs
  <2>10. Unwrapped(t).epoch + Unwrapped(t).last + TurnsOf(t) - boxBoot = t
    <3>1. boxBoot \in Int /\ t \in Nat /\ boxBoot + t = TurnsOf(t) + raw BY <1>1, <2>8
    <3>2. raw \in Int BY ONLY <1>3, SpanIs
    <3>3. Unwrapped(t).epoch = 0 /\ Unwrapped(t).last = raw BY ONLY <2>4, <2>6
    <3> QED BY ONLY <2>3, <3>1, <3>2, <3>3
  <2> QED BY ONLY <1>2, <1>5, <2>3, <2>6, <2>7, <2>9, <2>10
<1> QED BY <1>1, <1>4, <1>5

\* DomainState::push_lag.
LEMMA Pushes ==
  ASSUME NEW s \in States, NEW lag \in Int
  PROVE  /\ push_lag(s, lag) \in States
         /\ push_lag(s, lag).epoch = s.epoch /\ push_lag(s, lag).last = s.last
         /\ push_lag(s, lag).seen = s.seen
         /\ s.block + 1 >= FloorBlock =>
              /\ push_lag(s, lag).now = NoLag /\ push_lag(s, lag).prev = LeastOf({s.now, lag})
              /\ push_lag(s, lag).block = 0
         /\ ~(s.block + 1 >= FloorBlock) =>
              /\ push_lag(s, lag).now = LeastOf({s.now, lag}) /\ push_lag(s, lag).prev = s.prev
              /\ push_lag(s, lag).block = s.block + 1
<1> DEFINE min == LeastOf({s.now, lag})
<1>1. s.now \in Int /\ s.block \in 0 .. FloorBlock - 1 /\ FloorBlock \in Nat \ {0}
  BY BlockAssumption DEF States
<1>2. min \in Int BY <1>1, LeastOfTwo
<1>3. NoLag \in Int BY TimelineBoundAssumption DEF NoLag
<1>4. push_lag(s, lag) = IF s.block + 1 >= FloorBlock
                         THEN [s EXCEPT !.now = NoLag, !.prev = min, !.block = 0]
                         ELSE [s EXCEPT !.now = min, !.block = @ + 1]
  BY DEF push_lag
<1> HIDE DEF min
<1>5. CASE s.block + 1 >= FloorBlock
  <2>1. push_lag(s, lag) = [s EXCEPT !.now = NoLag, !.prev = min, !.block = 0] BY <1>4, <1>5
  <2>2. 0 \in 0 .. FloorBlock - 1 BY ONLY <1>1
  <2> QED BY ONLY <1>2, <1>3, <1>5, <2>1, <2>2, s \in States DEF States, min
<1>6. CASE ~(s.block + 1 >= FloorBlock)
  <2>1. push_lag(s, lag) = [s EXCEPT !.now = min, !.block = s.block + 1] BY <1>4, <1>6
  <2>2. s.block + 1 \in 0 .. FloorBlock - 1 BY ONLY <1>1, <1>6
  <2> QED BY ONLY <1>2, <1>6, <2>1, <2>2, s \in States DEF States, min
<1> QED BY <1>5, <1>6

\* Timeline::observe_stamp, field by field.
LEMMA ObserveDoes ==
  ASSUME TimelineInv, NEW t \in coming, Observe(t)
  PROVE  /\ coming' = coming \ {t} /\ time' = time /\ boxBoot' = boxBoot /\ resets' = resets
         /\ LET p == push_lag(Unwrapped(t), time - Box(t))
            IN  /\ d' \in States /\ d'.epoch = p.epoch /\ d'.last = p.last /\ d'.seen = p.seen
                /\ d'.now = p.now /\ d'.prev = p.prev /\ d'.block = p.block
         /\ placed' \in Places /\ placed'.seen = TRUE /\ placed'.box = Box(t) /\ placed'.tap = t
         /\ placed'.first = FirstOf(t)
         /\ placed'.newest = IF placed.seen THEN AtLeast(t, placed.newest) ELSE t
         /\ placed'.strayed = (placed.strayed \/ Strays(t))
         /\ lags' = SubSeq(<<time - Box(t)>> \o lags, 1, LeastOf({Len(lags) + 1, 2 * FloorBlock}))
<1> DEFINE lag == time - Box(t)
           p == push_lag(Unwrapped(t), lag)
           smoothed == Smoothed(AtLeast(Box(t) + floor(p), 0), d.host)
           newest == IF placed.seen THEN AtLeast(t, placed.newest) ELSE t
<1>1. TimeTyped /\ t \in Nat /\ time \in Nat /\ placed.first \in Nat /\ d.host \in Int
      /\ placed.newest \in Nat /\ placed.strayed \in BOOLEAN
  <2>1. TimeTyped BY DEF TimelineInv
  <2> QED BY ONLY <2>1, FieldsOf, ComingIs, t \in coming
<1>2. Unwrapped(t) \in States /\ Box(t) \in Nat BY UnwrapsWhole
<1>3. lag \in Int BY <1>1, <1>2
<1> HIDE DEF lag
<1>4. p \in States BY ONLY <1>2, <1>3, Pushes
<1>5. /\ d' = [p EXCEPT !.host = smoothed]
      /\ placed' = [host |-> smoothed, box |-> Box(t), excess |-> AtLeast(lag - floor(p), 0),
                    tap |-> t, first |-> FirstOf(t), newest |-> newest,
                    strayed |-> placed.strayed \/ Strays(t), seen |-> TRUE]
      /\ lags' = SubSeq(<<lag>> \o lags, 1, LeastOf({Len(lags) + 1, 2 * FloorBlock}))
      /\ coming' = coming \ {t} /\ time' = time /\ boxBoot' = boxBoot /\ resets' = resets
  BY DEF Observe, observe_stamp, Unwrapped, Box, FirstOf, lag
<1>13. newest \in Nat
  <2>1. AtLeast(t, placed.newest) \in Nat BY ONLY <1>1 DEF AtLeast
  <2> QED BY ONLY <1>1, <2>1
<1>14. (placed.strayed \/ Strays(t)) \in BOOLEAN OBVIOUS
<1> HIDE DEF p, smoothed, newest
<1>6. floor(p) \in Int
  <2>1. p.now \in Int /\ p.prev \in Int BY ONLY <1>4 DEF States
  <2> QED BY ONLY <2>1, LeastOfTwo DEF floor
<1>7. smoothed \in Int
  <2>1. Box(t) + floor(p) \in Int BY ONLY <1>2, <1>6
  <2>2. AtLeast(Box(t) + floor(p), 0) \in Int BY ONLY <2>1, AtLeastIs, 0 \in Int
  <2>3. AtLeast(AtLeast(Box(t) + floor(p), 0), d.host) \in Int BY ONLY <1>1, <2>2, AtLeastIs
  <2> QED BY ONLY <2>2, <2>3 DEF Smoothed, smoothed
<1>8. AtLeast(lag - floor(p), 0) \in Int
  <2>1. lag - floor(p) \in Int BY ONLY <1>3, <1>6
  <2> QED BY ONLY <2>1, AtLeastIs, 0 \in Int
<1>9. FirstOf(t) \in Nat BY ONLY <1>1 DEF FirstOf
<1>10. placed' \in Places
  BY ONLY <1>1, <1>2, <1>5, <1>7, <1>8, <1>9, <1>13, <1>14, TRUE \in BOOLEAN DEF Places
<1>11. /\ d' \in States /\ d'.epoch = p.epoch /\ d'.last = p.last /\ d'.seen = p.seen
       /\ d'.now = p.now /\ d'.prev = p.prev /\ d'.block = p.block
  BY ONLY <1>4, <1>5, <1>7 DEF States
<1>12. /\ placed'.seen = TRUE /\ placed'.box = Box(t) /\ placed'.tap = t /\ placed'.first = FirstOf(t)
       /\ placed'.newest = newest /\ placed'.strayed = (placed.strayed \/ Strays(t))
  BY ONLY <1>5
<1> QED BY <1>5, <1>10, <1>11, <1>12 DEF p, lag, newest

LEMMA ObserveBlocks ==
  ASSUME TimelineInv, NEW t \in coming, Observe(t)
  PROVE  Blocks' /\ lags' \in Seq(Int)
<1> DEFINE lag == time - Box(t)
           c == LeastOf({Len(lags) + 1, 2 * FloorBlock})
           u == Unwrapped(t)
<1>1. /\ lags \in Seq(Int) /\ time \in 0 .. MaxTime /\ d.now \in Int /\ d.prev \in Int
      /\ d.block \in 0 .. FloorBlock - 1
  BY FieldsOf DEF TimelineInv, TimeTyped
<1>2. u \in States /\ u.now = d.now /\ u.prev = d.prev /\ u.block = d.block /\ Box(t) \in Nat
  BY UnwrapsWhole
<1>3. lag \in Int /\ lag <= MaxTime BY <1>1, <1>2, TimelineBoundAssumption
<1>4. FloorBlock \in Nat \ {0} /\ Len(lags) \in Nat BY <1>1, BlockAssumption
<1>5. c \in 1 .. Len(lags) + 1 /\ c <= 2 * FloorBlock /\ (Len(lags) + 1 <= 2 * FloorBlock => c = Len(lags) + 1)
      /\ (~(Len(lags) + 1 <= 2 * FloorBlock) => c = 2 * FloorBlock)
  <2>1. c = IF Len(lags) + 1 <= 2 * FloorBlock THEN Len(lags) + 1 ELSE 2 * FloorBlock
    BY <1>4, LeastOfTwo
  <2> HIDE DEF c
  <2> QED BY ONLY <1>4, <2>1
<1>6. lags' = SubSeq(<<lag>> \o lags, 1, c) BY ObserveDoes
<1> HIDE DEF c, lag
<1>7. /\ lags' \in Seq(Int) /\ Len(lags') = c /\ lags'[1] = lag
      /\ \A i \in 1 .. c - 1 : lags'[i + 1] = lags[i]
  BY ONLY <1>1, <1>3, <1>5, <1>6, ListedStamps
<1>8. /\ d'.now = push_lag(u, lag).now /\ d'.prev = push_lag(u, lag).prev
      /\ d'.block = push_lag(u, lag).block
  BY ObserveDoes DEF lag
<1> HIDE DEF u
<1>9. /\ d.block + 1 >= FloorBlock =>
           d'.now = NoLag /\ d'.prev = LeastOf({d.now, lag}) /\ d'.block = 0
      /\ ~(d.block + 1 >= FloorBlock) =>
           d'.now = LeastOf({d.now, lag}) /\ d'.prev = d.prev /\ d'.block = d.block + 1
  BY ONLY <1>2, <1>3, <1>8, Pushes
<1>10. /\ \A i \in 1 .. Len(lags) : lags[i] <= MaxTime
       /\ (d.now = NoLag /\ d.block = 0) \/ LeastIn(d.now, lags, 1, d.block)
       /\ \/ d.prev = NoLag /\ Len(lags) = d.block
          \/ Len(lags) >= d.block + FloorBlock /\ LeastIn(d.prev, lags, d.block + 1, d.block + FloorBlock)
  BY DEF TimelineInv, Blocks
<1>11. \A i \in 1 .. c : lags'[i] <= MaxTime
  <2> SUFFICES ASSUME NEW i \in 1 .. c PROVE lags'[i] <= MaxTime OBVIOUS
  <2>1. CASE i = 1 BY <1>3, <1>7, <2>1
  <2>2. CASE i # 1
    <3>1. i - 1 \in 1 .. c - 1 /\ i - 1 \in 1 .. Len(lags) /\ (i - 1) + 1 = i
      BY ONLY <1>4, <1>5, <2>2, i \in 1 .. c
    <3>2. lags'[i] = lags[i - 1] BY ONLY <1>7, <3>1
    <3> QED BY ONLY <1>10, <3>1, <3>2
  <2> QED BY <2>1, <2>2
<1>12. d.block <= Len(lags) /\ d.block + 1 <= c
  <2>1. Len(lags) = d.block \/ Len(lags) >= d.block + FloorBlock BY ONLY <1>10
  <2>2. d.block \in 0 .. FloorBlock - 1 BY ONLY <1>1
  <2> QED BY ONLY <1>4, <1>5, <2>1, <2>2
<1>13. LeastIn(LeastOf({d.now, lag}), lags', 1, d.block + 1)
  <2>1. (d.block = 0 /\ lag <= d.now) \/ LeastIn(d.now, lags, 1, d.block)
    <3>1. lag <= NoLag BY ONLY <1>3, TimelineBoundAssumption DEF NoLag
    <3> QED BY ONLY <1>10, <3>1
  <2>2. /\ d.block \in Nat /\ d.block <= Len(lags') - 1
        /\ \A k \in 1 .. Len(lags') - 1 : lags'[k + 1] = lags[k]
    BY ONLY <1>1, <1>4, <1>5, <1>7, <1>12
  <2> QED BY ONLY <1>1, <1>3, <1>7, <2>1, <2>2, Grown
<1>14. CASE d.block + 1 >= FloorBlock
  <2>1. d.block + 1 = FloorBlock BY ONLY <1>1, <1>4, <1>14
  <2>2. d'.now = NoLag /\ d'.block = 0 BY <1>9, <1>14
  <2>3. LeastIn(d'.prev, lags', d'.block + 1, d'.block + FloorBlock)
    <3>1. d'.prev = LeastOf({d.now, lag}) BY <1>9, <1>14
    <3>2. d'.block + 1 = 1 /\ d'.block + FloorBlock = d.block + 1
      BY ONLY <1>1, <1>4, <2>1, <2>2
    <3> QED BY ONLY <1>13, <3>1, <3>2
  <2>4. Len(lags') >= d'.block + FloorBlock BY ONLY <1>1, <1>4, <1>5, <1>7, <1>12, <2>1, <2>2
  <2>5. Len(lags') >= 1 BY ONLY <1>4, <1>5, <1>7
  <2>6. Blocks' BY <1>7, <1>11, <2>2, <2>3, <2>4, <2>5 DEF Blocks
  <2> QED BY <1>7, <2>6
<1>15. CASE ~(d.block + 1 >= FloorBlock)
  <2>1. d'.prev = d.prev /\ d'.block = d.block + 1 BY <1>9, <1>15
  <2>2. LeastIn(d'.now, lags', 1, d'.block) BY <1>9, <1>13, <1>15
  <2>3. \/ d'.prev = NoLag /\ Len(lags') = d'.block
        \/ Len(lags') >= d'.block + FloorBlock /\ LeastIn(d'.prev, lags', d'.block + 1, d'.block + FloorBlock)
    <3>1. CASE d.prev = NoLag /\ Len(lags) = d.block
      <4>1. c = d.block + 1 BY ONLY <1>1, <1>4, <1>5, <1>15, <3>1
      <4> QED BY ONLY <1>7, <2>1, <3>1, <4>1
    <3>2. CASE Len(lags) >= d.block + FloorBlock /\ LeastIn(d.prev, lags, d.block + 1, d.block + FloorBlock)
      <4>1. d.block + 1 + FloorBlock <= c BY ONLY <1>1, <1>4, <1>5, <1>15, <3>2
      <4>2. /\ d.block + 1 \in Nat \ {0} /\ d.block + FloorBlock \in Nat
            /\ d.block + FloorBlock <= c - 1
        <5> DEFINE b == d.block
        <5>1. b \in 0 .. FloorBlock - 1 /\ b + 1 + FloorBlock <= c BY ONLY <1>1, <4>1
        <5>2. c \in Int BY ONLY <1>4, <1>5
        <5> HIDE DEF b
        <5>3. b + 1 \in Nat \ {0} /\ b + FloorBlock \in Nat /\ b + FloorBlock <= c - 1
          BY ONLY <1>4, <5>1, <5>2
        <5> QED BY ONLY <5>3 DEF b
      <4>6. /\ d.block + FloorBlock <= Len(lags') - 1
            /\ \A k \in 1 .. Len(lags') - 1 : lags'[k + 1] = lags[k]
        BY ONLY <1>7, <4>2
      <4>3. LeastIn(d.prev, lags', (d.block + 1) + 1, (d.block + FloorBlock) + 1)
        BY ONLY <1>1, <1>7, <3>2, <4>2, <4>6, Shifted
      <4>4. d'.block + 1 = (d.block + 1) + 1 /\ d'.block + FloorBlock = (d.block + FloorBlock) + 1
        BY ONLY <1>1, <1>4, <2>1
      <4>5. Len(lags') >= d'.block + FloorBlock BY ONLY <1>1, <1>4, <1>5, <1>7, <2>1, <4>1
      <4> QED BY ONLY <2>1, <4>3, <4>4, <4>5
    <3> QED BY <1>10, <3>1, <3>2
  <2>4. Len(lags') >= 1 BY ONLY <1>4, <1>5, <1>7
  <2>5. Blocks' BY <1>7, <1>11, <2>2, <2>3, <2>4 DEF Blocks
  <2> QED BY <1>7, <2>5
<1> QED BY <1>14, <1>15


\* What an observation leaves of the newest tap and the turns not counted.
NewestOf(t) == IF d.seen /\ t < Newest THEN Newest ELSE t

LEMMA ObserveMoves ==
  ASSUME TimelineInv, NEW t \in coming, Observe(t)
  PROVE  /\ Turns' = TurnsOf(t) /\ d'.seen = TRUE /\ d'.epoch = Unwrapped(t).epoch
         /\ ~placed'.strayed =>
              /\ ~placed.strayed /\ ~Strays(t)
              /\ Newest' = NewestOf(t) /\ placed'.newest = NewestOf(t)
              /\ d'.last = Counts(NewestOf(t)) % Span
<1> DEFINE lag == time - Box(t)
           u == Unwrapped(t)
<1>1. /\ TimeTyped /\ time \in Nat /\ t \in Nat /\ Newest \in Int /\ d.seen \in BOOLEAN
      /\ placed.seen = d.seen
  <2>1. TimeTyped BY DEF TimelineInv
  <2>2. placed.seen = d.seen BY ONLY <2>1 DEF TimeTyped
  <2> QED BY ONLY <2>1, <2>2, FieldsOf, ComingIs, t \in coming
<1>2. u \in States /\ u.seen = TRUE /\ Box(t) \in Nat BY UnwrapsWhole
<1>3. lag \in Int BY ONLY <1>1, <1>2
<1>4. /\ d'.epoch = push_lag(u, lag).epoch /\ d'.last = push_lag(u, lag).last
      /\ d'.seen = push_lag(u, lag).seen /\ boxBoot' = boxBoot /\ placed'.first = FirstOf(t)
      /\ placed'.newest = IF placed.seen THEN AtLeast(t, placed.newest) ELSE t
      /\ placed'.strayed = (placed.strayed \/ Strays(t))
  BY ObserveDoes
<1> HIDE DEF u, lag
<1>5. d'.epoch = u.epoch /\ d'.last = u.last /\ d'.seen = u.seen
  BY ONLY <1>2, <1>3, <1>4, Pushes
<1>6. Turns' = TurnsOf(t) BY ONLY <1>4 DEF Turns, TurnsOf, Counts
<1>7. ASSUME ~placed'.strayed
      PROVE  /\ ~placed.strayed /\ ~Strays(t)
             /\ Newest' = NewestOf(t) /\ placed'.newest = NewestOf(t)
             /\ d'.last = Counts(NewestOf(t)) % Span
  <2>1. ~placed.strayed /\ ~Strays(t) BY ONLY <1>4, <1>7
  <2>2. /\ u.epoch + u.last + TurnsOf(t) - boxBoot = NewestOf(t)
        /\ u.last = Counts(NewestOf(t)) % Span
    BY <2>1, UnwrappedIs DEF NewestOf, u
  <2>3. Newest' = NewestOf(t)
    <3>1. Newest' = d'.epoch + d'.last + Turns' - boxBoot' BY DEF Newest
    <3> QED BY ONLY <1>4, <1>5, <1>6, <2>2, <3>1
  <2>4. placed'.newest = NewestOf(t)
    <3>1. d.seen => Newest = placed.newest BY <2>1 DEF TimelineInv, Tracks
    <3> QED BY ONLY <1>1, <1>4, <3>1 DEF NewestOf, AtLeast
  <2> QED BY ONLY <1>5, <2>1, <2>2, <2>3, <2>4
<1> QED BY ONLY <1>2, <1>5, <1>6, <1>7 DEF u

LEMMA ObserveKeeps ==
  ASSUME TimelineInv, NEW t \in coming, Observe(t)
  PROVE  TimelineInv'
<1>1. Blocks' /\ lags' \in Seq(Int) BY ObserveBlocks
<1>3. /\ coming' = coming \ {t} /\ time' = time /\ boxBoot' = boxBoot
      /\ resets' = resets /\ d' \in States /\ placed' \in Places /\ placed'.seen = TRUE
      /\ placed'.box = Box(t) /\ placed'.tap = t /\ placed'.first = FirstOf(t)
  BY ObserveDoes
<1>4. /\ Turns' = TurnsOf(t) /\ d'.seen = TRUE /\ d'.epoch = Unwrapped(t).epoch
      /\ ~placed'.strayed =>
           /\ ~placed.strayed /\ ~Strays(t)
           /\ Newest' = NewestOf(t) /\ placed'.newest = NewestOf(t)
           /\ d'.last = Counts(NewestOf(t)) % Span
  BY ObserveMoves
<1>5. TimeTyped BY DEF TimelineInv
<1>6. TimeTyped'
  <2>1. coming' \in SUBSET (0 .. time') BY <1>3, <1>5 DEF TimeTyped
  <2> QED BY <1>1, <1>3, <1>4, <1>5, <2>1 DEF TimeTyped
<1>2. WholeTurns'
  <2>1. \E k \in Nat : Unwrapped(t).epoch = Span * k BY UnwrapsWhole
  <2> QED BY ONLY <1>4, <2>1 DEF WholeTurns
<1>7. Tracks'
  <2>1. ~placed'.strayed => (Counts(placed.newest))' = Counts(NewestOf(t))
    BY ONLY <1>3, <1>4 DEF Counts
  <2> QED BY ONLY <1>4, <2>1 DEF Tracks
<1>8. BoxExact'
  <2> DEFINE off == (boxBoot + t) - Box(t)
  <2>5. Counts(t) = boxBoot + t BY DEF Counts
  <2>6. ASSUME Box(t) > 0 PROVE off % Span = 0
    <3>1. (Counts(t) - Box(t)) % Span = 0 BY <2>6, UnwrapsWhole
    <3> QED BY ONLY <2>5, <3>1
  <2>7. ASSUME Box(t) > 0, ~placed'.strayed PROVE off = ((boxBoot + FirstOf(t)) \div Span) * Span
    <3>1. Counts(t) - Box(t) = TurnsOf(t) BY <1>4, <2>7, UnwrappedIs
    <3>2. (boxBoot + FirstOf(t)) \div Span \in Int
      <4>1. boxBoot \in Int /\ placed.first \in Nat /\ t \in Nat
        BY ONLY <1>5, FieldsOf, ComingIs, t \in coming
      <4>2. boxBoot + FirstOf(t) \in Int BY ONLY <4>1 DEF FirstOf
      <4> QED BY ONLY <4>2, SpanIs, Euclid
    <3> DEFINE q == (boxBoot + FirstOf(t)) \div Span
    <3>3. TurnsOf(t) = Span * q BY DEF TurnsOf, Counts
    <3> HIDE DEF q
    <3>4. Span * q = q * Span
      <4>1. q \in Int BY <3>2 DEF q
      <4> QED BY ONLY <4>1, SpanIs
    <3> QED BY ONLY <2>5, <3>1, <3>3, <3>4 DEF q
  <2>8. (boxBoot' + placed'.tap) - placed'.box = off /\ placed'.box = Box(t)
        /\ boxBoot' + placed'.first = boxBoot + FirstOf(t)
    BY ONLY <1>3
  <2> HIDE DEF off
  <2>9. placed'.box > 0 =>
          /\ ((boxBoot' + placed'.tap) - placed'.box) % Span = 0
          /\ ~placed'.strayed => (boxBoot' + placed'.tap) - placed'.box
                                  = ((boxBoot' + placed'.first) \div Span) * Span
    BY ONLY <2>6, <2>7, <2>8, Zenon
  <2> QED BY ONLY <2>9, Zenon DEF BoxExact
<1> QED BY ONLY <1>1, <1>2, <1>6, <1>7, <1>8 DEF TimelineInv

-----------------------------------------------------------------------------
(* The chip's steps, and a reboot.                                          *)

LEMMA TickKeeps ==
  ASSUME TimelineInv, Tick
  PROVE  TimelineInv'
<1>1. /\ time' = time + 1 /\ time < MaxTime
      /\ UNCHANGED <<boxBoot, coming, d, placed, lags, resets>>
  BY DEF Tick
<1>2. TimeTyped BY DEF TimelineInv
<1>3. TimeTyped'
  <2>1. time \in 0 .. MaxTime /\ MaxTime \in Nat /\ coming \in SUBSET (0 .. time)
    BY <1>2, TimelineBoundAssumption DEF TimeTyped
  <2>2. time' \in 0 .. MaxTime BY ONLY <1>1, <2>1
  <2>3. coming' \in SUBSET (0 .. time') BY ONLY <1>1, <2>1
  <2> QED BY <1>1, <1>2, <2>2, <2>3 DEF TimeTyped
<1>4. Turns' = Turns /\ Newest' = Newest BY ONLY <1>1 DEF Turns, Newest, Counts
<1>5. WholeTurns' BY ONLY <1>1, TimelineInv DEF TimelineInv, WholeTurns
<1>6. Tracks' BY ONLY <1>1, <1>4, TimelineInv DEF TimelineInv, Tracks, Counts
<1>7. Blocks' /\ BoxExact' BY ONLY <1>1, TimelineInv DEF TimelineInv, Blocks, BoxExact, LeastIn
<1> QED BY <1>3, <1>5, <1>6, <1>7 DEF TimelineInv

LEMMA TapKeeps ==
  ASSUME TimelineInv, Tap
  PROVE  TimelineInv'
<1>1. /\ coming' = coming \cup {time}
      /\ UNCHANGED <<time, boxBoot, d, placed, lags, resets>>
  BY DEF Tap
<1>2. time \in 0 .. time /\ coming \in SUBSET (0 .. time) /\ TimeTyped
  BY TimelineBoundAssumption DEF TimelineInv, TimeTyped
<1>3. TimeTyped'
  <2>1. coming' \in SUBSET (0 .. time') BY ONLY <1>1, <1>2
  <2> QED BY <1>1, <1>2, <2>1 DEF TimeTyped
<1>4. Turns' = Turns /\ Newest' = Newest BY ONLY <1>1 DEF Turns, Newest, Counts
<1>5. WholeTurns' BY ONLY <1>1, TimelineInv DEF TimelineInv, WholeTurns
<1>6. Tracks' BY ONLY <1>1, <1>4, TimelineInv DEF TimelineInv, Tracks, Counts
<1>7. Blocks' /\ BoxExact' BY ONLY <1>1, TimelineInv DEF TimelineInv, Blocks, BoxExact, LeastIn
<1> QED BY <1>3, <1>5, <1>6, <1>7 DEF TimelineInv

\* A fresh Timeline, at its making and after a reset.
Fresh ==
  /\ time \in 0 .. MaxTime /\ boxBoot \in Int /\ resets \in Nat /\ coming = {}
  /\ d = DomainState /\ placed = Nothing /\ lags = <<>>

LEMMA FreshIs == Fresh => TimelineInv
<1> SUFFICES ASSUME Fresh PROVE TimelineInv OBVIOUS
<1> USE DEF Fresh
<1>1. NoLag \in Int /\ time \in Nat /\ FloorBlock \in Nat \ {0}
  BY TimelineBoundAssumption, BlockAssumption DEF NoLag
<1>2. 0 \in 0 .. Span - 1 /\ 0 \in 0 .. FloorBlock - 1 BY ONLY <1>1, SpanIs
<1>3. d \in States /\ d.seen = FALSE /\ d.epoch = 0 /\ d.block = 0 /\ d.now = NoLag /\ d.prev = NoLag
  BY ONLY <1>1, <1>2, Fresh, FALSE \in BOOLEAN DEF DomainState, States
<1>4. placed \in Places /\ placed.seen = FALSE /\ placed.strayed = FALSE
  BY ONLY Fresh, FALSE \in BOOLEAN DEF Nothing, Places
<1>5. WholeTurns
  <2>1. Span * 0 = 0 BY ONLY SpanIs
  <2> QED BY ONLY <1>3, <2>1, 0 \in Nat DEF WholeTurns
<1>6. TimeTyped
  <2>1. lags \in Seq(Int) /\ coming \in SUBSET (0 .. time) OBVIOUS
  <2>2. time \in 0 .. MaxTime /\ boxBoot \in Int /\ resets \in Nat OBVIOUS
  <2> QED BY ONLY <1>3, <1>4, <2>1, <2>2 DEF TimeTyped
<1>7. Tracks /\ BoxExact BY <1>3, <1>4 DEF Tracks, BoxExact
<1>8. Blocks
  <2>1. Len(lags) = 0 OBVIOUS
  <2> QED BY ONLY <1>3, <2>1 DEF Blocks
<1> QED BY <1>5, <1>6, <1>7, <1>8 DEF TimelineInv

LEMMA ResetKeeps ==
  ASSUME TimelineInv, Reset
  PROVE  TimelineInv'
<1>1. /\ time' = time /\ boxBoot' = -time /\ resets' = resets + 1 /\ coming' = {}
      /\ d' = DomainState /\ placed' = Nothing /\ lags' = <<>>
  BY DEF Reset
<1>2. time \in 0 .. MaxTime /\ resets \in Nat BY DEF TimelineInv, TimeTyped
<1>3. boxBoot' \in Int /\ resets' \in Nat BY <1>1, <1>2
<1>4. time' \in 0 .. MaxTime BY <1>1, <1>2
<1>5. Fresh' BY <1>1, <1>3, <1>4 DEF Fresh
<1> QED BY <1>5, FreshIs, PTL

LEMMA InitHolds == TimelineInit => TimelineInv
<1> SUFFICES ASSUME TimelineInit PROVE TimelineInv OBVIOUS
<1>1. time \in 0 .. MaxTime /\ boxBoot \in Int /\ resets \in Nat
  BY TimelineBoundAssumption DEF TimelineInit
<1>2. Fresh BY <1>1 DEF TimelineInit, Fresh
<1> QED BY <1>2, FreshIs

LEMMA StepKeeps == TimelineInv /\ [TimelineNext]_timelineVars => TimelineInv'
<1> SUFFICES ASSUME TimelineInv, [TimelineNext]_timelineVars PROVE TimelineInv' OBVIOUS
<1>1. CASE Tick BY <1>1, TickKeeps
<1>2. CASE Tap BY <1>2, TapKeeps
<1>3. CASE Reset BY <1>3, ResetKeeps
<1>4. CASE \E tap \in coming : Observe(tap) BY <1>4, ObserveKeeps
<1>5. CASE UNCHANGED timelineVars
  <2>1. UNCHANGED <<time, boxBoot, coming, d, placed, lags, resets>>
    BY <1>5 DEF timelineVars
  <2>2. Turns' = Turns /\ Newest' = Newest BY ONLY <2>1 DEF Turns, Newest, Counts
  <2>3. TimeTyped' BY ONLY <2>1, TimelineInv DEF TimelineInv, TimeTyped
  <2>4. WholeTurns' BY ONLY <2>1, TimelineInv DEF TimelineInv, WholeTurns
  <2>5. Tracks' BY ONLY <2>1, <2>2, TimelineInv DEF TimelineInv, Tracks, Counts
  <2>6. Blocks' /\ BoxExact' BY ONLY <2>1, TimelineInv DEF TimelineInv, Blocks, BoxExact, LeastIn
  <2> QED BY <2>3, <2>4, <2>5, <2>6 DEF TimelineInv
<1> QED BY <1>1, <1>2, <1>3, <1>4, <1>5 DEF TimelineNext

-----------------------------------------------------------------------------

LEMMA FloorFollows == TimelineInv => FloorIsRecent
<1> SUFFICES ASSUME TimelineInv, placed.seen
             PROVE  \E n \in 1 .. Len(lags) :
                      /\ n >= LeastOf({Len(lags), FloorBlock}) /\ n <= 2 * FloorBlock
                      /\ floor(d) = LeastOf({lags[i] : i \in 1 .. n})
  BY DEF FloorIsRecent
<1>1. /\ d.now \in Int /\ d.prev \in Int /\ d.block \in 0 .. FloorBlock - 1 /\ lags \in Seq(Int)
      /\ d.seen /\ FloorBlock \in Nat \ {0} /\ NoLag \in Int /\ Len(lags) \in Nat
      /\ MaxTime \in Nat /\ NoLag = MaxTime + 1
  BY FieldsOf, BlockAssumption, TimelineBoundAssumption DEF TimelineInv, TimeTyped, NoLag
<1>2. /\ \A i \in 1 .. Len(lags) : lags[i] <= MaxTime
      /\ Len(lags) >= 1
      /\ (d.now = NoLag /\ d.block = 0) \/ LeastIn(d.now, lags, 1, d.block)
      /\ \/ d.prev = NoLag /\ Len(lags) = d.block
         \/ Len(lags) >= d.block + FloorBlock /\ LeastIn(d.prev, lags, d.block + 1, d.block + FloorBlock)
  <2>1. Blocks BY DEF TimelineInv
  <2> QED BY ONLY <2>1, <1>1 DEF Blocks
<1>3. floor(d) = IF d.now <= d.prev THEN d.now ELSE d.prev
  <2>1. d.now \in Int /\ d.prev \in Int BY ONLY <1>1
  <2> QED BY ONLY <2>1, LeastOfTwo DEF floor
<1>4. LeastOf({Len(lags), FloorBlock}) = IF Len(lags) <= FloorBlock THEN Len(lags) ELSE FloorBlock
  <2>1. PICK l \in Int, f \in Int : l = Len(lags) /\ f = FloorBlock BY ONLY <1>1
  <2>2. LeastOf({l, f}) = IF l <= f THEN l ELSE f BY ONLY l \in Int, f \in Int, LeastOfTwo
  <2> QED BY ONLY <2>1, <2>2
<1>5. ASSUME NEW n \in 1 .. Len(lags), n >= LeastOf({Len(lags), FloorBlock}), n <= 2 * FloorBlock,
             LeastIn(floor(d), lags, 1, n)
      PROVE  \E m \in 1 .. Len(lags) :
               /\ m >= LeastOf({Len(lags), FloorBlock}) /\ m <= 2 * FloorBlock
               /\ floor(d) = LeastOf({lags[i] : i \in 1 .. m})
  <2> DEFINE S == {lags[i] : i \in 1 .. n}
  <2>1. \A i \in 1 .. n : lags[i] \in Int
    <3>1. \A i \in 1 .. n : i \in 1 .. Len(lags) BY ONLY <1>1, n \in 1 .. Len(lags)
    <3> QED BY <1>1, <3>1
  <2>2. S \in SUBSET Int BY <2>1
  <2>3. floor(d) \in S BY <1>5 DEF LeastIn
  <2>4. \A m \in S : floor(d) <= m BY <1>5 DEF LeastIn
  <2> HIDE DEF S
  <2>5. LeastOf(S) = floor(d) BY ONLY <2>2, <2>3, <2>4, LeastIs
  <2> QED BY <1>5, <2>5 DEF S
<1>6. CASE d.prev = NoLag /\ Len(lags) = d.block
  <2>1. d.block >= 1 /\ d.block \in 1 .. Len(lags) BY ONLY <1>1, <1>2, <1>6
  <2>2. LeastIn(d.now, lags, 1, d.block) BY ONLY <1>1, <1>2, <2>1
  <2>3. d.now <= MaxTime
    <3>1. PICK k \in 1 .. d.block : lags[k] = d.now BY <2>2 DEF LeastIn
    <3> QED BY ONLY <1>2, <1>6, <3>1
  <2>4. floor(d) = d.now BY ONLY <1>1, <1>3, <1>6, <2>3
  <2>5. d.block >= LeastOf({Len(lags), FloorBlock}) /\ d.block <= 2 * FloorBlock
    BY ONLY <1>1, <1>4, <1>6, <2>1
  <2> QED BY <1>5, <2>1, <2>2, <2>4, <2>5
<1>7. CASE Len(lags) >= d.block + FloorBlock /\ LeastIn(d.prev, lags, d.block + 1, d.block + FloorBlock)
  <2> DEFINE n == d.block + FloorBlock
  <2>1. n \in 1 .. Len(lags) /\ n >= LeastOf({Len(lags), FloorBlock}) /\ n <= 2 * FloorBlock
    <3>1. Len(lags) \in Nat /\ d.block \in 0 .. FloorBlock - 1 /\ FloorBlock \in Nat \ {0}
          /\ Len(lags) >= d.block + FloorBlock
      BY ONLY <1>1, <1>7
    <3> QED BY ONLY <1>4, <3>1
  <2>2. LeastIn(floor(d), lags, 1, n)
    <3>1. PICK k \in d.block + 1 .. n : lags[k] = d.prev BY <1>7 DEF LeastIn
    <3>2. k \in 1 .. Len(lags) /\ k \in 1 .. n BY ONLY <1>1, <1>7, <3>1
    <3>3. d.prev <= MaxTime BY ONLY <1>2, <3>1, <3>2
    <3>4. \A i \in d.block + 1 .. n : d.prev <= lags[i] BY <1>7 DEF LeastIn
    <3>5. CASE d.now = NoLag /\ d.block = 0
      <4>1. floor(d) = d.prev BY ONLY <1>1, <1>3, <3>3, <3>5
      <4>2. d.block + 1 = 1 BY ONLY <3>5
      <4> QED BY ONLY <3>1, <3>2, <3>4, <4>1, <4>2 DEF LeastIn
    <3>6. CASE LeastIn(d.now, lags, 1, d.block)
      <4>1. PICK j \in 1 .. d.block : lags[j] = d.now BY <3>6 DEF LeastIn
      <4>2. j \in 1 .. n BY ONLY <1>1, <4>1
      <4>3. \A i \in 1 .. d.block : d.now <= lags[i] BY <3>6 DEF LeastIn
      <4>4. \E i \in 1 .. n : lags[i] = floor(d) BY ONLY <1>3, <3>1, <3>2, <4>1, <4>2
      <4>5. ASSUME NEW i \in 1 .. n PROVE floor(d) <= lags[i]
        <5>1. i \in 1 .. d.block \/ i \in d.block + 1 .. n BY ONLY <1>1, i \in 1 .. n
        <5>2. lags[i] \in Int
          <6>1. i \in 1 .. Len(lags) BY ONLY <1>1, <1>7, i \in 1 .. n
          <6> QED BY <1>1, <6>1
        <5>3. d.now <= lags[i] \/ d.prev <= lags[i] BY ONLY <3>4, <4>3, <5>1
        <5> DEFINE l == lags[i]
        <5> HIDE DEF l
        <5>4. (d.now <= l \/ d.prev <= l) /\ l \in Int BY ONLY <5>2, <5>3 DEF l
        <5>5. floor(d) <= l BY ONLY <1>1, <1>3, <5>4
        <5> QED BY <5>5 DEF l
      <4> QED BY ONLY <4>4, <4>5 DEF LeastIn
    <3> QED BY <1>2, <3>5, <3>6
  <2> QED BY <1>5, <2>1, <2>2
<1> QED BY <1>2, <1>6, <1>7

\* What a consumer is told of an event, for every counter width and block length, whatever the
\* chip taps and however late an event comes: its time on the box is exact however events
\* overtake one another and wherever the counter wraps, to the range always and to the
\* microsecond until one strays, and its host time follows only the newest samples
\* (clock.rs:178, clock.rs:252).
THEOREM PlacedTrulyCorrect == TimelineSpec => []PlacedTruly
<1>1. TimelineInv => PlacedTruly BY FloorFollows DEF PlacedTruly, TimelineInv
<1> QED BY <1>1, InitHolds, StepKeeps, PTL DEF TimelineSpec
=============================================================================
