---------------------------- MODULE UpdateProofs ----------------------------
(***************************************************************************)
(* Proofs about firmware updates, for one thread that updates and any      *)
(* targets, images, windows and bounds: a stage that returned Ok staged    *)
(* its image, an update that was refused and aborted leaves nothing        *)
(* staged, and no box is asked to begin before it is up.  First what they  *)
(* need of sequences: what they hold after a step, and what retain leaves. *)
(***************************************************************************)
EXTENDS Update, SequenceTheorems, WellFoundedInduction, TLAPS

LEMMA ToSetIn ==
  ASSUME NEW T, NEW s \in Seq(T)
  PROVE  /\ ToSet(s) \subseteq T
         /\ DOMAIN s = 1..Len(s) /\ Len(s) \in Nat
         /\ \A i \in 1..Len(s) : s[i] \in ToSet(s)
BY DEF ToSet

LEMMA AppendSet ==
  ASSUME NEW T, NEW s \in Seq(T), NEW e \in T
  PROVE  /\ Append(s, e) \in Seq(T)
         /\ ToSet(Append(s, e)) = ToSet(s) \cup {e}
         /\ Len(Append(s, e)) = Len(s) + 1
         /\ \A i \in 1..Len(s) : Append(s, e)[i] = s[i]
         /\ Append(s, e)[Len(s) + 1] = e
<1>1. /\ Append(s, e) \in Seq(T) /\ Len(Append(s, e)) = Len(s) + 1
      /\ \A i \in 1..Len(s) : Append(s, e)[i] = s[i]
      /\ Append(s, e)[Len(s) + 1] = e
  OBVIOUS
<1>2. DOMAIN Append(s, e) = 1..(Len(s) + 1) /\ DOMAIN s = 1..Len(s) /\ Len(s) \in Nat BY <1>1
<1>3. 1..(Len(s) + 1) = (1..Len(s)) \cup {Len(s) + 1} BY <1>2
<1>4. ToSet(Append(s, e)) = ToSet(s) \cup {e} BY <1>1, <1>2, <1>3 DEF ToSet
<1> QED BY <1>1, <1>4

LEMMA TailSet ==
  ASSUME NEW T, NEW s \in Seq(T), s # <<>>
  PROVE  /\ Head(s) = s[1] /\ s[1] \in ToSet(s) /\ s[1] \in T
         /\ Tail(s) \in Seq(T) /\ Len(Tail(s)) = Len(s) - 1 /\ Len(s) \in Nat \ {0}
         /\ \A i \in 1..Len(Tail(s)) : Tail(s)[i] = s[i + 1] /\ i + 1 \in 1..Len(s)
         /\ ToSet(Tail(s)) \subseteq ToSet(s)
<1>1. Len(s) \in Nat \ {0} /\ DOMAIN s = 1..Len(s) /\ Head(s) = s[1] /\ s[1] \in T OBVIOUS
<1>2. /\ Tail(s) \in Seq(T) /\ Len(Tail(s)) = Len(s) - 1
      /\ \A i \in 1..Len(Tail(s)) : Tail(s)[i] = s[i + 1] /\ i + 1 \in 1..Len(s)
  BY <1>1
<1>3. DOMAIN Tail(s) = 1..Len(Tail(s)) BY <1>2
<1>4. ToSet(Tail(s)) \subseteq ToSet(s) BY <1>1, <1>2, <1>3 DEF ToSet
<1>5. s[1] \in ToSet(s) BY <1>1 DEF ToSet
<1> QED BY <1>1, <1>2, <1>4, <1>5

LEMMA ConcatSet ==
  ASSUME NEW T, NEW s \in Seq(T), NEW t \in Seq(T)
  PROVE  /\ s \o t \in Seq(T) /\ ToSet(s \o t) \subseteq ToSet(s) \cup ToSet(t)
         /\ \A i \in 1..Len(s \o t) :
              \/ i \in 1..Len(s) /\ (s \o t)[i] = s[i]
              \/ i > Len(s) /\ (s \o t)[i] \in ToSet(t)
<1>1. s \o t \in Seq(T) /\ Len(s \o t) = Len(s) + Len(t) /\ Len(s) \in Nat /\ Len(t) \in Nat
      /\ DOMAIN s = 1..Len(s) /\ DOMAIN t = 1..Len(t)
  OBVIOUS
<1>2. DOMAIN (s \o t) = 1..(Len(s) + Len(t)) BY <1>1
<1>3. ASSUME NEW i \in 1..(Len(s) + Len(t))
      PROVE  \/ i \in 1..Len(s) /\ (s \o t)[i] = s[i] /\ s[i] \in ToSet(s)
             \/ i > Len(s) /\ (s \o t)[i] \in ToSet(t)
  <2>1. CASE i <= Len(s)
    <3>1. i \in DOMAIN s /\ i \in 1..Len(s) /\ (s \o t)[i] = s[i] BY <1>1, <2>1
    <3> QED BY <3>1 DEF ToSet
  <2>2. CASE i > Len(s)
    <3>1. i - Len(s) \in DOMAIN t /\ (s \o t)[i] = t[i - Len(s)] BY <1>1, <2>2
    <3> QED BY <2>2, <3>1 DEF ToSet
  <2> QED BY <1>1, <2>1, <2>2
<1>4. ToSet(s \o t) \subseteq ToSet(s) \cup ToSet(t) BY <1>2, <1>3 DEF ToSet
<1> QED BY <1>1, <1>3, <1>4

LEMMA SubSeqSet ==
  ASSUME NEW T, NEW s \in Seq(T), NEW m \in Nat \ {0}, NEW n \in Nat, n <= Len(s)
  PROVE  SubSeq(s, m, n) \in Seq(T) /\ ToSet(SubSeq(s, m, n)) \subseteq ToSet(s)
<1>1. DOMAIN s = 1..Len(s) /\ Len(s) \in Nat OBVIOUS
<1>2. SubSeq(s, m, n) \in Seq(T)
      /\ Len(SubSeq(s, m, n)) = (IF m <= n THEN n - m + 1 ELSE 0)
      /\ \A i \in 1..Len(SubSeq(s, m, n)) : SubSeq(s, m, n)[i] = s[m + i - 1] /\ m + i - 1 \in 1..Len(s)
  BY <1>1
<1>3. DOMAIN SubSeq(s, m, n) = 1..Len(SubSeq(s, m, n)) BY <1>2
<1> QED BY <1>1, <1>2, <1>3 DEF ToSet

LEMMA RemoveAtSet ==
  ASSUME NEW T, NEW s \in Seq(T), NEW i \in 1..Len(s)
  PROVE  RemoveAt(s, i) \in Seq(T) /\ ToSet(RemoveAt(s, i)) \subseteq ToSet(s)
<1>1. Len(s) \in Nat /\ i \in Nat /\ i - 1 \in Nat /\ i + 1 \in Nat \ {0} /\ i - 1 <= Len(s) OBVIOUS
<1>2. SubSeq(s, 1, i - 1) \in Seq(T) /\ ToSet(SubSeq(s, 1, i - 1)) \subseteq ToSet(s)
  BY <1>1, SubSeqSet
<1>3. SubSeq(s, i + 1, Len(s)) \in Seq(T) /\ ToSet(SubSeq(s, i + 1, Len(s))) \subseteq ToSet(s)
  BY <1>1, SubSeqSet
<1> DEFINE before == SubSeq(s, 1, i - 1)
           after == SubSeq(s, i + 1, Len(s))
<1>4. RemoveAt(s, i) = before \o after BY DEF RemoveAt
<1> HIDE DEF before, after
<1>5. before \in Seq(T) /\ after \in Seq(T) /\ ToSet(before) \cup ToSet(after) \subseteq ToSet(s)
  BY <1>2, <1>3 DEF before, after
<1>6. before \o after \in Seq(T) /\ ToSet(before \o after) \subseteq ToSet(before) \cup ToSet(after)
  BY ONLY <1>5, ConcatSet
<1> QED BY ONLY <1>4, <1>5, <1>6

\* What retain makes of the first elements.
RetainTo(s, kept, n, f) ==
  f = [i \in 0..n |->
         IF i = 0 THEN <<>>
         ELSE IF s[i] \in kept THEN Append(f[i - 1], s[i]) ELSE f[i - 1]]

LEMMA RetainUpTo ==
  ASSUME NEW T, NEW s \in Seq(T), NEW kept
  PROVE  \A n \in 0..Len(s) : \E f : RetainTo(s, kept, n, f)
<1> DEFINE R == OpToRel(<, Nat)
           Bad == {n \in 0..Len(s) : ~ \E f : RetainTo(s, kept, n, f)}
<1>1. IsWellFoundedOn(R, Nat) BY NatLessThanWellFounded
<1>2. \A m, n \in Nat : <<m, n>> \in R <=> m < n BY DEF OpToRel
<1>3. Len(s) \in Nat /\ 0..Len(s) \subseteq Nat OBVIOUS
<1> SUFFICES ASSUME Bad # {} PROVE FALSE OBVIOUS
<1>4. Bad \subseteq Nat BY <1>3
<1>5. PICK n \in Bad : \A y \in Bad : ~ (<<y, n>> \in R) BY ONLY <1>1, <1>4, Bad # {}, WFMin
<1>6. n \in Nat /\ n <= Len(s) BY <1>3
<1>7. n # 0
  <2>1. RetainTo(s, kept, 0, [i \in 0..0 |-> <<>>]) BY DEF RetainTo
  <2> QED BY <2>1
<1>8. n - 1 \in 0..Len(s) /\ n - 1 \notin Bad
  <2>1. n - 1 \in Nat /\ n - 1 < n /\ n - 1 \in 0..Len(s) BY ONLY <1>3, <1>6, <1>7
  <2> HIDE DEF Bad, R
  <2> QED BY <1>2, <1>5, <1>6, <2>1
<1>9. PICK f : RetainTo(s, kept, n - 1, f) BY <1>8
<1> DEFINE newest == IF s[n] \in kept THEN Append(f[n - 1], s[n]) ELSE f[n - 1]
           g == [i \in 0..n |-> IF i = n THEN newest ELSE f[i]]
<1>10. RetainTo(s, kept, n, g)
  <2> HIDE DEF newest
  <2>1. \A i \in 0..(n - 1) : g[i] = f[i] BY <1>6, <1>7
  <2>2. \A i \in 0..(n - 1) : f[i] = IF i = 0 THEN <<>> ELSE IF s[i] \in kept THEN Append(f[i - 1], s[i]) ELSE f[i - 1]
    BY <1>9 DEF RetainTo
  <2>3. g[n] = newest BY <1>6
  <2>4. ASSUME NEW i \in 0..n
        PROVE  g[i] = IF i = 0 THEN <<>> ELSE IF s[i] \in kept THEN Append(g[i - 1], s[i]) ELSE g[i - 1]
    <3>1. CASE i = n
      <4>1. n - 1 \in 0..(n - 1) BY <1>6, <1>7
      <4>2. g[n - 1] = f[n - 1] BY <2>1, <4>1
      <4> QED BY <1>7, <2>3, <3>1, <4>2 DEF newest
    <3>2. CASE i # n
      <4>1. i \in 0..(n - 1) /\ (i # 0 => i - 1 \in 0..(n - 1)) BY <1>6, <3>2
      <4> HIDE DEF g
      <4> QED BY <2>1, <2>2, <4>1
    <3> QED BY <3>1, <3>2
  <2>5. g = [i \in 0..n |-> g[i]] OBVIOUS
  <2> HIDE DEF g
  <2> QED BY <2>4, <2>5 DEF RetainTo
<1> QED BY <1>5, <1>10

LEMMA RetainSet ==
  ASSUME NEW T, NEW s \in Seq(T), NEW kept
  PROVE  Retain(s, kept) \in Seq(T) /\ ToSet(Retain(s, kept)) \subseteq kept \cap ToSet(s)
<1>1. Len(s) \in Nat /\ Len(s) \in 0..Len(s) /\ DOMAIN s = 1..Len(s) OBVIOUS
<1>2. PICK g : RetainTo(s, kept, Len(s), g) BY <1>1, RetainUpTo
<1>3. PICK f : RetainTo(s, kept, Len(s), f) /\ Retain(s, kept) = f[Len(s)]
  BY <1>2 DEF RetainTo, Retain
<1> DEFINE R == OpToRel(<, Nat)
           Holds(n) == f[n] \in Seq(T) /\ ToSet(f[n]) \subseteq kept \cap ToSet(s)
           Bad == {n \in 0..Len(s) : ~Holds(n)}
<1>4. IsWellFoundedOn(R, Nat) BY NatLessThanWellFounded
<1>5. \A m, n \in Nat : <<m, n>> \in R <=> m < n BY DEF OpToRel
<1>6. Bad = {}
  <2> SUFFICES ASSUME Bad # {} PROVE FALSE OBVIOUS
  <2>1. Bad \subseteq Nat BY <1>1
  <2>2. PICK n \in Bad : \A y \in Bad : ~ (<<y, n>> \in R) BY ONLY <1>4, <2>1, Bad # {}, WFMin
  <2>3. n \in Nat /\ n <= Len(s) /\ n \in 0..Len(s) /\ ~Holds(n) BY <1>1
  <2>4. n # 0
    <3>1. 0 \in 0..Len(s) BY <1>1
    <3>2. f[0] = <<>> BY <1>3, <3>1 DEF RetainTo
    <3>3. <<>> \in Seq(T) /\ ToSet(<<>>) = {} BY DEF ToSet
    <3>4. Holds(0) BY <3>2, <3>3
    <3> QED BY ONLY <2>3, <3>4
  <2>5. n - 1 \in 0..Len(s) /\ n - 1 \notin Bad
    <3>1. n - 1 \in Nat /\ n - 1 < n /\ n - 1 \in 0..Len(s) BY ONLY <1>1, <2>3, <2>4
    <3> HIDE DEF Bad, R
    <3> QED BY <1>5, <2>2, <2>3, <3>1
  <2>6. Holds(n - 1) BY <2>5
  <2>7. f[n] = IF s[n] \in kept THEN Append(f[n - 1], s[n]) ELSE f[n - 1]
    BY <1>3, <2>3, <2>4 DEF RetainTo
  <2>8. s[n] \in T /\ s[n] \in ToSet(s) BY <1>1, <2>3, <2>4 DEF ToSet
  <2>9. Holds(n)
    <3>1. CASE s[n] \in kept BY ONLY <2>6, <2>7, <2>8, <3>1, AppendSet
    <3>2. CASE s[n] \notin kept BY ONLY <2>6, <2>7, <3>2
    <3> QED BY <3>1, <3>2
  <2> QED BY <2>3, <2>9
<1>7. Holds(Len(s)) BY <1>1, <1>6
<1> QED BY <1>3, <1>7

-----------------------------------------------------------------------------
(* Types.                                                                   *)

Chunk == Images \X Nat
MaybeImage == Images \cup {NoImage}
UpdateFrames ==
  [op : {"FIRMWARE"}, by : Callers, seq : Nat]
    \cup [op : {"BEGIN"}, target : Targets, image : Images]
    \cup [op : {"DATA"}, target : Targets, seq : Nat, chunk : Chunk]
    \cup [op : {"END", "ABORT", "ACTIVATE"}, target : Targets]
Statuses == {"BUSY", "READY", "BAD_STATE", "ACK", "SEQ_GAP", "TOO_BIG", "BAD_SHA", "STAGED",
             "OK", "REFUSED", "NOTHING_STAGED"}
Replies == [op : Ops, status : Statuses, arg : Nat]
Answers == [op : {"FIRMWARE"}, by : Callers, seq : Nat, pending : BOOLEAN]
Sessions ==
  [active : BOOLEAN, staged : MaybeImage, image : MaybeImage, got : Seq(Chunk), sinceAck : Nat]
UpdateVerbs == {"none", "stage", "update", "abort", "activate"}
UpdateCalls ==
  [at : {"idle", "confirm", "asked", "drain", "send", "chunks", "recv"}, verb : UpdateVerbs,
   target : Targets, image : MaybeImage, op : Ops, sent : Nat, unacked : Nat]
Endings ==
  [res : {"none", "ok", "error", "refused"}, verb : UpdateVerbs, target : Targets, image : MaybeImage]

UpdateTypeOK ==
  /\ session \in [Targets -> Sessions]
  /\ boot \in {"up", "down", "probation"}
  /\ wire \in Seq(UpdateFrames) /\ back \in Seq(Replies \cup Answers)
  /\ updates \in Seq(Replies) /\ held \in Seq(Replies)
  /\ call \in [Callers -> UpdateCalls]
  /\ info \in [Callers -> {"none", "pending", "confirmed"}]
  /\ last \in [Callers -> Endings]
  /\ spent \in [calls : Nat, giveUps : Nat, lost : Nat]

\* A session takes no more chunks than its image has.
Filling(s) == s.active => s.image \in Images /\ Len(s.got) <= Length[s.image]

\* Which operations a call of each kind goes through.
Course(k) ==
  /\ k.at \in {"confirm", "asked", "chunks"} => k.verb \in {"stage", "update"}
  /\ k.verb \in {"stage", "update"} => k.image \in Images
  /\ k.verb = "none" <=> k.at = "idle"
  /\ k.verb = "stage" => k.op \in {"BEGIN", "DATA", "END"}
  /\ k.op = "DATA" => k.at \in {"chunks", "recv"}
  /\ k.at = "chunks" => k.op \in {"BEGIN", "DATA"}
  /\ k.verb = "abort" => k.op = "ABORT"
  /\ k.verb = "activate" => k.op = "ACTIVATE"

Typed(c) == UpdateTypeOK /\ (\A t \in Targets : Filling(session[t])) /\ Course(call[c])

-----------------------------------------------------------------------------
LEMMA ReplyIs ==
  ASSUME NEW op \in Ops, NEW st \in Statuses, NEW arg \in Nat
  PROVE  /\ Reply(op, st, arg) \in Replies
         /\ Reply(op, st, arg).op = op /\ Reply(op, st, arg).status = st
         /\ <<Reply(op, st, arg)>> \in Seq(Replies)
         /\ ToSet(<<Reply(op, st, arg)>>) = {Reply(op, st, arg)}
BY DEF Reply, Replies, ToSet

\* What an operation on a session may make of it, and reply.
Does(s, f, r, ps) ==
  /\ r \in Sessions /\ Filling(r) /\ ps \in Seq(Replies)
  /\ \A p \in ToSet(ps) : p.op = f.op
  /\ f.op \in {"DATA", "END"} => r.image = s.image
  /\ \A p \in ToSet(ps) : f.op = "BEGIN" /\ p.status = "READY" => r.image = f.image
  /\ \A p \in ToSet(ps) : f.op = "END" /\ p.status = "STAGED" => r.staged = s.image
  /\ f.op = "ABORT" => r.staged = NoImage

LEMMA OneReply ==
  ASSUME NEW s, NEW f, NEW r \in Sessions, Filling(r), f.op \in Ops,
         NEW st \in Statuses, NEW arg \in Nat, NEW D, D = <<r, <<Reply(f.op, st, arg)>>>>,
         f.op \in {"DATA", "END"} => r.image = s.image,
         f.op = "BEGIN" /\ st = "READY" => r.image = f.image,
         f.op = "END" /\ st = "STAGED" => r.staged = s.image,
         f.op = "ABORT" => r.staged = NoImage
  PROVE  Does(s, f, D[1], D[2])
<1> DEFINE p == Reply(f.op, st, arg)
<1>1. D[1] = r /\ D[2] = <<p>> OBVIOUS
<1>2. <<p>> \in Seq(Replies) /\ ToSet(<<p>>) = {p} /\ p.op = f.op /\ p.status = st BY ReplyIs
<1> HIDE DEF p
<1> QED BY <1>1, <1>2 DEF Does

LEMMA NoSessionIs == NoSession \in Sessions /\ Filling(NoSession) /\ NoSession.staged = NoImage
BY DEF NoSession, Sessions, MaybeImage, Filling

LEMMA BeginDoes ==
  ASSUME NEW s \in Sessions, Filling(s), NEW f \in UpdateFrames, f.op = "BEGIN"
  PROVE  Does(s, f, Begin(s, f.image)[1], Begin(s, f.image)[2])
<1> DEFINE r == [NoSession EXCEPT !.active = TRUE, !.image = f.image]
           D == Begin(s, f.image)
<1>1. f.image \in Images BY DEF UpdateFrames
<1>2. Credit \in Nat BY BoundAssumption
<1>3. NoSession.got = <<>> BY DEF NoSession
<1>4. r \in Sessions /\ r.image = f.image /\ r.got = <<>> BY <1>1, <1>3, NoSessionIs DEF Sessions, MaybeImage
<1>5. Filling(r) BY <1>1, <1>4, LengthAssumption DEF Filling
<1>6. \/ D = <<s, <<Reply(f.op, "BUSY", 0)>>>>
      \/ D = <<r, <<Reply(f.op, "READY", Credit)>>>>
  BY DEF Begin
<1>7. f.op \in Ops /\ "BUSY" \in Statuses /\ "READY" \in Statuses BY DEF Ops, Statuses
<1> HIDE DEF r, D
<1>8. CASE D = <<s, <<Reply(f.op, "BUSY", 0)>>>> BY <1>7, <1>8, OneReply DEF D
<1>9. CASE D = <<r, <<Reply(f.op, "READY", Credit)>>>> BY <1>2, <1>4, <1>5, <1>7, <1>9, OneReply DEF D
<1> QED BY <1>6, <1>8, <1>9

LEMMA DataDoes ==
  ASSUME NEW s \in Sessions, Filling(s), NEW f \in UpdateFrames, f.op = "DATA"
  PROVE  Does(s, f, Data(s, f.seq, f.chunk)[1], Data(s, f.seq, f.chunk)[2])
<1> DEFINE n == Len(s.got)
           len == Length[s.image]
           D == Data(s, f.seq, f.chunk)
           off == [s EXCEPT !.active = FALSE]
           taken == [s EXCEPT !.got = Append(@, f.chunk), !.sinceAck = @ + 1]
           acked == [taken EXCEPT !.sinceAck = 0]
           Says(r, st, arg) == D = <<r, <<Reply(f.op, st, arg)>>>>
<1>1. f.seq \in Nat /\ f.chunk \in Chunk BY DEF UpdateFrames
<1>2. s.got \in Seq(Chunk) /\ n \in Nat /\ s.active \in BOOLEAN /\ s.sinceAck \in Nat BY DEF Sessions
<1>3. off \in Sessions /\ off.image = s.image /\ Filling(off) BY DEF Sessions, Filling
<1>4. f.op \in Ops /\ {"BAD_STATE", "ACK", "SEQ_GAP", "TOO_BIG"} \subseteq Statuses BY DEF Ops, Statuses
<1>5. CASE ~s.active
  <2>1. Says(s, "BAD_STATE", 0) BY <1>5 DEF Data
  <2> HIDE DEF D
  <2> QED BY <1>4, <2>1, OneReply DEF D
<1>6. CASE s.active
  <2>1. s.image \in Images /\ n <= len /\ len \in Nat BY <1>6, LengthAssumption DEF Filling
  <2>2. CASE n > 0 /\ f.seq = n - 1
    <3>1. f.seq + 1 = n /\ f.seq # n BY <1>1, <1>2, <2>2
    <3>2. Says(s, "ACK", n) BY <1>6, <2>2, <3>1 DEF Data, nextSeq
    <3> HIDE DEF D
    <3> QED BY <1>2, <1>4, <3>2, OneReply DEF D
  <2>3. CASE f.seq # n /\ f.seq + 1 # n
    <3>1. ~(n > 0 /\ f.seq = n - 1) BY <1>1, <1>2, <2>3
    <3>2. Says(off, "SEQ_GAP", n) BY <1>6, <2>3, <3>1 DEF Data, nextSeq, Refuses
    <3> HIDE DEF D, off
    <3> QED BY <1>2, <1>3, <1>4, <3>2, OneReply DEF D
  <2>4. CASE f.seq = n
    <3>1. ~(n > 0 /\ f.seq = n - 1) BY <1>2, <2>4
    <3>2. CASE n = len
      <4>1. ~(n < len) /\ f.seq = len BY <1>2, <2>1, <2>4, <3>2
      <4>2. Says(off, "TOO_BIG", n) BY <1>6, <2>4, <3>1, <3>2, <4>1 DEF Data, nextSeq, Refuses
      <4> HIDE DEF D, off
      <4> QED BY <1>2, <1>3, <1>4, <4>2, OneReply DEF D
    <3>3. CASE n < len
      <4>1. Append(s.got, f.chunk) \in Seq(Chunk) /\ Len(Append(s.got, f.chunk)) = n + 1 BY <1>1, <1>2
      <4>2. s.sinceAck + 1 \in Nat BY <1>2
      <4> DEFINE more == Append(s.got, f.chunk)
                 since == s.sinceAck + 1
      <4>3. taken = [s EXCEPT !.got = more, !.sinceAck = since] OBVIOUS
      <4> HIDE DEF taken, more, since
      <4>a. more \in Seq(Chunk) /\ since \in Nat BY <4>1, <4>2 DEF more, since
      <4>b. taken \in Sessions /\ taken.image = s.image /\ taken.got = more /\ taken.active = s.active
        BY ONLY <4>3, <4>a, s \in Sessions DEF Sessions
      <4>c. acked \in Sessions /\ acked.image = s.image /\ acked.got = more /\ acked.active = s.active
        BY ONLY <4>b DEF Sessions, acked
      <4>5. n + 1 \in Nat /\ n + 1 <= len BY <1>2, <2>1, <3>3
      <4>6. Filling(taken) /\ Filling(acked) BY ONLY <2>1, <4>1, <4>b, <4>c, <4>5 DEF Filling, more
      <4>7. Says(acked, "ACK", n + 1) \/ D = <<taken, <<>>>>
        <5>1. n # len BY <1>2, <2>1, <3>3
        <5> QED BY <1>6, <2>4, <3>1, <3>3, <5>1 DEF Data, nextSeq, taken
      <4> HIDE DEF D, acked
      <4>8. CASE Says(acked, "ACK", n + 1) BY <1>4, <4>c, <4>5, <4>6, <4>8, OneReply DEF D
      <4>9. CASE D = <<taken, <<>>>>
        <5>1. <<>> \in Seq(Replies) /\ ToSet(<<>>) = {} BY DEF ToSet
        <5>2. D[1] = taken /\ D[2] = <<>> BY <4>9
        <5> QED BY <4>b, <4>6, <5>1, <5>2 DEF Does, D
      <4> QED BY <4>7, <4>8, <4>9
    <3> QED BY <1>2, <2>1, <3>2, <3>3
  <2> QED BY <1>1, <1>2, <2>2, <2>3, <2>4
<1> QED BY <1>5, <1>6

LEMMA EndDoes ==
  ASSUME NEW s \in Sessions, Filling(s), NEW f \in UpdateFrames, f.op = "END"
  PROVE  Does(s, f, End(s)[1], End(s)[2])
<1> DEFINE over == [s EXCEPT !.active = FALSE]
           done == [over EXCEPT !.staged = s.image]
           D == End(s)
           Says(r, st, arg) == D = <<r, <<Reply(f.op, st, arg)>>>>
<1>1. /\ over \in Sessions /\ over.image = s.image /\ Filling(over)
      /\ done \in Sessions /\ done.image = s.image /\ Filling(done) /\ done.staged = s.image
  BY DEF Sessions, Filling
<1>2. f.op \in Ops /\ {"BAD_STATE", "BAD_SHA", "STAGED"} \subseteq Statuses BY DEF Ops, Statuses
<1>3. \/ Says(s, "BAD_STATE", 0) \/ Says(over, "BAD_STATE", 1)
      \/ Says(over, "BAD_SHA", 0) \/ Says(done, "STAGED", 0)
  <2> DEFINE on == s.active
             short == Len(s.got) # Length[s.image]
             wrong == s.got # Chunks(s.image)
             Owes(r, st, arg) == <<r, <<Reply("END", st, arg)>>>>
  <2>1. D = CASE ~on -> Owes(s, "BAD_STATE", 0)
              [] on /\ short -> Owes(over, "BAD_STATE", 1)
              [] on /\ ~short /\ wrong -> Owes(over, "BAD_SHA", 0)
              [] on /\ ~short /\ ~wrong -> Owes(done, "STAGED", 0)
    BY DEF End
  <2>2. on \in BOOLEAN BY DEF Sessions
  <2> HIDE DEF on, short, wrong, Owes, over, done, D
  <2>3. \/ D = Owes(s, "BAD_STATE", 0) \/ D = Owes(over, "BAD_STATE", 1)
        \/ D = Owes(over, "BAD_SHA", 0) \/ D = Owes(done, "STAGED", 0)
    BY ONLY <2>1, <2>2
  <2> QED BY <2>3 DEF Owes
<1> HIDE DEF over, done, D
<1>4. CASE Says(s, "BAD_STATE", 0) BY <1>2, <1>4, OneReply DEF D
<1>5. CASE Says(over, "BAD_STATE", 1) BY <1>1, <1>2, <1>5, OneReply DEF D
<1>6. CASE Says(over, "BAD_SHA", 0) BY <1>1, <1>2, <1>6, OneReply DEF D
<1>7. CASE Says(done, "STAGED", 0) BY <1>1, <1>2, <1>7, OneReply DEF D
<1> QED BY <1>3, <1>4, <1>5, <1>6, <1>7

LEMMA OpDoes ==
  ASSUME NEW s \in Sessions, Filling(s), NEW f \in UpdateFrames, f.op \in Ops \ {"ACTIVATE"}
  PROVE  Does(s, f, SessionOp(s, f)[1], SessionOp(s, f)[2])
<1>1. CASE f.op = "BEGIN" BY <1>1, BeginDoes DEF SessionOp
<1>2. CASE f.op = "DATA" BY <1>2, DataDoes DEF SessionOp
<1>3. CASE f.op = "END" BY <1>3, EndDoes DEF SessionOp
<1>4. CASE f.op = "ABORT"
  <2>1. SessionOp(s, f) = <<NoSession, <<Reply("ABORT", "OK", 0)>>>> BY <1>4 DEF SessionOp
  <2> QED BY <1>4, <2>1, NoSessionIs, ReplyIs DEF Does, Ops, Statuses
<1> QED BY <1>1, <1>2, <1>3, <1>4 DEF Ops

LEMMA NoCallIs ==
  /\ NoCall \in UpdateCalls /\ Course(NoCall)
  /\ NoCall.at = "idle" /\ NoCall.verb = "none" /\ NoCall.target \in Targets
<1>1. (CHOOSE t \in Targets : TRUE) \in Targets BY LengthAssumption
<1> QED BY <1>1 DEF NoCall, UpdateCalls, Course, UpdateVerbs, Ops, MaybeImage

LEMMA TypedBase ==
  ASSUME NEW c, Callers = {c}, UpdateInit PROVE Typed(c)
<1>1. session \in [Targets -> Sessions] /\ \A t \in Targets : Filling(session[t])
  BY NoSessionIs DEF UpdateInit
<1>2. call \in [Callers -> UpdateCalls] /\ Course(call[c]) BY NoCallIs DEF UpdateInit
<1>3. last \in [Callers -> Endings] BY NoCallIs DEF UpdateInit, Endings, UpdateVerbs, MaybeImage
<1>4. spent \in [calls : Nat, giveUps : Nat, lost : Nat] BY DEF UpdateInit
<1> QED BY <1>1, <1>2, <1>3, <1>4 DEF Typed, UpdateTypeOK, UpdateInit

-----------------------------------------------------------------------------
(* What the steps make of a call.                                           *)

Keeps(k, l) == l.verb = k.verb /\ l.target = k.target /\ l.image = k.image

\* The call of c has gone on, to do op, or is over.
Onward(c, at, op) ==
  /\ Keeps(call[c], call'[c]) /\ call'[c].at = at /\ call'[c].op = op
  /\ UNCHANGED last
Over(c, res) ==
  /\ call'[c] = NoCall
  /\ last'[c] = [res |-> res, verb |-> call[c].verb, target |-> call[c].target,
                 image |-> call[c].image]
CallTyped(c) ==
  /\ call' \in [Callers -> UpdateCalls] /\ last' \in [Callers -> Endings]
  /\ Course(call'[c])

LEMMA ReturnDoes ==
  ASSUME NEW c, Callers = {c}, Typed(c), NEW res \in {"ok", "error", "refused"}, Return(c, res)
  PROVE  CallTyped(c) /\ Over(c, res)
<1>1. call \in [Callers -> UpdateCalls] /\ last \in [Callers -> Endings] /\ call[c] \in UpdateCalls
  BY DEF Typed, UpdateTypeOK
<1> DEFINE e == [res |-> res, verb |-> call[c].verb, target |-> call[c].target, image |-> call[c].image]
<1>2. e \in Endings BY <1>1 DEF Endings, UpdateCalls
<1>3. last' = [last EXCEPT ![c] = e] /\ call' = [call EXCEPT ![c] = NoCall] BY DEF Return
<1> HIDE DEF e
<1>4. last' \in [Callers -> Endings] /\ last'[c] = e BY ONLY <1>1, <1>2, <1>3, Callers = {c}
<1>5. call' \in [Callers -> UpdateCalls] /\ call'[c] = NoCall BY ONLY <1>1, <1>3, NoCallIs, Callers = {c}
<1> QED BY <1>4, <1>5, NoCallIs DEF CallTyped, Over, e

\* A change of the call's own fields.
LEMMA Changed ==
  ASSUME NEW c, Callers = {c}, Typed(c), NEW l \in UpdateCalls, call' = [call EXCEPT ![c] = l],
         Course(l), UNCHANGED last
  PROVE  CallTyped(c) /\ call'[c] = l
BY DEF Typed, UpdateTypeOK, CallTyped

LEMMA EnterDoes ==
  ASSUME NEW c, Callers = {c}, Typed(c), NEW op \in Ops \ {"DATA"}, Enter(c, op), UNCHANGED last,
         call[c].at # "idle", call[c].verb = "stage" => op \in {"BEGIN", "END"},
         call[c].verb \in {"stage", "update"}
  PROVE  CallTyped(c) /\ Onward(c, "drain", op)
<1>1. call \in [Callers -> UpdateCalls] /\ call[c] \in UpdateCalls /\ Course(call[c]) BY DEF Typed, UpdateTypeOK
<1> DEFINE l == [call[c] EXCEPT !.at = "drain", !.op = op]
<1>2. call' = [call EXCEPT ![c] = l] BY <1>1 DEF Enter
<1>3. l \in UpdateCalls /\ Keeps(call[c], l) /\ l.at = "drain" /\ l.op = op BY <1>1 DEF UpdateCalls, Keeps
<1> HIDE DEF l
<1>4. Course(l) BY ONLY <1>1, <1>3, call[c].verb \in {"stage", "update"}, op \in Ops \ {"DATA"},
         call[c].verb = "stage" => op \in {"BEGIN", "END"} DEF Course, Keeps
<1>5. CallTyped(c) /\ call'[c] = l BY <1>2, <1>3, <1>4, Changed
<1> QED BY <1>3, <1>5 DEF Onward

Stops(c) == Over(c, "error") \/ (Activating(c) /\ Onward(c, "drain", "ABORT"))

LEMMA FailsDoes ==
  ASSUME NEW c, Callers = {c}, Typed(c), Fails(c), call[c].at # "idle"
  PROVE  CallTyped(c) /\ Stops(c)
<1>1. CASE Activating(c)
  <2>1. Enter(c, "ABORT") /\ UNCHANGED last /\ call[c].verb = "update" BY <1>1 DEF Fails, Enter, Activating
  <2> QED BY <1>1, <2>1, EnterDoes DEF Stops, Ops
<1>2. CASE ~Activating(c) BY <1>2, ReturnDoes DEF Fails, Stops
<1> QED BY <1>1, <1>2

LEMMA HeedDoes ==
  ASSUME NEW c, Callers = {c}, Typed(c), NEW p \in Replies, p.op = call[c].op, call[c].at = "recv",
         Heed(c, p)
  PROVE  /\ CallTyped(c)
         /\ \/ Stops(c)
            \/ p.op = "DATA" /\ (Onward(c, "drain", "END") \/ Onward(c, "chunks", "DATA"))
            \/ p.op = "BEGIN" /\ p.status = "READY" /\ Onward(c, "chunks", "BEGIN")
            \/ p.op = "END" /\ p.status = "STAGED" /\ call[c].verb = "update" /\ Onward(c, "drain", "ACTIVATE")
            \/ p.op = "END" /\ p.status = "STAGED" /\ call[c].verb = "stage" /\ Over(c, "ok")
            \/ p.op = "ABORT" /\ p.status = "OK" /\ call[c].verb = "update" /\ Over(c, "refused")
            \/ p.op \in {"ABORT", "ACTIVATE"} /\ call[c].verb # "stage" /\ Over(c, "ok")
<1> DEFINE k == call[c]
<1>1. call \in [Callers -> UpdateCalls] /\ k \in UpdateCalls /\ Course(k) BY DEF Typed, UpdateTypeOK
<1>2. CASE Fails(c) BY <1>2, FailsDoes
<1>3. ASSUME NEW l, l \in {[k EXCEPT !.at = "chunks", !.unacked = 0],
                           [k EXCEPT !.at = "chunks", !.sent = 0, !.unacked = 0]},
             call' = [call EXCEPT ![c] = l], UNCHANGED last, k.verb \in {"stage", "update"},
             k.op \in {"BEGIN", "DATA"}
      PROVE  CallTyped(c) /\ Onward(c, "chunks", k.op)
  <2>1. l \in UpdateCalls /\ Keeps(k, l) /\ l.at = "chunks" /\ l.op = k.op
    <3> HIDE DEF k
    <3>1. CASE l = [k EXCEPT !.at = "chunks", !.unacked = 0] BY <1>1, <3>1 DEF UpdateCalls, Keeps
    <3>2. CASE l = [k EXCEPT !.at = "chunks", !.sent = 0, !.unacked = 0] BY <1>1, <3>2 DEF UpdateCalls, Keeps
    <3> QED BY ONLY <1>3, <3>1, <3>2
  <2>2. Course(l) BY ONLY <1>1, <1>3, <2>1 DEF Course, Keeps
  <2>3. CallTyped(c) /\ call'[c] = l BY <1>3, <2>1, <2>2, Changed
  <2> QED BY <1>3, <2>1, <2>3 DEF Onward
<1>4. k.op \in {"BEGIN", "DATA", "END"} => k.verb \in {"stage", "update"}
  BY <1>1 DEF Course, UpdateCalls, UpdateVerbs
<1>5. CASE k.op = "DATA"
  <2>1. OnAck(c, p) BY <1>5 DEF Heed
  <2>2. CASE Enter(c, "END") /\ UNCHANGED last
    BY <1>4, <1>5, <2>2, EnterDoes DEF Ops
  <2>3. CASE call' = [call EXCEPT ![c].at = "chunks", ![c].unacked = 0] /\ UNCHANGED last
    <3>1. call' = [call EXCEPT ![c] = [k EXCEPT !.at = "chunks", !.unacked = 0]] BY <1>1, <2>3
    <3> QED BY <1>3, <1>4, <1>5, <2>3, <3>1
  <2> QED BY <1>2, <2>1, <2>2, <2>3 DEF OnAck
<1>6. CASE k.op = "BEGIN" /\ ~Fails(c)
  <2>1. p.status = "READY" /\ call' = [call EXCEPT ![c].at = "chunks", ![c].sent = 0, ![c].unacked = 0]
        /\ UNCHANGED last
    BY <1>6 DEF Heed
  <2>2. call' = [call EXCEPT ![c] = [k EXCEPT !.at = "chunks", !.sent = 0, !.unacked = 0]] BY <1>1, <2>1
  <2> QED BY <1>3, <1>4, <1>6, <2>1, <2>2
<1>7. CASE k.op = "END" /\ ~Fails(c)
  <2>1. p.status = "STAGED" BY <1>7 DEF Heed
  <2>2. CASE k.verb = "update"
    <3>1. Enter(c, "ACTIVATE") /\ UNCHANGED last BY <1>7, <2>1, <2>2 DEF Heed
    <3> QED BY <1>7, <2>1, <2>2, <3>1, EnterDoes DEF Ops
  <2>3. CASE k.verb = "stage"
    <3>1. Return(c, "ok") BY <1>7, <2>1, <2>3 DEF Heed
    <3> QED BY <1>7, <2>1, <2>3, <3>1, ReturnDoes
  <2> QED BY <1>4, <1>7, <2>2, <2>3
<1>8. CASE k.op \in {"ABORT", "ACTIVATE"} /\ ~Fails(c)
  <2>1. p.status = "OK" /\ Return(c, IF k.op = "ABORT" /\ k.verb = "update" THEN "refused" ELSE "ok")
    BY <1>8 DEF Heed
  <2>2. CASE k.op = "ABORT" /\ k.verb = "update" BY <2>1, <2>2, ReturnDoes
  <2>3. CASE ~(k.op = "ABORT" /\ k.verb = "update")
    <3>1. k.verb # "stage" BY <1>1, <1>8 DEF Course
    <3> QED BY <1>8, <2>1, <2>3, <3>1, ReturnDoes
  <2> QED BY <2>2, <2>3
<1> QED BY <1>1, <1>2, <1>5, <1>6, <1>7, <1>8 DEF UpdateCalls, Ops

LEMMA HoldIs ==
  ASSUME NEW h \in Seq(Replies), NEW ps \in Seq(Replies)
  PROVE  Hold(h, ps) \in Seq(Replies) /\ ToSet(Hold(h, ps)) \subseteq ToSet(h) \cup ToSet(ps)
<1> DEFINE all == h \o ps
           from == (IF Len(all) > HeldMax THEN Len(all) - HeldMax ELSE 0) + 1
<1>1. all \in Seq(Replies) /\ ToSet(all) \subseteq ToSet(h) \cup ToSet(ps) BY ConcatSet
<1>2. Len(all) \in Nat BY <1>1
<1>3. HeldMax \in Nat \ {0} BY BoundAssumption
<1>4. from \in Nat \ {0} BY <1>2, <1>3
<1>5. Hold(h, ps) = SubSeq(all, from, Len(all)) BY DEF Hold
<1> HIDE DEF all, from
<1>6. SubSeq(all, from, Len(all)) \in Seq(Replies) /\ ToSet(SubSeq(all, from, Len(all))) \subseteq ToSet(all)
  BY ONLY <1>1, <1>2, <1>4, SubSeqSet
<1> QED BY ONLY <1>1, <1>5, <1>6

LEMMA DropHeldIs ==
  ASSUME NEW h \in Seq(Replies), NEW op
  PROVE  /\ DropHeld(h, op) \in Seq(Replies) /\ ToSet(DropHeld(h, op)) \subseteq ToSet(h)
         /\ \A p \in ToSet(DropHeld(h, op)) : p.op # op
<1> DEFINE kept == {p \in ToSet(h) : p.op # op}
<1>1. Retain(h, kept) \in Seq(Replies) /\ ToSet(Retain(h, kept)) \subseteq kept \cap ToSet(h) BY RetainSet
<1>2. DropHeld(h, op) = Retain(h, kept) BY DEF DropHeld
<1> QED BY <1>1, <1>2

LEMMA StaleIs ==
  ASSUME NEW h \in Seq(Replies), NEW op, UpdateTypeOK
  PROVE  /\ Stale(h, op) \in Seq(Replies)
         /\ \A p \in ToSet(Stale(h, op)) : p.op # op
<1>1. DropHeld(updates, op) \in Seq(Replies) BY DropHeldIs DEF UpdateTypeOK
<1>2. Hold(h, DropHeld(updates, op)) \in Seq(Replies) BY <1>1, HoldIs
<1> QED BY <1>2, DropHeldIs DEF Stale

\* What the box makes of a frame.
Serves(f) ==
  \/ /\ f.op = "FIRMWARE" /\ UNCHANGED boxState
     /\ \/ UNCHANGED back
        \/ \E p \in Answers :
             /\ back' = Append(back, p) /\ p.seq = f.seq /\ boot # "down"
             /\ ~p.pending => boot # "probation"
  \/ /\ f.op = "ACTIVATE"
     /\ \E p \in Replies : back' = Append(back, p) /\ p.op = "ACTIVATE"
     /\ UNCHANGED boxState \/ (boot' = "down" /\ session' = [t \in Targets |-> NoSession])
  \/ /\ f.op \in Ops \ {"ACTIVATE"} /\ UNCHANGED boot /\ f.target \in Targets
     /\ \E r, ps : /\ Does(session[f.target], f, r, ps)
                   /\ session' = [session EXCEPT ![f.target] = r] /\ back' = back \o ps

LEMMA ServeDoes ==
  ASSUME NEW c, Callers = {c}, Typed(c), update_op
  PROVE  wire # <<>> /\ wire[1] \in UpdateFrames /\ wire' = Tail(wire) /\ Serves(wire[1])
<1> DEFINE f == wire[1]
<1>1. wire # <<>> /\ wire' = Tail(wire) /\ Head(wire) = f /\ f \in UpdateFrames
  BY TailSet DEF update_op, Typed, UpdateTypeOK
<1>2. f.op \in Ops \cup {"FIRMWARE"} /\ "FIRMWARE" \notin Ops BY <1>1 DEF UpdateFrames, Ops
<1>3. CASE f.op = "FIRMWARE"
  <2>1. Tells(f) BY <1>1, <1>2, <1>3 DEF update_op
  <2> DEFINE p == [op |-> "FIRMWARE", by |-> f.by, seq |-> f.seq, pending |-> boot = "probation"]
  <2>2. p \in Answers BY <1>1, <1>3 DEF Answers, UpdateFrames, Ops
  <2>3. p.seq = f.seq /\ (~p.pending => boot # "probation") OBVIOUS
  <2>4. UNCHANGED boxState /\ back' = IF boot = "down" THEN back ELSE Append(back, p) BY <2>1 DEF Tells
  <2> HIDE DEF p
  <2> QED BY <1>1, <1>3, <2>2, <2>3, <2>4 DEF Serves
<1>4. CASE f.op = "ACTIVATE"
  <2>0. f.op # "FIRMWARE" /\ f.op \notin Ops \ {"ACTIVATE"} BY <1>4
  <2> HIDE DEF f
  <2>1. Activates BY <1>1, <1>4, <2>0 DEF update_op
  <2>a. "ACTIVATE" \in Ops /\ 0 \in Nat BY DEF Ops
  <2>2. \A st \in Statuses : Reply("ACTIVATE", st, 0) \in Replies /\ Reply("ACTIVATE", st, 0).op = "ACTIVATE"
    BY ONLY <2>a DEF Reply, Replies
  <2>3. "REFUSED" \in Statuses /\ "NOTHING_STAGED" \in Statuses /\ "OK" \in Statuses BY DEF Statuses
  <2>4. /\ \E st \in Statuses : back' = Append(back, Reply("ACTIVATE", st, 0))
        /\ UNCHANGED boxState \/ (boot' = "down" /\ session' = [t \in Targets |-> NoSession])
    BY ONLY <2>1, <2>3 DEF Activates
  <2>5. \E p \in Replies : back' = Append(back, p) /\ p.op = "ACTIVATE" BY ONLY <2>2, <2>4
  <2> QED BY <1>1, <1>4, <2>4, <2>5 DEF Serves
<1>5. CASE f.op \in Ops \ {"ACTIVATE"}
  <2>1. Serve(f) BY <1>1, <1>2, <1>5 DEF update_op
  <2>2. f.target \in Targets BY <1>1, <1>5 DEF UpdateFrames, Ops
  <2>3. session[f.target] \in Sessions /\ Filling(session[f.target]) BY <2>2 DEF Typed, UpdateTypeOK
  <2> QED BY <1>1, <1>5, <2>1, <2>2, <2>3, OpDoes DEF Serve, Serves
<1> QED BY <1>2, <1>3, <1>4, <1>5

BackWith == Seq(Replies \cup Answers)

LEMMA ServedTyped ==
  ASSUME NEW c, Callers = {c}, Typed(c), update_op
  PROVE  Typed(c)'
<1> DEFINE f == wire[1]
<1>1. wire # <<>> /\ f \in UpdateFrames /\ wire' = Tail(wire) /\ Serves(f) BY ServeDoes
<1>2. UNCHANGED <<updates, held, call, info, last, spent>> BY DEF update_op
<1>3. wire' \in Seq(UpdateFrames) BY <1>1, TailSet DEF Typed, UpdateTypeOK
<1>4. back \in BackWith BY DEF Typed, UpdateTypeOK, BackWith
<1>5. back' \in BackWith /\ session' \in [Targets -> Sessions] /\ boot' \in {"up", "down", "probation"}
      /\ \A t \in Targets : Filling(session'[t])
  <2>1. session \in [Targets -> Sessions] /\ boot \in {"up", "down", "probation"}
        /\ \A t \in Targets : Filling(session[t])
    BY DEF Typed, UpdateTypeOK
  <2>2. CASE f.op = "FIRMWARE"
    <3>1. UNCHANGED boxState /\ (back' = back \/ \E p \in Answers : back' = Append(back, p))
      BY <1>1, <2>2 DEF Serves, Ops
    <3>2. back' \in BackWith BY <1>4, <3>1 DEF BackWith
    <3> QED BY <2>1, <3>1, <3>2 DEF boxState
  <2>3. CASE f.op = "ACTIVATE"
    <3>1. \E p \in Replies : back' = Append(back, p) BY <1>1, <2>3 DEF Serves, Ops
    <3>2. back' \in BackWith BY <1>4, <3>1 DEF BackWith
    <3>3. UNCHANGED boxState \/ (boot' = "down" /\ session' = [t \in Targets |-> NoSession])
      BY <1>1, <2>3 DEF Serves, Ops
    <3> QED BY <2>1, <3>2, <3>3, NoSessionIs DEF boxState
  <2>4. CASE f.op \in Ops \ {"ACTIVATE"}
    <3>1. PICK r, ps : /\ Does(session[f.target], f, r, ps)
                       /\ session' = [session EXCEPT ![f.target] = r] /\ back' = back \o ps
      BY <1>1, <2>4 DEF Serves, Ops
    <3>2. f.target \in Targets /\ UNCHANGED boot BY <1>1, <2>4 DEF Serves, Ops
    <3>3. r \in Sessions /\ Filling(r) /\ ps \in Seq(Replies) BY <3>1 DEF Does
    <3>4. ps \in BackWith BY <3>3, SeqMonotonic DEF BackWith
    <3>5. back' \in BackWith BY ONLY <1>4, <3>1, <3>4, ConcatSet DEF BackWith
    <3> QED BY <2>1, <3>1, <3>2, <3>3, <3>5
  <2>5. f.op \in Ops \cup {"FIRMWARE"} BY <1>1 DEF UpdateFrames, Ops
  <2> QED BY <2>2, <2>3, <2>4, <2>5
<1> QED BY <1>2, <1>3, <1>5 DEF Typed, UpdateTypeOK, BackWith

\* The steps that are the caller's change no session.
LEMMA CallerTyped ==
  ASSUME NEW c, Callers = {c}, Typed(c), CallTyped(c), UNCHANGED boxState,
         wire' \in Seq(UpdateFrames), back' = back, updates' \in Seq(Replies), held' \in Seq(Replies),
         info' \in [Callers -> {"none", "pending", "confirmed"}],
         spent' \in [calls : Nat, giveUps : Nat, lost : Nat]
  PROVE  Typed(c)'
BY DEF Typed, UpdateTypeOK, CallTyped, boxState

LEMMA LoseTyped ==
  ASSUME NEW c, Callers = {c}, Typed(c), LoseFrame
  PROVE  Typed(c)'
<1>1. wire' \in Seq(UpdateFrames) BY TailSet DEF LoseFrame, Typed, UpdateTypeOK
<1>2. spent' \in [calls : Nat, giveUps : Nat, lost : Nat] BY DEF LoseFrame, Typed, UpdateTypeOK
<1> QED BY <1>1, <1>2 DEF LoseFrame, Typed, UpdateTypeOK, boxState

LEMMA BootsTyped ==
  ASSUME NEW c, Callers = {c}, Typed(c), BoxBoots
  PROVE  Typed(c)'
BY DEF BoxBoots, Typed, UpdateTypeOK, queues

LEMMA ArriveDoes ==
  ASSUME NEW c, Callers = {c}, Typed(c), Arrive
  PROVE  /\ Typed(c)' /\ back # <<>> /\ back' = Tail(back)
         /\ \/ /\ back[1].op = "FIRMWARE" /\ UNCHANGED updates
               /\ \/ UNCHANGED info
                  \/ /\ call[c].at = "asked" /\ call[c].sent = back[1].seq
                     /\ back[1].pending => info'[c] = "pending"
            \/ /\ back[1] \in Replies /\ updates' = Append(updates, back[1])
               /\ UNCHANGED info
<1> DEFINE p == back[1]
<1>1. back # <<>> /\ back' = Tail(back) /\ Head(back) = p /\ p \in Replies \cup Answers
      /\ back' \in Seq(Replies \cup Answers)
  BY TailSet DEF Arrive, Typed, UpdateTypeOK
<1>2. info \in [Callers -> {"none", "pending", "confirmed"}] /\ updates \in Seq(Replies)
  BY DEF Typed, UpdateTypeOK
<1>3. CASE p.op = "FIRMWARE"
  <2>1. p \in Answers BY <1>1, <1>3 DEF Replies, Ops
  <2>2. p.by = c /\ p.pending \in BOOLEAN BY <2>1 DEF Answers
  <2> DEFINE told == IF p.pending THEN "pending" ELSE "confirmed"
  <2>3. UNCHANGED updates
        /\ info' = IF call[c].at = "asked" /\ call[c].sent = p.seq THEN [info EXCEPT ![c] = told] ELSE info
    BY <1>1, <1>3, <2>2 DEF Arrive
  <2>4. told \in {"pending", "confirmed"} /\ (p.pending => told = "pending") OBVIOUS
  <2> HIDE DEF told, p
  <2>5. info' \in [Callers -> {"none", "pending", "confirmed"}] BY <1>2, <2>3, <2>4
  <2>6. Typed(c)' BY <1>1, <1>2, <2>3, <2>5 DEF Arrive, Typed, UpdateTypeOK, boxState
  <2> QED BY <1>1, <1>2, <1>3, <2>3, <2>4, <2>6 DEF p
<1>4. CASE p.op # "FIRMWARE"
  <2>1. p \in Replies BY <1>1, <1>4 DEF Answers
  <2>2. updates' = Append(updates, p) /\ UNCHANGED info BY <1>1, <1>4 DEF Arrive
  <2>3. updates' \in Seq(Replies) BY <1>2, <2>1, <2>2
  <2>4. Typed(c)' BY <1>1, <1>2, <2>2, <2>3 DEF Arrive, Typed, UpdateTypeOK, boxState
  <2> QED BY <1>1, <2>1, <2>2, <2>4
<1> QED BY <1>3, <1>4

LEMMA CallDoes ==
  ASSUME NEW c, Callers = {c}, Typed(c), Call(c)
  PROVE  /\ Typed(c)' /\ last'[c].res = "none"
         /\ \/ call'[c].at = "confirm"
            \/ call'[c].at = "drain" /\ call'[c].verb \in {"abort", "activate"}
<1>1. call \in [Callers -> UpdateCalls] /\ last \in [Callers -> Endings]
      /\ spent \in [calls : Nat, giveUps : Nat, lost : Nat]
  BY DEF Typed, UpdateTypeOK
<1>2. PICK t \in Targets :
        \/ \E verb \in {"stage", "update"}, i \in Images :
             call' = [call EXCEPT ![c] = [NoCall EXCEPT !.at = "confirm", !.verb = verb,
                                                        !.target = t, !.image = i]]
        \/ \E verb \in {"abort", "activate"} :
             call' = [call EXCEPT ![c] =
               [NoCall EXCEPT !.at = "drain", !.verb = verb, !.target = t,
                              !.op = IF verb = "abort" THEN "ABORT" ELSE "ACTIVATE"]]
  BY DEF Call
<1> DEFINE Fit(l) == /\ call' = [call EXCEPT ![c] = l] /\ Course(l)
                     /\ l.at = "confirm" \/ (l.at = "drain" /\ l.verb \in {"abort", "activate"})
<1>3. \E l \in UpdateCalls : Fit(l)
  <2>1. ASSUME NEW verb \in {"stage", "update"}, NEW i \in Images, NEW l,
               l = [NoCall EXCEPT !.at = "confirm", !.verb = verb, !.target = t, !.image = i],
               call' = [call EXCEPT ![c] = l]
        PROVE  l \in UpdateCalls /\ Fit(l)
    <3>1. l \in UpdateCalls /\ l.at = "confirm" /\ l.verb = verb /\ l.image = i /\ l.op = NoCall.op
      BY <2>1, NoCallIs DEF UpdateCalls, UpdateVerbs, MaybeImage
    <3>2. NoCall.op = "BEGIN" BY DEF NoCall
    <3>3. Course(l) BY ONLY <3>1, <3>2, verb \in {"stage", "update"}, i \in Images DEF Course
    <3> QED BY <2>1, <3>1, <3>3
  <2>2. ASSUME NEW verb \in {"abort", "activate"}, NEW op, NEW l,
               op = IF verb = "abort" THEN "ABORT" ELSE "ACTIVATE",
               l = [NoCall EXCEPT !.at = "drain", !.verb = verb, !.target = t, !.op = op],
               call' = [call EXCEPT ![c] = l]
        PROVE  l \in UpdateCalls /\ Fit(l)
    <3>1. l \in UpdateCalls /\ l.at = "drain" /\ l.verb = verb /\ l.op = op
      BY <2>2, NoCallIs DEF UpdateCalls, UpdateVerbs, Ops
    <3>2. Course(l) BY ONLY <2>2, <3>1, verb \in {"abort", "activate"} DEF Course
    <3> QED BY <2>2, <3>1, <3>2
  <2> HIDE DEF Fit
  <2>3. CASE \E verb \in {"stage", "update"}, i \in Images :
               call' = [call EXCEPT ![c] = [NoCall EXCEPT !.at = "confirm", !.verb = verb,
                                                          !.target = t, !.image = i]]
    BY <2>1, <2>3
  <2>4. CASE \E verb \in {"abort", "activate"} :
               call' = [call EXCEPT ![c] =
                 [NoCall EXCEPT !.at = "drain", !.verb = verb, !.target = t,
                                !.op = IF verb = "abort" THEN "ABORT" ELSE "ACTIVATE"]]
    BY <2>2, <2>4
  <2> QED BY <1>2, <2>3, <2>4
<1>4. PICK l \in UpdateCalls : /\ call' = [call EXCEPT ![c] = l] /\ Course(l)
                               /\ l.at = "confirm" \/ (l.at = "drain" /\ l.verb \in {"abort", "activate"})
  BY <1>3
<1>5. call' \in [Callers -> UpdateCalls] /\ call'[c] = l BY <1>1, <1>4
<1>6. last' = [last EXCEPT ![c].res = "none"] /\ spent' = [spent EXCEPT !.calls = @ + 1] BY DEF Call
<1>7. last' \in [Callers -> Endings] /\ last'[c].res = "none" BY <1>1, <1>6 DEF Endings
<1>8. spent' \in [calls : Nat, giveUps : Nat, lost : Nat] BY <1>1, <1>6
<1>9. CallTyped(c) BY <1>4, <1>5, <1>7 DEF CallTyped
<1>10. Typed(c)' BY <1>8, <1>9, CallerTyped DEF Call, queues, Typed, UpdateTypeOK
<1> QED BY <1>4, <1>5, <1>7, <1>10

\* A step that only sets the call's own fields.
LEMMA SetsTyped ==
  ASSUME NEW c, Callers = {c}, Typed(c), NEW l \in UpdateCalls, call' = [call EXCEPT ![c] = l],
         Course(l), UNCHANGED <<boxState, back, last>>,
         wire' \in Seq(UpdateFrames), updates' \in Seq(Replies), held' \in Seq(Replies),
         info' \in [Callers -> {"none", "pending", "confirmed"}],
         spent' \in [calls : Nat, giveUps : Nat, lost : Nat]
  PROVE  Typed(c)' /\ call'[c] = l
<1>1. CallTyped(c) /\ call'[c] = l BY Changed
<1> QED BY <1>1, CallerTyped

LEMMA AskDoes ==
  ASSUME NEW c, Callers = {c}, Typed(c), Ask(c)
  PROVE  /\ Typed(c)' /\ Onward(c, "asked", call[c].op) /\ call'[c].sent = spent.giveUps
         /\ info'[c] = "none"
         /\ wire' = Append(wire, [op |-> "FIRMWARE", by |-> c, seq |-> spent.giveUps])
<1> DEFINE l == [call[c] EXCEPT !.at = "asked", !.sent = spent.giveUps]
           f == [op |-> "FIRMWARE", by |-> c, seq |-> spent.giveUps]
<1>1. call \in [Callers -> UpdateCalls] /\ call[c] \in UpdateCalls /\ Course(call[c])
      /\ spent.giveUps \in Nat /\ wire \in Seq(UpdateFrames)
      /\ info \in [Callers -> {"none", "pending", "confirmed"}]
  BY DEF Typed, UpdateTypeOK
<1>2. call' = [call EXCEPT ![c] = l] /\ UNCHANGED last BY <1>1 DEF Ask
<1>3. l \in UpdateCalls /\ Keeps(call[c], l) /\ l.at = "asked" /\ l.op = call[c].op /\ l.sent = spent.giveUps
  BY <1>1 DEF UpdateCalls, Keeps
<1>4. f \in UpdateFrames BY <1>1 DEF UpdateFrames
<1>5. wire' = Append(wire, f) BY DEF Ask
<1> HIDE DEF l, f
<1>6. call[c].at = "confirm" BY DEF Ask
<1>7. Course(l) BY ONLY <1>1, <1>3, <1>6 DEF Course, Keeps
<1>8. wire' \in Seq(UpdateFrames) BY ONLY <1>1, <1>4, <1>5
<1>9. info' \in [Callers -> {"none", "pending", "confirmed"}] /\ info'[c] = "none" BY <1>1 DEF Ask
<1>10. Typed(c)' /\ call'[c] = l
  <2>1. UNCHANGED <<boxState, back, updates, held, spent>> BY DEF Ask
  <2> QED BY <1>2, <1>3, <1>7, <1>8, <1>9, <2>1, SetsTyped DEF Typed, UpdateTypeOK
<1> QED BY <1>2, <1>3, <1>5, <1>9, <1>10 DEF Onward, f

LEMMA ToldDoes ==
  ASSUME NEW c, Callers = {c}, Typed(c), Told(c)
  PROVE  /\ Typed(c)'
         /\ \/ Onward(c, "confirm", call[c].op)
            \/ info[c] = "confirmed" /\ Onward(c, "drain", "BEGIN")
<1>1. call \in [Callers -> UpdateCalls] /\ call[c] \in UpdateCalls /\ Course(call[c])
      /\ info \in [Callers -> {"none", "pending", "confirmed"}]
  BY DEF Typed, UpdateTypeOK
<1>2. call[c].at = "asked" /\ UNCHANGED last /\ call[c].verb \in {"stage", "update"}
  BY <1>1 DEF Told, Course
<1>3. info' \in [Callers -> {"none", "pending", "confirmed"}] BY <1>1 DEF Told
<1>4. CASE info[c] = "confirmed"
  <2>1. CallTyped(c) /\ Onward(c, "drain", "BEGIN")
    <3>1. Enter(c, "BEGIN") BY <1>4 DEF Told
    <3> QED BY <1>2, <3>1, EnterDoes DEF Ops
  <2>2. Typed(c)' BY <1>3, <2>1, CallerTyped DEF Told, queues, Typed, UpdateTypeOK
  <2> QED BY <1>4, <2>1, <2>2
<1>5. CASE info[c] # "confirmed"
  <2> DEFINE l == [call[c] EXCEPT !.at = "confirm"]
  <2>1. call' = [call EXCEPT ![c] = l] BY <1>1, <1>5 DEF Told
  <2>2. l \in UpdateCalls /\ Keeps(call[c], l) /\ l.at = "confirm" /\ l.op = call[c].op
    BY <1>1 DEF UpdateCalls, Keeps
  <2> HIDE DEF l
  <2>3. Course(l) BY ONLY <1>1, <1>2, <2>2 DEF Course, Keeps
  <2>4. Typed(c)' /\ call'[c] = l
    BY <1>2, <1>3, <2>1, <2>2, <2>3, SetsTyped DEF Told, queues, Typed, UpdateTypeOK
  <2> QED BY <1>2, <2>2, <2>4 DEF Onward
<1> QED BY <1>4, <1>5

LEMMA UnansweredDoes ==
  ASSUME NEW c, Callers = {c}, Typed(c), Unanswered(c)
  PROVE  /\ Typed(c)' /\ spent'.giveUps = spent.giveUps + 1
         /\ Onward(c, "confirm", call[c].op) \/ Over(c, "error")
<1>1. call \in [Callers -> UpdateCalls] /\ call[c] \in UpdateCalls /\ Course(call[c])
      /\ spent \in [calls : Nat, giveUps : Nat, lost : Nat]
  BY DEF Typed, UpdateTypeOK
<1>2. call[c].at = "asked" /\ call[c].verb \in {"stage", "update"} BY <1>1 DEF Unanswered, Course
<1>3. spent' = [spent EXCEPT !.giveUps = @ + 1] BY DEF Unanswered
<1>4. spent' \in [calls : Nat, giveUps : Nat, lost : Nat] /\ spent'.giveUps = spent.giveUps + 1
  BY <1>1, <1>3
<1>5. CASE Return(c, "error")
  <2>1. CallTyped(c) /\ Over(c, "error") BY <1>5, ReturnDoes
  <2>2. Typed(c)' BY <1>4, <2>1, CallerTyped DEF Unanswered, queues, Typed, UpdateTypeOK
  <2> QED BY <1>4, <2>1, <2>2
<1>6. CASE call' = [call EXCEPT ![c].at = "confirm"] /\ UNCHANGED last
  <2> DEFINE l == [call[c] EXCEPT !.at = "confirm"]
  <2>1. call' = [call EXCEPT ![c] = l] BY <1>1, <1>6
  <2>2. l \in UpdateCalls /\ Keeps(call[c], l) /\ l.at = "confirm" /\ l.op = call[c].op
    BY <1>1 DEF UpdateCalls, Keeps
  <2> HIDE DEF l
  <2>3. Course(l) BY ONLY <1>1, <1>2, <2>2 DEF Course, Keeps
  <2>4. Typed(c)' /\ call'[c] = l
    BY <1>4, <1>6, <2>1, <2>2, <2>3, SetsTyped DEF Unanswered, queues, Typed, UpdateTypeOK
  <2> QED BY <1>4, <1>6, <2>2, <2>4 DEF Onward
<1> QED BY <1>5, <1>6 DEF Unanswered

LEMMA DrainDoes ==
  ASSUME NEW c, Callers = {c}, Typed(c), Drain(c)
  PROVE  /\ Typed(c)' /\ Onward(c, "send", call[c].op) /\ call[c].at = "drain"
         /\ updates' = <<>> /\ \A p \in ToSet(held') : p.op # call[c].op
<1> DEFINE l == [call[c] EXCEPT !.at = "send"]
<1>1. call \in [Callers -> UpdateCalls] /\ call[c] \in UpdateCalls /\ Course(call[c])
      /\ held \in Seq(Replies) /\ UpdateTypeOK
  BY DEF Typed, UpdateTypeOK
<1>2. call' = [call EXCEPT ![c] = l] /\ UNCHANGED last BY <1>1 DEF Drain
<1>3. l \in UpdateCalls /\ Keeps(call[c], l) /\ l.at = "send" /\ l.op = call[c].op
  BY <1>1 DEF UpdateCalls, Keeps
<1> HIDE DEF l
<1>4. call[c].at = "drain" /\ updates' = <<>> /\ held' = Stale(held, call[c].op) BY DEF Drain
<1>5. Course(l) BY ONLY <1>1, <1>3, <1>4 DEF Course, Keeps
<1>6. updates' \in Seq(Replies) /\ held' \in Seq(Replies) /\ \A p \in ToSet(held') : p.op # call[c].op
  BY <1>1, <1>4, StaleIs
<1>7. Typed(c)' /\ call'[c] = l
  BY <1>2, <1>3, <1>5, <1>6, SetsTyped DEF Drain, Typed, UpdateTypeOK
<1> QED BY <1>2, <1>3, <1>4, <1>6, <1>7 DEF Onward

LEMMA SendDoes ==
  ASSUME NEW c, Callers = {c}, Typed(c), Send(c)
  PROVE  /\ Typed(c)' /\ Onward(c, "recv", call[c].op) /\ call[c].at = "send" /\ call[c].op # "DATA"
         /\ \E f \in UpdateFrames : /\ wire' = Append(wire, f) /\ f.op = call[c].op /\ f.target = call[c].target
                                    /\ f.op = "BEGIN" => f.image = call[c].image
<1> DEFINE l == [call[c] EXCEPT !.at = "recv"]
           f == Frame(call[c])
<1>1. call \in [Callers -> UpdateCalls] /\ call[c] \in UpdateCalls /\ Course(call[c])
      /\ wire \in Seq(UpdateFrames)
  BY DEF Typed, UpdateTypeOK
<1>2. call' = [call EXCEPT ![c] = l] /\ UNCHANGED last BY <1>1 DEF Send
<1>3. l \in UpdateCalls /\ Keeps(call[c], l) /\ l.at = "recv" /\ l.op = call[c].op
  BY <1>1 DEF UpdateCalls, Keeps
<1>4. call[c].at = "send" /\ wire' = Append(wire, f) BY DEF Send
<1> HIDE DEF l
<1>5. Course(l) /\ call[c].op # "DATA" /\ (call[c].op = "BEGIN" => call[c].image \in Images)
  BY ONLY <1>1, <1>3, <1>4 DEF Course, Keeps, UpdateCalls, UpdateVerbs
<1>6. f \in UpdateFrames /\ f.op = call[c].op /\ f.target = call[c].target
      /\ (f.op = "BEGIN" => f.image = call[c].image)
  <2>1. call[c].target \in Targets /\ call[c].op \in Ops BY <1>1 DEF UpdateCalls
  <2>2. CASE call[c].op = "BEGIN" BY <1>5, <2>1, <2>2 DEF Frame, UpdateFrames
  <2>3. CASE call[c].op # "BEGIN" BY <1>5, <2>1, <2>3 DEF Frame, UpdateFrames, Ops
  <2> QED BY <2>2, <2>3
<1> HIDE DEF f
<1>7. wire' \in Seq(UpdateFrames) BY ONLY <1>1, <1>4, <1>6
<1>8. Typed(c)' /\ call'[c] = l
  BY <1>2, <1>3, <1>5, <1>7, SetsTyped DEF Send, Typed, UpdateTypeOK
<1> QED BY <1>2, <1>3, <1>4, <1>5, <1>6, <1>8 DEF Onward

LEMMA SendChunkDoes ==
  ASSUME NEW c, Callers = {c}, Typed(c), SendChunk(c)
  PROVE  /\ Typed(c)' /\ Onward(c, "chunks", call[c].op) /\ call[c].at = "chunks"
         /\ \E f \in UpdateFrames : wire' = Append(wire, f) /\ f.op = "DATA" /\ f.target = call[c].target
<1> DEFINE k == call[c]
           l == [k EXCEPT !.sent = @ + 1, !.unacked = @ + 1]
           f == [op |-> "DATA", target |-> k.target, seq |-> k.sent, chunk |-> Chunks(k.image)[k.sent + 1]]
<1>1. call \in [Callers -> UpdateCalls] /\ k \in UpdateCalls /\ Course(k) /\ wire \in Seq(UpdateFrames)
  BY DEF Typed, UpdateTypeOK
<1>2. call' = [call EXCEPT ![c] = l] /\ UNCHANGED last BY <1>1 DEF SendChunk
<1>3. k.sent \in Nat /\ k.unacked \in Nat /\ k.target \in Targets BY <1>1 DEF UpdateCalls
<1>4. l \in UpdateCalls /\ Keeps(k, l) /\ l.at = k.at /\ l.op = k.op
  <2> DEFINE x == k.sent + 1
             y == k.unacked + 1
  <2>1. l = [k EXCEPT !.sent = x, !.unacked = y] OBVIOUS
  <2>2. x \in Nat /\ y \in Nat BY <1>3
  <2> HIDE DEF l, x, y, k
  <2> QED BY ONLY <1>1, <2>1, <2>2 DEF UpdateCalls, Keeps
<1>5. k.at = "chunks" /\ wire' = Append(wire, f) /\ k.sent < Length[k.image] BY DEF SendChunk, HasRoom
<1>6. k.image \in Images /\ Length[k.image] \in Nat BY <1>1, <1>5, LengthAssumption DEF Course
<1>7. Chunks(k.image)[k.sent + 1] = <<k.image, k.sent + 1>>
  <2>1. k.sent + 1 \in 1..Length[k.image] BY <1>3, <1>5, <1>6
  <2> QED BY <2>1 DEF Chunks
<1>8. f \in UpdateFrames /\ f.op = "DATA" /\ f.target = k.target
  <2>1. <<k.image, k.sent + 1>> \in Chunk BY <1>3, <1>6 DEF Chunk
  <2> QED BY <1>3, <1>7, <2>1 DEF UpdateFrames
<1> HIDE DEF l, f
<1>9. Course(l) BY ONLY <1>1, <1>4 DEF Course, Keeps
<1>10. wire' \in Seq(UpdateFrames) BY ONLY <1>1, <1>5, <1>8
<1>11. Typed(c)' /\ call'[c] = l
  BY <1>2, <1>4, <1>9, <1>10, SetsTyped DEF SendChunk, Typed, UpdateTypeOK
<1> QED BY <1>2, <1>4, <1>5, <1>8, <1>11 DEF Onward

LEMMA WindowFullDoes ==
  ASSUME NEW c, Callers = {c}, Typed(c), WindowFull(c)
  PROVE  Typed(c)' /\ Onward(c, "recv", "DATA") /\ call[c].at = "chunks"
<1> DEFINE l == [call[c] EXCEPT !.at = "recv", !.op = "DATA"]
<1>1. call \in [Callers -> UpdateCalls] /\ call[c] \in UpdateCalls /\ Course(call[c])
  BY DEF Typed, UpdateTypeOK
<1>2. call' = [call EXCEPT ![c] = l] /\ UNCHANGED last BY <1>1 DEF WindowFull
<1>3. l \in UpdateCalls /\ Keeps(call[c], l) /\ l.at = "recv" /\ l.op = "DATA"
  BY <1>1 DEF UpdateCalls, Keeps, Ops
<1> HIDE DEF l
<1>4. call[c].at = "chunks" BY DEF WindowFull
<1>5. Course(l) BY ONLY <1>1, <1>3, <1>4 DEF Course, Keeps
<1>6. Typed(c)' /\ call'[c] = l
  BY <1>2, <1>3, <1>5, SetsTyped DEF WindowFull, queues, Typed, UpdateTypeOK
<1> QED BY <1>2, <1>3, <1>4, <1>6 DEF Onward

\* What a reply to the operation in hand has made of a call that waited for it.
Heeds(c, p) ==
  \/ Stops(c)
  \/ p.op = "DATA" /\ (Onward(c, "drain", "END") \/ Onward(c, "chunks", "DATA"))
  \/ p.op = "BEGIN" /\ p.status = "READY" /\ Onward(c, "chunks", "BEGIN")
  \/ p.op = "END" /\ p.status = "STAGED" /\ call[c].verb = "update" /\ Onward(c, "drain", "ACTIVATE")
  \/ p.op = "END" /\ p.status = "STAGED" /\ call[c].verb = "stage" /\ Over(c, "ok")
  \/ p.op = "ABORT" /\ p.status = "OK" /\ call[c].verb = "update" /\ Over(c, "refused")
  \/ p.op \in {"ABORT", "ACTIVATE"} /\ call[c].verb # "stage" /\ Over(c, "ok")

LEMMA AfterReplyIs ==
  ASSUME NEW c, NEW p, NEW h \in Seq(Replies)
  PROVE  AfterReply(c, p, h) \in Seq(Replies)
BY DropHeldIs DEF AfterReply

LEMMA TakeHeldDoes ==
  ASSUME NEW c, Callers = {c}, Typed(c), TakeHeld(c)
  PROVE  /\ Typed(c)' /\ call[c].at = "recv"
         /\ \E p \in ToSet(held) : p.op = call[c].op /\ Heeds(c, p)
<1>1. call[c].at = "recv" BY DEF TakeHeld
<1>2. PICK i \in DOMAIN held : /\ held[i].op = call[c].op
                               /\ Heed(c, held[i])
                               /\ held' = AfterReply(c, held[i], RemoveAt(held, i))
  BY DEF TakeHeld
<1>3. held \in Seq(Replies) BY DEF Typed, UpdateTypeOK
<1>4. held[i] \in Replies /\ held[i] \in ToSet(held) /\ i \in 1..Len(held) BY <1>3 DEF ToSet
<1>5. RemoveAt(held, i) \in Seq(Replies) BY <1>3, <1>4, RemoveAtSet
<1>6. held' \in Seq(Replies) BY <1>2, <1>5, AfterReplyIs
<1>7. CallTyped(c) /\ Heeds(c, held[i]) BY <1>1, <1>2, <1>4, HeedDoes DEF Heeds
<1>8. Typed(c)' BY <1>6, <1>7, CallerTyped DEF TakeHeld, Typed, UpdateTypeOK
<1> QED BY <1>1, <1>2, <1>4, <1>7, <1>8

LEMMA TakeUpdateDoes ==
  ASSUME NEW c, Callers = {c}, Typed(c), TakeUpdate(c)
  PROVE  /\ Typed(c)' /\ call[c].at = "recv"
         /\ \/ \E p \in ToSet(updates) : p.op = call[c].op /\ Heeds(c, p)
            \/ /\ UNCHANGED <<call, last>>
               /\ ToSet(updates') \cup ToSet(held') \subseteq ToSet(updates) \cup ToSet(held)
<1> DEFINE p == updates[1]
<1>1. call[c].at = "recv" BY DEF TakeUpdate
<1>2. updates \in Seq(Replies) /\ held \in Seq(Replies) /\ call \in [Callers -> UpdateCalls]
      /\ last \in [Callers -> Endings] /\ Course(call[c])
  BY DEF Typed, UpdateTypeOK
<1>3. updates # <<>> /\ updates' = Tail(updates) BY DEF TakeUpdate
<1>4. Head(updates) = p /\ p \in Replies /\ p \in ToSet(updates) /\ updates' \in Seq(Replies)
      /\ ToSet(updates') \subseteq ToSet(updates)
  BY <1>2, <1>3, TailSet
<1>5. CASE p.op = call[c].op
  <2>1. Heed(c, p) /\ held' = AfterReply(c, p, held) BY <1>4, <1>5 DEF TakeUpdate
  <2>2. held' \in Seq(Replies) BY <1>2, <2>1, AfterReplyIs
  <2>3. CallTyped(c) /\ Heeds(c, p) BY <1>1, <1>4, <1>5, <2>1, HeedDoes DEF Heeds
  <2>4. Typed(c)' BY <1>4, <2>2, <2>3, CallerTyped DEF TakeUpdate, Typed, UpdateTypeOK
  <2> QED BY <1>1, <1>4, <1>5, <2>3, <2>4
<1>6. CASE p.op # call[c].op
  <2>1. held' = Hold(held, <<p>>) /\ UNCHANGED <<call, last>> BY <1>4, <1>6 DEF TakeUpdate
  <2>2. <<p>> \in Seq(Replies) /\ ToSet(<<p>>) = {p} BY <1>4 DEF ToSet
  <2>3. held' \in Seq(Replies) /\ ToSet(held') \subseteq ToSet(held) \cup {p} BY <1>2, <2>1, <2>2, HoldIs
  <2>4. CallTyped(c) BY <1>2, <2>1 DEF CallTyped
  <2>5. Typed(c)' BY <1>4, <2>3, <2>4, CallerTyped DEF TakeUpdate, Typed, UpdateTypeOK
  <2> QED BY <1>1, <1>4, <2>1, <2>3, <2>5
<1> QED BY <1>5, <1>6

LEMMA GiveUpDoes ==
  ASSUME NEW c, Callers = {c}, Typed(c), GiveUp(c)
  PROVE  /\ Typed(c)' /\ call[c].at \in {"send", "chunks", "recv"} /\ Stops(c)
         /\ spent'.giveUps = spent.giveUps + 1
<1>1. call[c].at \in {"send", "chunks", "recv"} /\ Fails(c) BY DEF GiveUp
<1>2. CallTyped(c) /\ Stops(c) BY <1>1, FailsDoes
<1>3. spent \in [calls : Nat, giveUps : Nat, lost : Nat] BY DEF Typed, UpdateTypeOK
<1>4. spent' \in [calls : Nat, giveUps : Nat, lost : Nat] /\ spent'.giveUps = spent.giveUps + 1
  BY <1>3 DEF GiveUp
<1>5. Typed(c)' BY <1>2, <1>4, CallerTyped DEF GiveUp, queues, Typed, UpdateTypeOK
<1> QED BY <1>1, <1>2, <1>4, <1>5

(* What a call knows.                                                       *)

\* A stage or an update past its wait for the firmware.
Begun(k) == k.verb \in {"stage", "update"} /\ k.at \in {"drain", "send", "chunks", "recv"}

\* The operations in the order a call sends them, and those it may have sent.
UpTo(op) ==
  CASE op = "BEGIN" -> {"BEGIN"}
    [] op = "DATA" -> {"BEGIN", "DATA"}
    [] op = "END" -> {"BEGIN", "DATA", "END"}
    [] op = "ACTIVATE" -> {"BEGIN", "DATA", "END", "ACTIVATE"}
    [] op = "ABORT" -> {"BEGIN", "DATA", "END", "ACTIVATE", "ABORT"}
Sent(k) ==
  IF k.at = "chunks" THEN {"BEGIN", "DATA"}
  ELSE IF k.at = "recv" THEN UpTo(k.op) ELSE UpTo(k.op) \ {k.op}

\* Its BEGIN was taken.
Filled(k) == Begun(k) /\ (k.at = "chunks" \/ k.op \in {"DATA", "END"})
\* It waits for the reply to its last frame.
Waits(k) == Begun(k) /\ k.at = "recv" /\ k.op # "DATA"

Replied == ToSet(back) \cup ToSet(updates) \cup ToSet(held)

\* No query is on its way but those given up and the one that is awaited, which is behind all
\* that was ever sent: what answers it finds the wires empty.
Awaited(c) == call[c].at = "asked" /\ info[c] = "none"
FreshQuery(c) ==
  /\ call[c].at = "asked" => call[c].sent = spent.giveUps
  /\ \A j \in 1..Len(wire) : wire[j].op = "FIRMWARE" =>
       \/ wire[j].seq < spent.giveUps
       \/ wire[j].seq = spent.giveUps /\ Awaited(c) /\ j = Len(wire)
  /\ \A j \in 1..Len(back) : back[j].op = "FIRMWARE" =>
       \/ back[j].seq < spent.giveUps
       \/ /\ back[j].seq = spent.giveUps /\ Awaited(c) /\ j = Len(back)
          /\ wire = <<>> /\ (~back[j].pending => boot = "up")
  /\ call[c].at = "asked" /\ info[c] = "confirmed" => wire = <<>> /\ back = <<>> /\ boot = "up"

\* So are they when BEGIN is sent, to a box that is up.
Quiet(k) ==
  Begun(k) /\ k.op = "BEGIN" /\ k.at \in {"drain", "send"} =>
    wire = <<>> /\ back = <<>> /\ boot = "up"

\* A BEGIN finds the box up, whatever is on the wire with it.
BeginFirst ==
  \A j \in 1..Len(wire) : wire[j].op = "BEGIN" =>
    boot = "up" /\ \A i \in 1..Len(wire) : wire[i].op = "ACTIVATE" => j <= i

\* On the wires is only what this call sent, and what replies to it.
Own(k) ==
  Begun(k) =>
    /\ \A f \in ToSet(wire) : /\ f.op \in Sent(k) /\ f.target = k.target
                              /\ f.op = "BEGIN" => f.image = k.image
    /\ \A p \in ToSet(back) : p.op \in Sent(k)

Taken(k) ==
  Filled(k) => /\ \A f \in ToSet(wire) : f.op # "BEGIN"
               /\ session[k.target].image = k.image

\* Before its frame goes out no reply like the one it will wait for is left.
Drained(k) ==
  Begun(k) /\ k.at = "send" => \A p \in ToSet(updates) \cup ToSet(held) : p.op # k.op

\* The frame it waits for is the last, and there is no reply to it before it was served.
LastFrame(k) ==
  Waits(k) /\ wire # <<>> =>
    /\ \A j \in 1..Len(wire) : wire[j].op = k.op <=> j = Len(wire)
    /\ \A p \in Replied : p.op # k.op

\* A reply tells what the session is still like.
Telling(k) ==
  Waits(k) => \A p \in Replied : p.op = k.op =>
    /\ k.op = "BEGIN" /\ p.status = "READY" => session[k.target].image = k.image
    /\ k.op = "END" /\ p.status = "STAGED" => session[k.target].staged = k.image
    /\ k.op = "ABORT" /\ p.status = "OK" => session[k.target].staged = NoImage

\* Nothing is on the wire to change what a call that is over has reported.
Ended(c) ==
  call[c].at = "idle" =>
    /\ last[c].res = "ok" /\ last[c].verb = "stage" =>
         wire = <<>> /\ session[last[c].target].staged = last[c].image
    /\ last[c].res = "refused" => wire = <<>> /\ session[last[c].target].staged = NoImage

Phase(k) == Quiet(k) /\ Own(k) /\ Taken(k) /\ Drained(k) /\ LastFrame(k) /\ Telling(k)

UpdateInv(c) == Typed(c) /\ FreshQuery(c) /\ BeginFirst /\ Phase(call[c]) /\ Ended(c)

-----------------------------------------------------------------------------
LEMMA UpdateBase ==
  ASSUME NEW c, Callers = {c}, UpdateInit PROVE UpdateInv(c)
<1>1. Typed(c) BY TypedBase
<1>2. call[c].at = "idle" /\ wire = <<>> /\ back = <<>> /\ last[c].res = "none"
  BY NoCallIs DEF UpdateInit
<1>3. FreshQuery(c) /\ BeginFirst BY <1>2 DEF FreshQuery, BeginFirst
<1>4. ~Begun(call[c]) BY <1>2 DEF Begun
<1>5. Phase(call[c])
  BY <1>4 DEF Phase, Quiet, Own, Taken, Drained, LastFrame, Telling, Filled, Waits
<1>6. Ended(c) BY <1>2 DEF Ended
<1> QED BY <1>1, <1>3, <1>5, <1>6 DEF UpdateInv

LEMMA FreshRests ==
  ASSUME NEW c, Callers = {c}, Typed(c), FreshQuery(c), UNCHANGED <<wire, back, boot>>,
         call'[c].at # "asked",
         (~Awaited(c) /\ spent'.giveUps = spent.giveUps) \/ spent'.giveUps = spent.giveUps + 1
  PROVE  FreshQuery(c)'
<1>1. spent.giveUps \in Nat BY DEF Typed, UpdateTypeOK
<1>2. \A j \in 1..Len(wire) : wire[j].op = "FIRMWARE" => wire[j].seq < spent'.giveUps
  <2> SUFFICES ASSUME NEW j \in 1..Len(wire), wire[j].op = "FIRMWARE" PROVE wire[j].seq < spent'.giveUps
    OBVIOUS
  <2>1. wire[j] \in UpdateFrames BY DEF Typed, UpdateTypeOK
  <2>2. wire[j].seq \in Nat BY <2>1 DEF UpdateFrames
  <2>3. wire[j].seq < spent.giveUps \/ (wire[j].seq = spent.giveUps /\ Awaited(c)) BY DEF FreshQuery
  <2> QED BY <1>1, <2>2, <2>3
<1>3. \A j \in 1..Len(back) : back[j].op = "FIRMWARE" => back[j].seq < spent'.giveUps
  <2> SUFFICES ASSUME NEW j \in 1..Len(back), back[j].op = "FIRMWARE" PROVE back[j].seq < spent'.giveUps
    OBVIOUS
  <2>1. back[j] \in Replies \cup Answers BY DEF Typed, UpdateTypeOK
  <2>2. back[j].seq \in Nat BY <2>1 DEF Replies, Answers, Ops
  <2>3. back[j].seq < spent.giveUps \/ (back[j].seq = spent.giveUps /\ Awaited(c)) BY DEF FreshQuery
  <2> QED BY <1>1, <2>2, <2>3
<1> QED BY <1>2, <1>3 DEF FreshQuery

LEMMA NotBegun ==
  ASSUME NEW c, ~Begun(call'[c]) PROVE Phase(call[c])'
BY DEF Phase, Quiet, Own, Taken, Drained, LastFrame, Telling, Filled, Waits

\* A call that goes on, with all that it may have sent before.
LEMMA GoesOn ==
  ASSUME NEW c, Phase(call[c]), Begun(call[c]), Keeps(call[c], call'[c]),
         UNCHANGED <<session, boot, wire, back>>,
         \/ call'[c].at = "chunks"
         \/ call'[c].at = "drain" /\ call'[c].op # "BEGIN"
         \/ call'[c].at = "recv" /\ call'[c].op = "DATA",
         Sent(call[c]) \subseteq Sent(call'[c]),
         Filled(call'[c]) /\ ~Filled(call[c]) =>
           wire = <<>> /\ session[call[c].target].image = call[c].image
  PROVE  Phase(call[c])'
<1> DEFINE k == call[c]
           l == call'[c]
<1>1. Begun(l) BY DEF Begun, Keeps
<1>2. Quiet(k)' /\ Drained(k)' /\ LastFrame(k)' /\ Telling(k)'
  BY DEF Quiet, Drained, LastFrame, Telling, Waits
<1>3. Own(k)' BY DEF Phase, Own, Keeps
<1>4. Taken(k)'
  <2>1. CASE Filled(k) BY <2>1 DEF Phase, Taken, Keeps
  <2>2. CASE Filled(l) /\ ~Filled(k)
    <3>1. ToSet(wire') = {} BY <2>2 DEF ToSet
    <3> QED BY <2>2, <3>1 DEF Taken, Keeps
  <2>3. CASE ~Filled(l) BY <2>3 DEF Taken
  <2> QED BY <2>1, <2>2, <2>3
<1> QED BY <1>2, <1>3, <1>4 DEF Phase

LEMMA OverEnds ==
  ASSUME NEW c, NEW res, Over(c, res)
  PROVE  /\ call'[c].at = "idle" /\ ~Begun(call'[c])
         /\ last'[c].res = res /\ last'[c].verb = call[c].verb
         /\ last'[c].target = call[c].target /\ last'[c].image = call[c].image
BY NoCallIs DEF Over, Begun

\* An operation failed.
LEMMA StopsInv ==
  ASSUME NEW c, Callers = {c}, Typed(c), Phase(call[c]), Stops(c),
         call[c].at \in {"send", "chunks", "recv"}, UNCHANGED <<session, boot, wire, back>>
  PROVE  Phase(call[c])' /\ Ended(c)' /\ call'[c].at # "asked"
<1>1. CASE Over(c, "error") BY <1>1, OverEnds, NotBegun DEF Ended
<1>2. CASE Activating(c) /\ Onward(c, "drain", "ABORT")
  <2>1. Course(call[c]) /\ call[c].verb = "update" /\ call[c].op = "ACTIVATE"
        /\ call'[c].at = "drain" /\ call'[c].op = "ABORT" /\ Keeps(call[c], call'[c])
    BY <1>2 DEF Activating, Onward, Typed
  <2>2. call[c].at \in {"send", "recv"} BY <2>1 DEF Course
  <2>3. Begun(call[c]) /\ ~Filled(call'[c]) BY <2>1, <2>2 DEF Begun, Filled
  <2>4. Sent(call[c]) \subseteq Sent(call'[c]) BY <2>1, <2>2 DEF Sent, UpTo
  <2>5. Phase(call[c])' BY <2>1, <2>3, <2>4, GoesOn
  <2> QED BY <2>1, <2>5 DEF Ended
<1> QED BY <1>1, <1>2 DEF Stops

\* A reply to the operation in hand is heeded.
LEMMA HeedsInv ==
  ASSUME NEW c, Callers = {c}, Typed(c), Phase(call[c]), call[c].at = "recv",
         NEW p \in Replied, p.op = call[c].op, Heeds(c, p),
         UNCHANGED <<session, boot, wire, back>>
  PROVE  Phase(call[c])' /\ Ended(c)' /\ call'[c].at # "asked"
<1> DEFINE k == call[c]
<1>1. Course(k) /\ k \in UpdateCalls BY DEF Typed, UpdateTypeOK
<1>2. k.op \in {"BEGIN", "DATA", "END"} => Begun(k)
  BY <1>1 DEF Course, UpdateCalls, UpdateVerbs, Begun
<1>3. Begun(k) /\ k.op # "DATA" => Waits(k) BY DEF Waits
<1>4. Waits(k) => wire = <<>> BY DEF Phase, LastFrame
<1>5. CASE Stops(c) BY <1>5, StopsInv
<1>6. CASE p.op = "DATA" /\ (Onward(c, "drain", "END") \/ Onward(c, "chunks", "DATA"))
  <2>1. Sent(k) = {"BEGIN", "DATA"} /\ Filled(k) /\ Keeps(k, call'[c]) /\ Begun(k)
    BY <1>2, <1>6 DEF Sent, UpTo, Filled, Onward
  <2>2. \/ call'[c].at = "drain" /\ call'[c].op = "END"
        \/ call'[c].at = "chunks"
    BY <1>6 DEF Onward
  <2>3. Sent(k) \subseteq Sent(call'[c]) BY <2>1, <2>2 DEF Sent, UpTo
  <2>4. Phase(k)' BY <2>1, <2>2, <2>3, GoesOn
  <2> QED BY <2>2, <2>4 DEF Ended
<1>7. CASE p.op = "BEGIN" /\ p.status = "READY" /\ Onward(c, "chunks", "BEGIN")
  <2>1. Begun(k) /\ Waits(k) /\ wire = <<>> BY <1>2, <1>3, <1>4, <1>7
  <2>2. session[k.target].image = k.image BY <1>7, <2>1 DEF Phase, Telling
  <2>3. Keeps(k, call'[c]) /\ call'[c].at = "chunks" BY <1>7 DEF Onward
  <2>4. Sent(k) \subseteq Sent(call'[c]) BY <1>7, <2>3 DEF Sent, UpTo
  <2>5. Phase(k)' BY <2>1, <2>2, <2>3, <2>4, GoesOn
  <2> QED BY <2>3, <2>5 DEF Ended
<1>8. CASE p.op = "END" /\ p.status = "STAGED" /\ Onward(c, "drain", "ACTIVATE")
  <2>1. Begun(k) BY <1>2, <1>8
  <2>2. Keeps(k, call'[c]) /\ call'[c].at = "drain" /\ call'[c].op = "ACTIVATE" BY <1>8 DEF Onward
  <2>3. Sent(k) \subseteq Sent(call'[c]) BY <1>8, <2>2 DEF Sent, UpTo
  <2>4. ~Filled(call'[c]) BY <2>2 DEF Filled
  <2>5. Phase(k)' BY <2>1, <2>2, <2>3, <2>4, GoesOn
  <2> QED BY <2>2, <2>5 DEF Ended
<1>9. CASE p.op = "END" /\ p.status = "STAGED" /\ Over(c, "ok")
  <2>1. wire = <<>> /\ session[k.target].staged = k.image
    BY <1>2, <1>3, <1>4, <1>9 DEF Phase, Telling
  <2> QED BY <1>9, <2>1, OverEnds, NotBegun DEF Ended
<1>10. CASE p.op = "ABORT" /\ p.status = "OK" /\ k.verb = "update" /\ Over(c, "refused")
  <2>1. Waits(k) BY <1>10 DEF Waits, Begun
  <2>2. wire = <<>> /\ session[k.target].staged = NoImage
    BY <1>4, <1>10, <2>1 DEF Phase, Telling
  <2> QED BY <1>10, <2>2, OverEnds, NotBegun DEF Ended
<1>11. CASE p.op \in {"ABORT", "ACTIVATE"} /\ k.verb # "stage" /\ Over(c, "ok")
  BY <1>11, OverEnds, NotBegun DEF Ended
<1> QED BY <1>5, <1>6, <1>7, <1>8, <1>9, <1>10, <1>11 DEF Heeds

-----------------------------------------------------------------------------
(* The caller's steps.                                                      *)

LEMMA CallInv ==
  ASSUME NEW c, Callers = {c}, UpdateInv(c), Call(c)
  PROVE  UpdateInv(c)'
<1>1. Typed(c)' /\ last'[c].res = "none"
      /\ (call'[c].at = "confirm" \/ (call'[c].at = "drain" /\ call'[c].verb \in {"abort", "activate"}))
  BY CallDoes DEF UpdateInv
<1>2. UNCHANGED <<session, boot, wire, back>> /\ call[c].at = "idle" BY DEF Call, boxState, queues
<1>3. spent'.giveUps = spent.giveUps BY DEF Call, UpdateInv, Typed, UpdateTypeOK
<1>4. ~Begun(call'[c]) /\ call'[c].at # "idle" BY <1>1 DEF Begun
<1>5. Phase(call[c])' BY <1>4, NotBegun
<1>6. FreshQuery(c)' BY <1>1, <1>2, <1>3, FreshRests DEF UpdateInv, Awaited
<1>7. BeginFirst' BY <1>2 DEF UpdateInv, BeginFirst
<1> QED BY <1>1, <1>4, <1>5, <1>6, <1>7 DEF UpdateInv, Ended

LEMMA ToldInv ==
  ASSUME NEW c, Callers = {c}, UpdateInv(c), Told(c)
  PROVE  UpdateInv(c)'
<1>1. /\ Typed(c)'
      /\ \/ Onward(c, "confirm", call[c].op)
         \/ info[c] = "confirmed" /\ Onward(c, "drain", "BEGIN")
  BY ToldDoes DEF UpdateInv
<1>2. UNCHANGED <<session, boot, wire, back, spent>> /\ call[c].at = "asked" /\ info[c] # "none"
  BY DEF Told, boxState, queues
<1>3. call'[c].at \in {"confirm", "drain"} BY <1>1 DEF Onward
<1>4. FreshQuery(c)' BY <1>2, <1>3, FreshRests DEF UpdateInv, Awaited
<1>5. BeginFirst' BY <1>2 DEF UpdateInv, BeginFirst
<1>6. Phase(call[c])'
  <2>1. CASE Onward(c, "confirm", call[c].op)
    <3>1. ~Begun(call'[c]) BY <2>1 DEF Begun, Onward
    <3> QED BY <3>1, NotBegun
  <2>2. CASE info[c] = "confirmed" /\ Onward(c, "drain", "BEGIN")
    <3>1. wire' = <<>> /\ back' = <<>> /\ boot' = "up" BY <1>2, <2>2 DEF UpdateInv, FreshQuery
    <3>2. call'[c].at = "drain" /\ call'[c].op = "BEGIN" BY <2>2 DEF Onward
    <3>3. ToSet(wire') = {} /\ ToSet(back') = {} BY <3>1 DEF ToSet
    <3> QED BY <3>1, <3>2, <3>3 DEF Phase, Quiet, Own, Taken, Drained, LastFrame, Telling, Filled, Waits
  <2> QED BY <1>1, <2>1, <2>2
<1> QED BY <1>1, <1>3, <1>4, <1>5, <1>6 DEF UpdateInv, Ended

LEMMA UnansweredInv ==
  ASSUME NEW c, Callers = {c}, UpdateInv(c), Unanswered(c)
  PROVE  UpdateInv(c)'
<1>1. /\ Typed(c)' /\ spent'.giveUps = spent.giveUps + 1
      /\ Onward(c, "confirm", call[c].op) \/ Over(c, "error")
  BY UnansweredDoes DEF UpdateInv
<1>2. UNCHANGED <<session, boot, wire, back>> BY DEF Unanswered, boxState, queues
<1>3. ~Begun(call'[c]) /\ call'[c].at # "asked" /\ Ended(c)'
  <2>1. CASE Onward(c, "confirm", call[c].op) BY <2>1 DEF Onward, Begun, Ended
  <2>2. CASE Over(c, "error") BY <2>2, OverEnds DEF Ended
  <2> QED BY <1>1, <2>1, <2>2
<1>4. Phase(call[c])' BY <1>3, NotBegun
<1>5. FreshQuery(c)' BY <1>1, <1>2, <1>3, FreshRests DEF UpdateInv
<1>6. BeginFirst' BY <1>2 DEF UpdateInv, BeginFirst
<1> QED BY <1>1, <1>3, <1>4, <1>5, <1>6 DEF UpdateInv

LEMMA DrainInv ==
  ASSUME NEW c, Callers = {c}, UpdateInv(c), Drain(c)
  PROVE  UpdateInv(c)'
<1>1. /\ Typed(c)' /\ Onward(c, "send", call[c].op) /\ call[c].at = "drain"
      /\ updates' = <<>> /\ \A p \in ToSet(held') : p.op # call[c].op
  BY DrainDoes DEF UpdateInv
<1>2. UNCHANGED <<session, boot, wire, back, spent>> BY DEF Drain, boxState
<1>3. Keeps(call[c], call'[c]) /\ call'[c].at = "send" /\ call'[c].op = call[c].op BY <1>1 DEF Onward
<1>4. FreshQuery(c)' BY <1>1, <1>2, <1>3, FreshRests DEF UpdateInv, Awaited
<1>5. BeginFirst' BY <1>2 DEF UpdateInv, BeginFirst
<1>6. Phase(call[c])'
  <2>1. Quiet(call[c])' BY <1>1, <1>2, <1>3 DEF UpdateInv, Phase, Quiet, Begun, Keeps
  <2>2. Sent(call'[c]) = Sent(call[c]) BY <1>1, <1>3 DEF Sent
  <2>3. Own(call[c])' BY <1>1, <1>2, <1>3, <2>2 DEF UpdateInv, Phase, Own, Begun, Keeps
  <2>4. Taken(call[c])' BY <1>1, <1>2, <1>3 DEF UpdateInv, Phase, Taken, Filled, Begun, Keeps
  <2>5. ToSet(updates') = {} BY <1>1 DEF ToSet
  <2>6. Drained(call[c])' BY <1>1, <1>3, <2>5 DEF Drained
  <2>7. LastFrame(call[c])' /\ Telling(call[c])' BY <1>3 DEF LastFrame, Telling, Waits
  <2> QED BY <2>1, <2>3, <2>4, <2>6, <2>7 DEF Phase
<1> QED BY <1>1, <1>3, <1>4, <1>5, <1>6 DEF UpdateInv, Ended

LEMMA WindowFullInv ==
  ASSUME NEW c, Callers = {c}, UpdateInv(c), WindowFull(c)
  PROVE  UpdateInv(c)'
<1>1. Typed(c)' /\ Onward(c, "recv", "DATA") /\ call[c].at = "chunks" BY WindowFullDoes DEF UpdateInv
<1>2. UNCHANGED <<session, boot, wire, back, spent>> BY DEF WindowFull, boxState, queues
<1>3. Keeps(call[c], call'[c]) /\ call'[c].at = "recv" /\ call'[c].op = "DATA" BY <1>1 DEF Onward
<1>4. Begun(call[c]) /\ Filled(call[c]) BY <1>1 DEF UpdateInv, Typed, Course, Begun, Filled
<1>5. Sent(call[c]) \subseteq Sent(call'[c]) BY <1>1, <1>3 DEF Sent, UpTo
<1>6. Phase(call[c])' BY <1>2, <1>3, <1>4, <1>5, GoesOn DEF UpdateInv
<1>7. FreshQuery(c)' BY <1>1, <1>2, <1>3, FreshRests DEF UpdateInv, Awaited
<1>8. BeginFirst' BY <1>2 DEF UpdateInv, BeginFirst
<1> QED BY <1>1, <1>3, <1>6, <1>7, <1>8 DEF UpdateInv, Ended

LEMMA TakeInv ==
  ASSUME NEW c, Callers = {c}, UpdateInv(c), TakeHeld(c) \/ TakeUpdate(c) \/ GiveUp(c)
  PROVE  UpdateInv(c)'
<1>1. UNCHANGED <<session, boot, wire, back>> BY DEF TakeHeld, TakeUpdate, GiveUp, boxState, queues
<1>2. BeginFirst' BY <1>1 DEF UpdateInv, BeginFirst
<1>3. /\ Typed(c)' /\ Phase(call[c])' /\ Ended(c)'
      /\ call[c].at # "asked" /\ call'[c].at # "asked"
      /\ spent'.giveUps \in {spent.giveUps, spent.giveUps + 1}
  <2>1. CASE TakeHeld(c)
    <3>1. Typed(c)' /\ call[c].at = "recv" /\ \E p \in ToSet(held) : p.op = call[c].op /\ Heeds(c, p)
      BY <2>1, TakeHeldDoes DEF UpdateInv
    <3>2. \E p \in Replied : p.op = call[c].op /\ Heeds(c, p) BY <3>1 DEF Replied
    <3> QED BY <1>1, <2>1, <3>1, <3>2, HeedsInv DEF UpdateInv, TakeHeld
  <2>2. CASE TakeUpdate(c)
    <3>1. /\ Typed(c)' /\ call[c].at = "recv"
          /\ \/ \E p \in ToSet(updates) : p.op = call[c].op /\ Heeds(c, p)
             \/ /\ UNCHANGED <<call, last>>
                /\ ToSet(updates') \cup ToSet(held') \subseteq ToSet(updates) \cup ToSet(held)
      BY <2>2, TakeUpdateDoes DEF UpdateInv
    <3>2. CASE \E p \in ToSet(updates) : p.op = call[c].op /\ Heeds(c, p)
      <4>1. \E p \in Replied : p.op = call[c].op /\ Heeds(c, p) BY <3>2 DEF Replied
      <4> QED BY <1>1, <2>2, <3>1, <4>1, HeedsInv DEF UpdateInv, TakeUpdate
    <3>3. CASE /\ UNCHANGED <<call, last>>
               /\ ToSet(updates') \cup ToSet(held') \subseteq ToSet(updates) \cup ToSet(held)
      <4>1. Replied' \subseteq Replied BY <1>1, <3>3 DEF Replied
      <4>2. Quiet(call[c])' /\ Own(call[c])' /\ Taken(call[c])' /\ Drained(call[c])'
        BY <1>1, <3>1, <3>3 DEF UpdateInv, Phase, Quiet, Own, Taken, Drained
      <4>3. LastFrame(call[c])' /\ Telling(call[c])'
        BY <1>1, <3>3, <4>1 DEF UpdateInv, Phase, LastFrame, Telling
      <4>4. Ended(c)' BY <3>1, <3>3 DEF Ended
      <4> QED BY <2>2, <3>1, <3>3, <4>2, <4>3, <4>4 DEF Phase, TakeUpdate
    <3> QED BY <3>1, <3>2, <3>3
  <2>3. CASE GiveUp(c)
    <3>1. Typed(c)' /\ call[c].at \in {"send", "chunks", "recv"} /\ Stops(c)
          /\ spent'.giveUps = spent.giveUps + 1
      BY <2>3, GiveUpDoes DEF UpdateInv
    <3> QED BY <1>1, <3>1, StopsInv DEF UpdateInv
  <2> QED BY <2>1, <2>2, <2>3
<1>4. FreshQuery(c)' BY <1>1, <1>3, FreshRests DEF UpdateInv, Awaited
<1> QED BY <1>2, <1>3, <1>4 DEF UpdateInv

LEMMA AskInv ==
  ASSUME NEW c, Callers = {c}, UpdateInv(c), Ask(c)
  PROVE  UpdateInv(c)'
<1> DEFINE f == [op |-> "FIRMWARE", by |-> c, seq |-> spent.giveUps]
<1>1. /\ Typed(c)' /\ call'[c].at = "asked" /\ call'[c].sent = spent.giveUps
      /\ info'[c] = "none" /\ wire' = Append(wire, f)
  BY AskDoes DEF UpdateInv, Onward
<1>2. UNCHANGED <<session, boot, back, spent>> /\ call[c].at = "confirm" BY DEF Ask, boxState
<1>3. wire \in Seq(UpdateFrames) /\ spent.giveUps \in Nat BY DEF UpdateInv, Typed, UpdateTypeOK
<1>4. f \in UpdateFrames /\ f.op = "FIRMWARE" /\ f.seq = spent.giveUps BY <1>3 DEF UpdateFrames
<1> HIDE DEF f
<1>5. /\ Len(wire') = Len(wire) + 1 /\ wire'[Len(wire) + 1] = f /\ Len(wire) \in Nat
      /\ \A j \in 1..Len(wire) : wire'[j] = wire[j]
  BY ONLY <1>1, <1>3, <1>4, AppendSet, ToSetIn
<1>6. \A j \in 1..Len(wire') : j \in 1..Len(wire) \/ j = Len(wire') BY ONLY <1>5
<1>7. FreshQuery(c)'
  <2>1. \A j \in 1..Len(wire) : wire[j].op = "FIRMWARE" => wire[j].seq < spent.giveUps
    BY <1>2 DEF UpdateInv, FreshQuery, Awaited
  <2>2. \A j \in 1..Len(back) : back[j].op = "FIRMWARE" => back[j].seq < spent.giveUps
    BY <1>2 DEF UpdateInv, FreshQuery, Awaited
  <2>3. Awaited(c)' BY <1>1 DEF Awaited
  <2> QED BY <1>1, <1>2, <1>4, <1>5, <1>6, <2>1, <2>2, <2>3 DEF FreshQuery
<1>8. BeginFirst'
  <2>1. \A j \in 1..Len(wire') : wire'[j].op \in {"BEGIN", "ACTIVATE"} =>
          j \in 1..Len(wire) /\ wire'[j] = wire[j]
    BY <1>4, <1>5, <1>6
  <2> QED BY <1>2, <2>1 DEF UpdateInv, BeginFirst
<1>9. Phase(call[c])'
  <2>1. ~Begun(call'[c]) BY <1>1 DEF Begun
  <2> QED BY <2>1, NotBegun
<1> QED BY <1>1, <1>7, <1>8, <1>9 DEF UpdateInv, Ended

\* A frame that is no query, sent by a call that awaits none.
LEMMA FreshSends ==
  ASSUME NEW c, Callers = {c}, Typed(c), FreshQuery(c), UNCHANGED <<back, boot, spent>>,
         NEW f \in UpdateFrames, wire' = Append(wire, f), f.op # "FIRMWARE",
         call[c].at # "asked", call'[c].at # "asked"
  PROVE  FreshQuery(c)'
<1>1. wire \in Seq(UpdateFrames) BY DEF Typed, UpdateTypeOK
<1>2. /\ Len(wire') = Len(wire) + 1 /\ wire'[Len(wire) + 1] = f /\ Len(wire) \in Nat
      /\ \A j \in 1..Len(wire) : wire'[j] = wire[j]
  BY <1>1, AppendSet, ToSetIn
<1>3. \A j \in 1..Len(wire') : wire'[j].op = "FIRMWARE" => j \in 1..Len(wire) /\ wire'[j] = wire[j]
  BY <1>2
<1>4. \A j \in 1..Len(wire) : wire[j].op = "FIRMWARE" => wire[j].seq < spent.giveUps
  BY DEF FreshQuery, Awaited
<1>5. \A j \in 1..Len(back) : back[j].op = "FIRMWARE" => back[j].seq < spent.giveUps
  BY DEF FreshQuery, Awaited
<1> QED BY <1>3, <1>4, <1>5 DEF FreshQuery

\* A BEGIN is sent only on a wire that is empty, to a box that is up.
LEMMA FirstSends ==
  ASSUME NEW c, Typed(c), BeginFirst, UNCHANGED boot,
         NEW f \in UpdateFrames, wire' = Append(wire, f), f.op = "BEGIN" => wire = <<>> /\ boot = "up"
  PROVE  BeginFirst'
<1>1. wire \in Seq(UpdateFrames) BY DEF Typed, UpdateTypeOK
<1>2. /\ Len(wire') = Len(wire) + 1 /\ wire'[Len(wire) + 1] = f /\ Len(wire) \in Nat
      /\ \A j \in 1..Len(wire) : wire'[j] = wire[j]
  BY <1>1, AppendSet, ToSetIn
<1>3. CASE f.op = "BEGIN"
  <2>1. Len(wire') = 1 BY <1>2, <1>3
  <2> QED BY <1>3, <2>1 DEF BeginFirst
<1>4. CASE f.op # "BEGIN"
  <2>1. \A j \in 1..Len(wire') : \/ j \in 1..Len(wire) /\ wire'[j] = wire[j]
                                 \/ j = Len(wire) + 1 /\ wire'[j] = f
    BY <1>2
  <2>2. \A j \in 1..Len(wire) : j <= Len(wire) + 1 BY <1>2
  <2> QED BY <1>4, <2>1, <2>2 DEF BeginFirst
<1> QED BY <1>3, <1>4

LEMMA SendChunkInv ==
  ASSUME NEW c, Callers = {c}, UpdateInv(c), SendChunk(c)
  PROVE  UpdateInv(c)'
<1> DEFINE k == call[c]
<1>1. Typed(c)' /\ Onward(c, "chunks", k.op) /\ k.at = "chunks" BY SendChunkDoes DEF UpdateInv
<1>2. PICK f \in UpdateFrames : wire' = Append(wire, f) /\ f.op = "DATA" /\ f.target = k.target
  BY SendChunkDoes DEF UpdateInv
<1>3. UNCHANGED <<session, boot, back, spent>> BY DEF SendChunk, boxState
<1>4. Keeps(k, call'[c]) /\ call'[c].at = "chunks" BY <1>1 DEF Onward
<1>5. Begun(k) /\ Filled(k) BY <1>1 DEF UpdateInv, Typed, Course, Begun, Filled
<1>6. FreshQuery(c)' BY <1>1, <1>2, <1>3, <1>4, FreshSends DEF UpdateInv
<1>7. BeginFirst' BY <1>2, <1>3, FirstSends DEF UpdateInv
<1>8. wire \in Seq(UpdateFrames) BY DEF UpdateInv, Typed, UpdateTypeOK
<1>9. ToSet(wire') = ToSet(wire) \cup {f} BY <1>2, <1>8, AppendSet
<1>10. Own(k)'
  <2>1. Sent(k) = {"BEGIN", "DATA"} /\ Sent(call'[c]) = {"BEGIN", "DATA"} BY <1>1, <1>4 DEF Sent
  <2>2. \A g \in ToSet(wire) : /\ g.op \in Sent(k) /\ g.target = k.target
                               /\ g.op = "BEGIN" => g.image = k.image
    BY <1>5 DEF UpdateInv, Phase, Own
  <2>3. \A p \in ToSet(back) : p.op \in Sent(k) BY <1>5 DEF UpdateInv, Phase, Own
  <2> HIDE DEF k
  <2> QED BY <1>2, <1>3, <1>4, <1>9, <2>1, <2>2, <2>3 DEF Own, Keeps, k
<1>11. Taken(k)' BY <1>2, <1>3, <1>4, <1>5, <1>9 DEF UpdateInv, Phase, Taken, Keeps
<1>12. Quiet(k)' /\ Drained(k)' /\ LastFrame(k)' /\ Telling(k)'
  BY <1>4 DEF Quiet, Drained, LastFrame, Telling, Waits
<1>13. Phase(call[c])' BY <1>10, <1>11, <1>12 DEF Phase
<1> QED BY <1>1, <1>4, <1>6, <1>7, <1>13 DEF UpdateInv, Ended

LEMMA SendInv ==
  ASSUME NEW c, Callers = {c}, UpdateInv(c), Send(c)
  PROVE  UpdateInv(c)'
<1> DEFINE k == call[c]
<1>1. Typed(c)' /\ Onward(c, "recv", k.op) /\ k.at = "send" /\ k.op # "DATA" BY SendDoes DEF UpdateInv
<1>2. PICK f \in UpdateFrames : /\ wire' = Append(wire, f) /\ f.op = k.op /\ f.target = k.target
                                /\ f.op = "BEGIN" => f.image = k.image
  BY SendDoes DEF UpdateInv
<1>3. UNCHANGED <<session, boot, back, updates, held, spent>> BY DEF Send, boxState
<1>4. Keeps(k, call'[c]) /\ call'[c].at = "recv" /\ call'[c].op = k.op BY <1>1 DEF Onward
<1>5. k.op \in Ops /\ Course(k) /\ wire \in Seq(UpdateFrames) BY DEF UpdateInv, Typed, UpdateTypeOK, UpdateCalls
<1>6. f.op # "FIRMWARE" BY <1>2, <1>5 DEF Ops
<1>7. FreshQuery(c)' BY <1>1, <1>2, <1>3, <1>4, <1>6, FreshSends DEF UpdateInv
<1>8. BeginFirst'
  <2>1. k.op = "BEGIN" => Begun(k) BY <1>1, <1>5 DEF Course, Begun, UpdateInv, Typed, UpdateTypeOK, UpdateCalls, UpdateVerbs
  <2>2. f.op = "BEGIN" => wire = <<>> /\ boot = "up" BY <1>1, <1>2, <2>1 DEF UpdateInv, Phase, Quiet
  <2> QED BY <1>2, <1>3, <2>2, FirstSends DEF UpdateInv
<1>9. Phase(k)'
  <2>1. CASE ~Begun(call'[c]) BY <2>1, NotBegun
  <2>2. CASE Begun(call'[c])
    <3>1. Begun(k) BY <1>1, <1>4, <2>2 DEF Begun, Keeps
    <3>2. ToSet(wire') = ToSet(wire) \cup {f} BY <1>2, <1>5, AppendSet
    <3>3. Sent(k) = UpTo(k.op) \ {k.op} /\ Sent(call'[c]) = UpTo(k.op) BY <1>1, <1>4 DEF Sent
    <3>4. k.op \in UpTo(k.op) BY <1>5 DEF UpTo, Ops
    <3>5. \A g \in ToSet(wire) : /\ g.op \in Sent(k) /\ g.target = k.target
                                 /\ g.op = "BEGIN" => g.image = k.image
      BY <3>1 DEF UpdateInv, Phase, Own
    <3>6. \A p \in ToSet(back) : p.op \in Sent(k) BY <3>1 DEF UpdateInv, Phase, Own
    <3>7. \A p \in Replied : p.op # k.op
      <4>1. \A p \in ToSet(updates) \cup ToSet(held) : p.op # k.op
        BY <1>1, <3>1 DEF UpdateInv, Phase, Drained
      <4> QED BY <3>3, <3>6, <4>1 DEF Replied
    <3>8. /\ Len(wire') = Len(wire) + 1 /\ wire'[Len(wire) + 1] = f /\ Len(wire) \in Nat
          /\ \A j \in 1..Len(wire) : wire'[j] = wire[j] /\ wire[j] \in ToSet(wire)
      BY <1>2, <1>5, AppendSet, ToSetIn
    <3>9. \A j \in 1..Len(wire') : \/ j \in 1..Len(wire) /\ j # Len(wire')
                                   \/ j = Len(wire')
      BY ONLY <3>8
    <3>10. \A j \in 1..Len(wire') : wire'[j].op = k.op <=> j = Len(wire')
      <4>1. \A j \in 1..Len(wire) : wire'[j].op # k.op BY <3>3, <3>5, <3>8
      <4> HIDE DEF k
      <4> QED BY <1>2, <3>8, <3>9, <4>1
    <3>11. Replied' = Replied BY <1>3 DEF Replied
    <3> HIDE DEF k
    <3>12. Quiet(call[c])' /\ Drained(call[c])' BY <1>4 DEF Quiet, Drained
    <3>13. Own(call[c])'
      BY <1>2, <1>3, <1>4, <3>2, <3>3, <3>4, <3>5, <3>6 DEF Own, Keeps
    <3>14. LastFrame(call[c])' BY <1>4, <3>7, <3>10, <3>11 DEF LastFrame
    <3>15. Telling(call[c])' BY <1>4, <3>7, <3>11 DEF Telling
    <3>16. Taken(call[c])'
      <4>1. Filled(call'[c]) => Filled(k) /\ k.op = "END" BY <1>1, <1>4, <3>1 DEF Filled, Keeps
      <4>2. Filled(k) => /\ \A g \in ToSet(wire) : g.op # "BEGIN"
                         /\ session[k.target].image = k.image
        BY DEF UpdateInv, Phase, Taken, k
      <4> QED BY <1>2, <1>3, <1>4, <3>2, <4>1, <4>2 DEF Taken, Keeps
    <3> QED BY <3>12, <3>13, <3>14, <3>15, <3>16 DEF Phase, k
  <2> QED BY <2>1, <2>2
<1> QED BY <1>1, <1>4, <1>7, <1>8, <1>9 DEF UpdateInv, Ended

\* What a reply that the box adds, on serving f, says.
Adds(f, p) ==
  /\ p.op = f.op
  /\ f.op = "FIRMWARE" => p.seq = f.seq /\ (~p.pending => boot = "up")
  /\ f.op = "BEGIN" /\ p.status = "READY" => session'[f.target].image = f.image
  /\ f.op = "END" /\ p.status = "STAGED" => session'[f.target].staged = session[f.target].image
  /\ f.op = "ABORT" => session'[f.target].staged = NoImage

LEMMA ServeAdds ==
  ASSUME NEW c, Callers = {c}, Typed(c), update_op
  PROVE  /\ \A j \in 1..Len(back') :
              \/ j \in 1..Len(back) /\ back'[j] = back[j]
              \/ Adds(wire[1], back'[j]) /\ (wire[1].op = "FIRMWARE" => j = Len(back'))
         /\ wire[1].op = "ACTIVATE" \/ UNCHANGED boot
         /\ wire[1].op \in {"DATA", "END"} =>
              \A t \in Targets : session'[t].image = session[t].image
<1> DEFINE f == wire[1]
<1>1. f \in UpdateFrames /\ Serves(f) BY ServeDoes
<1>2. back \in BackWith /\ Len(back) \in Nat /\ boot \in {"up", "down", "probation"}
  BY DEF Typed, UpdateTypeOK, BackWith
<1>3. ASSUME NEW p \in Replies \cup Answers, back' = Append(back, p)
      PROVE  \A j \in 1..Len(back') : \/ j \in 1..Len(back) /\ back'[j] = back[j]
                                      \/ j = Len(back') /\ back'[j] = p
  <2>1. /\ Len(back') = Len(back) + 1 /\ back'[Len(back) + 1] = p
        /\ \A j \in 1..Len(back) : back'[j] = back[j]
    BY ONLY <1>2, <1>3, AppendSet DEF BackWith
  <2> QED BY ONLY <1>2, <2>1
<1>4. CASE f.op = "FIRMWARE"
  <2>1. UNCHANGED boot
        /\ \/ UNCHANGED back
           \/ \E p \in Answers :
                /\ back' = Append(back, p) /\ p.seq = f.seq /\ boot # "down"
                /\ ~p.pending => boot # "probation"
    BY <1>1, <1>4 DEF Serves, Ops, boxState
  <2>2. CASE UNCHANGED back BY <1>4, <2>1, <2>2
  <2>3. ASSUME NEW p \in Answers, back' = Append(back, p), p.seq = f.seq, boot # "down",
               ~p.pending => boot # "probation"
        PROVE  Adds(f, p)
    BY <1>2, <1>4, <2>3 DEF Adds, Answers
  <2> HIDE DEF f
  <2>4. CASE \E p \in Answers :
               /\ back' = Append(back, p) /\ p.seq = f.seq /\ boot # "down"
               /\ ~p.pending => boot # "probation"
    BY <1>3, <1>4, <2>1, <2>3, <2>4 DEF f
  <2> QED BY <2>1, <2>2, <2>4
<1>5. CASE f.op = "ACTIVATE"
  <2>1. \E p \in Replies : back' = Append(back, p) /\ p.op = "ACTIVATE"
    BY <1>1, <1>5 DEF Serves, Ops
  <2>2. \A p : p.op = "ACTIVATE" => Adds(f, p) BY <1>5 DEF Adds
  <2> QED BY <1>3, <1>5, <2>1, <2>2
<1>6. CASE f.op \in Ops \ {"ACTIVATE"}
  <2>1. UNCHANGED boot /\ f.target \in Targets BY <1>1, <1>6 DEF Serves, Ops
  <2>2. PICK r, ps : /\ Does(session[f.target], f, r, ps)
                     /\ session' = [session EXCEPT ![f.target] = r] /\ back' = back \o ps
    BY <1>1, <1>6 DEF Serves, Ops
  <2>3. session'[f.target] = r /\ \A t \in Targets \ {f.target} : session'[t] = session[t]
    BY <2>1, <2>2 DEF Typed, UpdateTypeOK
  <2>4. f.op # "FIRMWARE" BY <1>6 DEF Ops
  <2>5. \A p \in ToSet(ps) : Adds(f, p) BY <2>2, <2>3, <2>4 DEF Does, Adds
  <2>6. ps \in BackWith BY <2>2, SeqMonotonic DEF Does, BackWith
  <2>7. \A j \in 1..Len(back') : \/ j \in 1..Len(back) /\ back'[j] = back[j]
                                 \/ back'[j] \in ToSet(ps)
    BY ONLY <1>2, <2>2, <2>6, ConcatSet DEF BackWith
  <2>8. f.op \in {"DATA", "END"} => \A t \in Targets : session'[t].image = session[t].image
    BY <2>2, <2>3 DEF Does
  <2> QED BY <2>1, <2>4, <2>5, <2>7, <2>8
<1>7. f.op \in Ops \cup {"FIRMWARE"} BY <1>1 DEF UpdateFrames, Ops
<1> QED BY <1>4, <1>5, <1>6, <1>7

LEMMA ServeInv ==
  ASSUME NEW c, Callers = {c}, UpdateInv(c), update_op
  PROVE  UpdateInv(c)'
<1> DEFINE k == call[c]
           f == wire[1]
<1>1. Typed(c)' BY ServedTyped DEF UpdateInv
<1>2. wire # <<>> /\ f \in UpdateFrames /\ wire' = Tail(wire) /\ Serves(f) BY ServeDoes DEF UpdateInv
<1>3. UNCHANGED <<updates, held, call, info, last, spent>> BY DEF update_op
<1>4. wire \in Seq(UpdateFrames) /\ k \in UpdateCalls /\ Course(k) /\ back' \in Seq(Replies \cup Answers)
      /\ session \in [Targets -> Sessions]
  BY <1>1 DEF UpdateInv, Typed, UpdateTypeOK
<1>5. /\ f \in ToSet(wire) /\ Len(wire) \in Nat \ {0} /\ Len(wire') = Len(wire) - 1
      /\ \A i \in 1..Len(wire') : wire'[i] = wire[i + 1] /\ i + 1 \in 1..Len(wire)
      /\ ToSet(wire') \subseteq ToSet(wire)
  BY <1>2, <1>4, TailSet
<1>6. /\ \A j \in 1..Len(back') :
           \/ j \in 1..Len(back) /\ back'[j] = back[j]
           \/ Adds(f, back'[j]) /\ (f.op = "FIRMWARE" => j = Len(back'))
      /\ f.op = "ACTIVATE" \/ UNCHANGED boot
      /\ f.op \in {"DATA", "END"} => \A t \in Targets : session'[t].image = session[t].image
  BY ServeAdds DEF UpdateInv
<1>7. \A p \in ToSet(back') : p \in ToSet(back) \/ Adds(f, p)
  <2>1. back \in Seq(Replies \cup Answers) BY DEF UpdateInv, Typed, UpdateTypeOK
  <2>2. DOMAIN back' = 1..Len(back') /\ DOMAIN back = 1..Len(back) BY <1>4, <2>1
  <2> HIDE DEF f
  <2> QED BY ONLY <1>6, <2>2 DEF ToSet
<1>8. \A p \in Replied' : p \in Replied \/ Adds(f, p) BY <1>3, <1>7 DEF Replied
<1>9. FreshQuery(c)'
  <2>1. \A j \in 1..Len(back) : back[j].op = "FIRMWARE" => back[j].seq < spent.giveUps
    BY <1>2 DEF UpdateInv, FreshQuery
  <2>2. \A j \in 1..Len(wire) : wire[j].op = "FIRMWARE" =>
          \/ wire[j].seq < spent.giveUps
          \/ wire[j].seq = spent.giveUps /\ Awaited(c) /\ j = Len(wire)
    BY DEF UpdateInv, FreshQuery
  <2>3. Awaited(c)' <=> Awaited(c) BY <1>3 DEF Awaited
  <2>4. ASSUME NEW j \in 1..Len(back'), back'[j].op = "FIRMWARE"
        PROVE  \/ back'[j].seq < spent'.giveUps
               \/ /\ back'[j].seq = spent'.giveUps /\ Awaited(c)' /\ j = Len(back')
                  /\ wire' = <<>> /\ (~back'[j].pending => boot' = "up")
    <3>1. CASE j \in 1..Len(back) /\ back'[j] = back[j] BY <1>3, <2>1, <2>4, <3>1
    <3>2. CASE Adds(f, back'[j]) /\ (f.op = "FIRMWARE" => j = Len(back'))
      <4>1. f.op = "FIRMWARE" /\ j = Len(back') /\ back'[j].seq = f.seq
            /\ (~back'[j].pending => boot = "up") /\ UNCHANGED boot
        BY <1>6, <2>4, <3>2 DEF Adds
      <4>2. 1 \in 1..Len(wire) BY <1>5
      <4>3. CASE f.seq < spent.giveUps BY <1>3, <4>1, <4>3
      <4>4. CASE f.seq = spent.giveUps /\ Awaited(c) /\ 1 = Len(wire)
        <5>1. Len(wire') = Len(wire) - 1 BY <1>5
        <5>2. Len(wire') = 0 BY ONLY <4>4, <5>1
        <5>3. wire' = <<>> BY <1>2, <1>4, <5>2, TailSet
        <5> QED BY <1>3, <2>3, <4>1, <4>4, <5>3
      <4> QED BY <2>2, <4>1, <4>2, <4>3, <4>4
    <3> QED BY <1>6, <3>1, <3>2
  <2>5. ASSUME NEW j \in 1..Len(wire'), wire'[j].op = "FIRMWARE"
        PROVE  \/ wire'[j].seq < spent'.giveUps
               \/ wire'[j].seq = spent'.giveUps /\ Awaited(c)' /\ j = Len(wire')
    <3>1. wire'[j] = wire[j + 1] /\ j + 1 \in 1..Len(wire) BY <1>5
    <3>2. j + 1 = Len(wire) => j = Len(wire') BY <1>5
    <3> QED BY <1>3, <2>2, <2>3, <2>5, <3>1, <3>2
  <2>6. call[c].at = "asked" => call[c].sent = spent.giveUps /\ info[c] # "confirmed"
    BY <1>2 DEF UpdateInv, FreshQuery
  <2> HIDE DEF f
  <2> QED BY <1>3, <2>4, <2>5, <2>6 DEF FreshQuery
<1>10. BeginFirst'
  <2> SUFFICES ASSUME NEW j \in 1..Len(wire'), wire'[j].op = "BEGIN"
               PROVE  boot' = "up" /\ \A i \in 1..Len(wire') : wire'[i].op = "ACTIVATE" => j <= i
    BY DEF BeginFirst
  <2>1. wire'[j] = wire[j + 1] /\ j + 1 \in 1..Len(wire) /\ j \in Nat \ {0} BY <1>5
  <2>2. boot = "up" /\ \A i \in 1..Len(wire) : wire[i].op = "ACTIVATE" => j + 1 <= i
    BY <2>1 DEF UpdateInv, BeginFirst
  <2>3. f.op # "ACTIVATE"
    <3>1. 1 \in 1..Len(wire) /\ ~(j + 1 <= 1) BY <1>5, <2>1
    <3> QED BY <2>2, <3>1
  <2>4. boot' = "up" BY <1>6, <2>2, <2>3
  <2>5. ASSUME NEW i \in 1..Len(wire'), wire'[i].op = "ACTIVATE" PROVE j <= i
    <3>1. wire'[i] = wire[i + 1] /\ i + 1 \in 1..Len(wire) /\ i \in Nat BY <1>5
    <3>2. j + 1 <= i + 1 BY <2>2, <2>5, <3>1
    <3> QED BY <2>1, <3>1, <3>2
  <2> QED BY <2>4, <2>5
<1>11. Ended(c)' BY <1>2, <1>3 DEF UpdateInv, Ended
<1>12. Phase(k)'
  <2>1. CASE ~Begun(call'[c]) BY <2>1, NotBegun
  <2>2. CASE Begun(k)
    <3>1. \A g \in ToSet(wire) : /\ g.op \in Sent(k) /\ g.target = k.target
                                 /\ g.op = "BEGIN" => g.image = k.image
      BY <2>2 DEF UpdateInv, Phase, Own
    <3>2. \A p \in ToSet(back) : p.op \in Sent(k) BY <2>2 DEF UpdateInv, Phase, Own
    <3>3. Sent(k) \subseteq Ops /\ (Filled(k) => Sent(k) \subseteq {"BEGIN", "DATA", "END"})
      <4>1. k.op \in Ops BY <1>4 DEF UpdateCalls
      <4> QED BY <1>4, <2>2, <4>1 DEF Sent, UpTo, Ops, Filled, Begun, Course
    <3>4. f.op \in Ops /\ f.op \in Sent(k) /\ f.target = k.target /\ (f.op = "BEGIN" => f.image = k.image)
      BY <1>5, <3>1, <3>3
    <3>5. k.target \in Targets BY <1>4 DEF UpdateCalls
    <3>6. Quiet(k)' BY <1>2, <1>3 DEF UpdateInv, Phase, Quiet
    <3>7. Own(k)'
      <4>1. \A p \in ToSet(back') : p.op \in Sent(k) BY <1>7, <3>2, <3>4 DEF Adds
      <4> HIDE DEF k, f
      <4> QED BY <1>3, <1>5, <3>1, <4>1 DEF Own, k
    <3>8. Taken(k)'
      <4> SUFFICES ASSUME Filled(k)
                   PROVE  /\ \A g \in ToSet(wire') : g.op # "BEGIN"
                          /\ session'[k.target].image = k.image
        BY <1>3 DEF Taken
      <4>1. /\ \A g \in ToSet(wire) : g.op # "BEGIN"
            /\ session[k.target].image = k.image
        BY DEF UpdateInv, Phase, Taken
      <4>2. f.op \in {"DATA", "END"} BY <1>5, <3>3, <3>4, <4>1
      <4> QED BY <1>5, <1>6, <3>5, <4>1, <4>2
    <3>9. Drained(k)' BY <1>3 DEF UpdateInv, Phase, Drained
    <3>10. LastFrame(k)'
      <4> SUFFICES ASSUME Waits(k), wire' # <<>>
                   PROVE  /\ \A j \in 1..Len(wire') : wire'[j].op = k.op <=> j = Len(wire')
                          /\ \A p \in Replied' : p.op # k.op
        BY <1>3 DEF LastFrame
      <4>1. /\ \A j \in 1..Len(wire) : wire[j].op = k.op <=> j = Len(wire)
            /\ \A p \in Replied : p.op # k.op
        BY <1>2 DEF UpdateInv, Phase, LastFrame
      <4>2. Len(wire') # 0 BY <1>2, <1>4, TailSet
      <4>3. 1 \in 1..Len(wire) /\ 1 # Len(wire) BY <1>5, <4>2
      <4>4. f.op # k.op BY <4>1, <4>3
      <4>5. \A p \in Replied' : p.op # k.op BY <1>8, <4>1, <4>4 DEF Adds
      <4>6. ASSUME NEW j \in 1..Len(wire') PROVE wire'[j].op = k.op <=> j = Len(wire')
        <5>1. wire'[j] = wire[j + 1] /\ j + 1 \in 1..Len(wire) BY <1>5
        <5>2. j + 1 = Len(wire) <=> j = Len(wire') BY <1>5
        <5> QED BY <4>1, <5>1, <5>2
      <4> QED BY <4>5, <4>6
    <3>11. Telling(k)'
      <4> SUFFICES ASSUME Waits(k), NEW p \in Replied', p.op = k.op
                   PROVE  /\ k.op = "BEGIN" /\ p.status = "READY" => session'[k.target].image = k.image
                          /\ k.op = "END" /\ p.status = "STAGED" => session'[k.target].staged = k.image
                          /\ k.op = "ABORT" /\ p.status = "OK" => session'[k.target].staged = NoImage
        BY <1>3 DEF Telling
      <4>1. p \notin Replied BY <1>2 DEF UpdateInv, Phase, LastFrame
      <4>2. Adds(f, p) BY <1>8, <4>1
      <4>3. k.op = "END" => session[k.target].image = k.image
        BY <2>2 DEF UpdateInv, Phase, Taken, Filled
      <4> HIDE DEF k, f
      <4> QED BY <3>4, <4>2, <4>3 DEF Adds
    <3> QED BY <3>6, <3>7, <3>8, <3>9, <3>10, <3>11 DEF Phase
  <2> QED BY <1>3, <2>1, <2>2
<1> QED BY <1>1, <1>9, <1>10, <1>11, <1>12 DEF UpdateInv

LEMMA BootsInv ==
  ASSUME NEW c, Callers = {c}, UpdateInv(c), BoxBoots
  PROVE  UpdateInv(c)'
<1>1. Typed(c)' BY BootsTyped DEF UpdateInv
<1>2. UNCHANGED <<session, wire, back, updates, held, call, info, last, spent>> /\ boot # "up"
  BY DEF BoxBoots, queues
<1>3. FreshQuery(c)'
  <2>1. Awaited(c)' <=> Awaited(c) BY <1>2 DEF Awaited
  <2> QED BY <1>2, <2>1 DEF UpdateInv, FreshQuery
<1>4. BeginFirst' BY <1>2 DEF UpdateInv, BeginFirst
<1>5. Quiet(call[c])' /\ Own(call[c])' /\ Taken(call[c])' /\ Drained(call[c])'
  BY <1>2 DEF UpdateInv, Phase, Quiet, Own, Taken, Drained
<1>6. Replied' = Replied BY <1>2 DEF Replied
<1>7. LastFrame(call[c])' /\ Telling(call[c])'
  BY <1>2, <1>6 DEF UpdateInv, Phase, LastFrame, Telling
<1>8. Ended(c)' BY <1>2 DEF UpdateInv, Ended
<1> QED BY <1>1, <1>3, <1>4, <1>5, <1>7, <1>8 DEF UpdateInv, Phase

LEMMA LoseInv ==
  ASSUME NEW c, Callers = {c}, UpdateInv(c), LoseFrame
  PROVE  UpdateInv(c)'
<1> DEFINE k == call[c]
<1>1. Typed(c)' BY LoseTyped DEF UpdateInv
<1>2. /\ UNCHANGED <<session, boot, back, updates, held, call, info, last>>
      /\ wire # <<>> /\ wire' = Tail(wire)
  BY DEF LoseFrame, boxState
<1>3. wire \in Seq(UpdateFrames) /\ spent \in [calls : Nat, giveUps : Nat, lost : Nat]
  BY DEF UpdateInv, Typed, UpdateTypeOK
<1>4. spent'.giveUps = spent.giveUps BY <1>3 DEF LoseFrame
<1>5. /\ Len(wire) \in Nat \ {0} /\ Len(wire') = Len(wire) - 1
      /\ \A i \in 1..Len(wire') : wire'[i] = wire[i + 1] /\ i + 1 \in 1..Len(wire)
      /\ ToSet(wire') \subseteq ToSet(wire)
  BY <1>2, <1>3, TailSet
<1>6. \A i \in 1..Len(wire') : i + 1 = Len(wire) <=> i = Len(wire') BY ONLY <1>5
<1>7. Replied' = Replied BY <1>2 DEF Replied
<1>8. FreshQuery(c)'
  <2>1. Awaited(c)' <=> Awaited(c) BY <1>2 DEF Awaited
  <2>2. \A j \in 1..Len(back) : back[j].op = "FIRMWARE" => back[j].seq < spent.giveUps
    BY <1>2 DEF UpdateInv, FreshQuery
  <2>3. \A j \in 1..Len(wire') : wire'[j].op = "FIRMWARE" =>
          \/ wire'[j].seq < spent.giveUps
          \/ wire'[j].seq = spent.giveUps /\ Awaited(c) /\ j = Len(wire')
    BY <1>5, <1>6 DEF UpdateInv, FreshQuery
  <2>4. call[c].at = "asked" => call[c].sent = spent.giveUps /\ info[c] # "confirmed"
    BY <1>2 DEF UpdateInv, FreshQuery
  <2> QED BY <1>2, <1>4, <2>1, <2>2, <2>3, <2>4 DEF FreshQuery
<1>9. BeginFirst'
  <2> SUFFICES ASSUME NEW j \in 1..Len(wire'), wire'[j].op = "BEGIN"
               PROVE  boot' = "up" /\ \A i \in 1..Len(wire') : wire'[i].op = "ACTIVATE" => j <= i
    BY DEF BeginFirst
  <2>1. wire'[j] = wire[j + 1] /\ j + 1 \in 1..Len(wire) /\ j \in Nat BY <1>5
  <2>2. boot = "up" /\ \A i \in 1..Len(wire) : wire[i].op = "ACTIVATE" => j + 1 <= i
    BY <2>1 DEF UpdateInv, BeginFirst
  <2>3. ASSUME NEW i \in 1..Len(wire'), wire'[i].op = "ACTIVATE" PROVE j <= i
    <3>1. wire'[i] = wire[i + 1] /\ i + 1 \in 1..Len(wire) /\ i \in Nat BY <1>5
    <3>2. j + 1 <= i + 1 BY <2>2, <2>3, <3>1
    <3> QED BY <2>1, <3>1, <3>2
  <2> QED BY <1>2, <2>2, <2>3
<1>10. Quiet(k)' /\ Taken(k)' /\ Drained(k)'
  BY <1>2, <1>5 DEF UpdateInv, Phase, Quiet, Taken, Drained
<1>11. Own(k)' BY <1>2, <1>5 DEF UpdateInv, Phase, Own
<1>12. LastFrame(k)' BY <1>2, <1>5, <1>6, <1>7 DEF UpdateInv, Phase, LastFrame
<1>13. Telling(k)' BY <1>2, <1>7 DEF UpdateInv, Phase, Telling
<1>14. Ended(c)' BY <1>2 DEF UpdateInv, Ended
<1> QED BY <1>1, <1>8, <1>9, <1>10, <1>11, <1>12, <1>13, <1>14 DEF UpdateInv, Phase

LEMMA ArriveInv ==
  ASSUME NEW c, Callers = {c}, UpdateInv(c), Arrive
  PROVE  UpdateInv(c)'
<1> DEFINE k == call[c]
           p == back[1]
<1>1. /\ Typed(c)' /\ back # <<>> /\ back' = Tail(back)
      /\ \/ /\ p.op = "FIRMWARE" /\ UNCHANGED updates
            /\ \/ UNCHANGED info
               \/ /\ call[c].at = "asked" /\ call[c].sent = p.seq
                  /\ p.pending => info'[c] = "pending"
         \/ /\ p \in Replies /\ updates' = Append(updates, p)
            /\ UNCHANGED info
  BY ArriveDoes DEF UpdateInv
<1>2. UNCHANGED <<session, boot, wire, held, call, last, spent>> BY DEF Arrive, boxState
<1>3. back \in Seq(Replies \cup Answers) /\ updates \in Seq(Replies) BY DEF UpdateInv, Typed, UpdateTypeOK
<1>4. /\ p \in ToSet(back) /\ Len(back) \in Nat \ {0} /\ Len(back') = Len(back) - 1
      /\ \A i \in 1..Len(back') : back'[i] = back[i + 1] /\ i + 1 \in 1..Len(back)
      /\ ToSet(back') \subseteq ToSet(back)
  BY <1>1, <1>3, TailSet
<1>5. \A i \in 1..Len(back') : i + 1 = Len(back) <=> i = Len(back') BY ONLY <1>4
<1>6. UNCHANGED updates \/ (p.op # "FIRMWARE" /\ ToSet(updates') = ToSet(updates) \cup {p})
  <2>1. p \in Replies => p.op # "FIRMWARE" BY DEF Replies, Ops
  <2>2. CASE UNCHANGED updates BY <2>2
  <2>3. CASE p \in Replies /\ updates' = Append(updates, p)
    <3>1. ToSet(updates') = ToSet(updates) \cup {p} BY <1>3, <2>3, AppendSet
    <3> QED BY <2>1, <2>3, <3>1
  <2> QED BY <1>1, <2>2, <2>3
<1>7. Replied' \subseteq Replied BY <1>2, <1>4, <1>6 DEF Replied
<1>8. \A j \in 1..Len(back) : back[j].op = "FIRMWARE" =>
        \/ back[j].seq < spent.giveUps
        \/ /\ back[j].seq = spent.giveUps /\ Awaited(c) /\ j = Len(back)
           /\ wire = <<>> /\ (~back[j].pending => boot = "up")
  BY DEF UpdateInv, FreshQuery
\* The answer that is awaited is all there is.
<1>9. UNCHANGED info \/
        /\ wire = <<>> /\ back' = <<>> /\ (info'[c] = "confirmed" => boot = "up")
  <2> SUFFICES ASSUME ~UNCHANGED info
               PROVE  wire = <<>> /\ back' = <<>> /\ (info'[c] = "confirmed" => boot = "up")
    OBVIOUS
  <2>1. p.op = "FIRMWARE" /\ call[c].at = "asked" /\ call[c].sent = p.seq
        /\ (p.pending => info'[c] = "pending")
    BY <1>1
  <2>2. p.seq = spent.giveUps /\ spent.giveUps \in Nat
    BY <2>1 DEF UpdateInv, FreshQuery, Typed, UpdateTypeOK
  <2>3. 1 \in 1..Len(back) /\ ~(p.seq < spent.giveUps) BY <1>4, <2>2
  <2>4. 1 = Len(back) /\ wire = <<>> /\ (~p.pending => boot = "up") BY <1>8, <2>1, <2>3
  <2>a. Len(back') = Len(back) - 1 BY <1>4
  <2>5. Len(back') = 0 BY ONLY <2>4, <2>a
  <2>6. back' = <<>> BY <1>1, <1>3, <2>5, TailSet
  <2> QED BY <2>1, <2>4, <2>6
<1>10. FreshQuery(c)'
  <2>1. CASE UNCHANGED info
    <3>1. Awaited(c)' <=> Awaited(c) BY <1>2, <2>1 DEF Awaited
    <3>2. call[c].at = "asked" => call[c].sent = spent.giveUps /\ info[c] # "confirmed"
      BY <1>1 DEF UpdateInv, FreshQuery
    <3>3. \A j \in 1..Len(back') : back'[j].op = "FIRMWARE" =>
            \/ back'[j].seq < spent.giveUps
            \/ /\ back'[j].seq = spent.giveUps /\ Awaited(c) /\ j = Len(back')
               /\ wire = <<>> /\ (~back'[j].pending => boot = "up")
      BY <1>4, <1>5, <1>8
    <3>4. \A j \in 1..Len(wire) : wire[j].op = "FIRMWARE" =>
            \/ wire[j].seq < spent.giveUps
            \/ wire[j].seq = spent.giveUps /\ Awaited(c) /\ j = Len(wire)
      BY DEF UpdateInv, FreshQuery
    <3> QED BY <1>2, <2>1, <3>1, <3>2, <3>3, <3>4 DEF FreshQuery
  <2>2. CASE wire = <<>> /\ back' = <<>> /\ (info'[c] = "confirmed" => boot = "up")
    BY <1>2, <2>2 DEF UpdateInv, FreshQuery
  <2> QED BY <1>9, <2>1, <2>2
<1>11. BeginFirst' BY <1>2 DEF UpdateInv, BeginFirst
<1>12. Quiet(k)' BY <1>1, <1>2 DEF UpdateInv, Phase, Quiet
<1>13. Own(k)' BY <1>2, <1>4 DEF UpdateInv, Phase, Own
<1>14. Taken(k)' BY <1>2 DEF UpdateInv, Phase, Taken
<1>15. Drained(k)'
  <2> SUFFICES ASSUME Begun(k), k.at = "send"
               PROVE  \A q \in ToSet(updates') \cup ToSet(held) : q.op # k.op
    BY <1>2 DEF Drained
  <2>1. p.op # k.op BY <1>4 DEF UpdateInv, Phase, Own, Sent
  <2>2. \A q \in ToSet(updates) \cup ToSet(held) : q.op # k.op BY DEF UpdateInv, Phase, Drained
  <2> QED BY <1>6, <2>1, <2>2
<1>16. LastFrame(k)' /\ Telling(k)' BY <1>2, <1>7 DEF UpdateInv, Phase, LastFrame, Telling
<1>17. Ended(c)' BY <1>2 DEF UpdateInv, Ended
<1> QED BY <1>1, <1>10, <1>11, <1>12, <1>13, <1>14, <1>15, <1>16, <1>17 DEF UpdateInv, Phase

-----------------------------------------------------------------------------
LEMMA UpdateStep ==
  ASSUME NEW c, Callers = {c}, UpdateInv(c), [UpdateNext]_updateVars
  PROVE  UpdateInv(c)'
<1>1. CASE update_op BY <1>1, ServeInv
<1>2. CASE BoxBoots BY <1>2, BootsInv
<1>3. CASE LoseFrame BY <1>3, LoseInv
<1>4. CASE Arrive BY <1>4, ArriveInv
<1>5. CASE Call(c) BY <1>5, CallInv
<1>6. CASE CallerStep(c)
  <2>1. CASE Ask(c) BY <2>1, AskInv
  <2>2. CASE Told(c) BY <2>2, ToldInv
  <2>3. CASE Unanswered(c) BY <2>3, UnansweredInv
  <2>4. CASE Drain(c) BY <2>4, DrainInv
  <2>5. CASE Send(c) BY <2>5, SendInv
  <2>6. CASE SendChunk(c) BY <2>6, SendChunkInv
  <2>7. CASE WindowFull(c) BY <2>7, WindowFullInv
  <2>8. CASE TakeHeld(c) \/ TakeUpdate(c) \/ GiveUp(c) BY <2>8, TakeInv
  <2> QED BY <1>6, <2>1, <2>2, <2>3, <2>4, <2>5, <2>6, <2>7, <2>8 DEF CallerStep
<1>7. CASE UNCHANGED updateVars
  <2>1. UNCHANGED <<session, boot, wire, back, updates, held, call, info, last, spent>> BY <1>7 DEF updateVars
  <2>2. Typed(c)' BY <2>1 DEF UpdateInv, Typed, UpdateTypeOK
  <2>3. Awaited(c)' <=> Awaited(c) BY <2>1 DEF Awaited
  <2>4. FreshQuery(c)' BY <2>1, <2>3 DEF UpdateInv, FreshQuery
  <2>5. BeginFirst' /\ Ended(c)' BY <2>1 DEF UpdateInv, BeginFirst, Ended
  <2>6. Quiet(call[c])' /\ Own(call[c])' /\ Taken(call[c])' /\ Drained(call[c])'
    BY <2>1 DEF UpdateInv, Phase, Quiet, Own, Taken, Drained
  <2>7. Replied' = Replied BY <2>1 DEF Replied
  <2>8. LastFrame(call[c])' /\ Telling(call[c])' BY <2>1, <2>7 DEF UpdateInv, Phase, LastFrame, Telling
  <2> QED BY <2>2, <2>4, <2>5, <2>6, <2>8 DEF UpdateInv, Phase
<1> QED BY <1>1, <1>2, <1>3, <1>4, <1>5, <1>6, <1>7 DEF UpdateNext

LEMMA UpdateAlways ==
  ASSUME NEW c, Callers = {c} PROVE UpdateSpec => []UpdateInv(c)
<1>1. UpdateInit => UpdateInv(c) BY UpdateBase
<1>2. UpdateInv(c) /\ [UpdateNext]_updateVars => UpdateInv(c)' BY UpdateStep
<1> QED BY <1>1, <1>2, PTL DEF UpdateSpec

\* With one thread updating, a stage that returned Ok staged that very image (stage_firmware).
THEOREM StagedTruly ==
  ASSUME NEW c, Callers = {c} PROVE UpdateSpec => []OkMeansStaged
<1>1. UpdateInv(c) => OkMeansStaged BY DEF UpdateInv, Ended, OkMeansStaged
<1> QED BY <1>1, UpdateAlways, PTL

\* With one thread updating, an update refused at its activation and aborted leaves nothing
\* staged (update_firmware).
THEOREM RefusalDisarms ==
  ASSUME NEW c, Callers = {c} PROVE UpdateSpec => []Disarmed
<1>1. UpdateInv(c) => Disarmed BY DEF UpdateInv, Ended, Disarmed
<1> QED BY <1>1, UpdateAlways, PTL

\* With one thread updating, no BEGIN reaches a box that boots or is on probation
\* (wait_firmware_confirmed).
THEOREM BeginsOnUp ==
  ASSUME NEW c, Callers = {c} PROVE UpdateSpec => []BeginsConfirmed
<1>1. UpdateInv(c) => BeginsConfirmed
  <2> SUFFICES ASSUME UpdateInv(c), wire # <<>>, Head(wire).op = "BEGIN" PROVE boot = "up"
    BY DEF BeginsConfirmed
  <2>1. Head(wire) = wire[1] /\ 1 \in 1..Len(wire)
    <3>1. wire \in Seq(UpdateFrames) BY DEF UpdateInv, Typed, UpdateTypeOK
    <3> QED BY <3>1
  <2> QED BY <2>1 DEF UpdateInv, BeginFirst
<1> QED BY <1>1, UpdateAlways, PTL

=============================================================================
