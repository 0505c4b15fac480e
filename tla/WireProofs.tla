----------------------------- MODULE WireProofs -----------------------------
(***************************************************************************)
(* Proofs about the frame decoder, for any frames, lengths and faults:     *)
(* nothing is handed on that was not sent, and a fault costs a bounded     *)
(* number of frames.                                                       *)
(***************************************************************************)
EXTENDS Wire, SequenceTheorems, TLAPS

(* What is on the line.                                                     *)

Size(f) == 7 + Len(f.payload)
Input(f) == CrcInput(f.ty, f.seq, Len(f.payload), f.payload)
Header(f) == <<SOF, f.ty, f.seq, Len(f.payload) % ByteSpan, Len(f.payload) \div ByteSpan>>

\* What a checksum byte may have been computed from: nothing, for a byte that is none.
Sources == {<<>>} \cup UNION {{<<Input(f), "lo">>, <<Input(f), "hi">>} : f \in Sendable}
Bytes == [v : Nat, of : Sources]

LEMMA Divides ==
  ASSUME NEW N \in Nat \ {0}, NEW a \in Nat
  PROVE  a \div N \in Nat /\ a % N \in Nat /\ (a % N) + (a \div N) * N = a
BY SMTT(30)

LEMMA SpanIs == ByteSpan \in Nat \ {0} /\ MAX_PAYLOAD \in Nat /\ SOF \in Nat /\ Byte \subseteq Nat
BY WireAssumption DEF SOF, Byte

LEMMA SendableIs ==
  ASSUME NEW f \in Sendable
  PROVE  /\ f.ty \in Nat /\ f.seq \in Nat /\ f.crc[1] \in Nat /\ f.crc[2] \in Nat
         /\ f.payload \in Seq(Nat) /\ Len(f.payload) \in Nat /\ Len(f.payload) <= MAX_PAYLOAD
         /\ Size(f) \in Nat /\ Size(f) >= 7
<1>1. f.ty \in Byte /\ f.seq \in Byte /\ f.crc \in Byte \X Byte /\ f.payload \in Seq(Byte)
      /\ Len(f.payload) <= MAX_PAYLOAD
  BY SendableAssumption
<1>2. f.crc[1] \in Byte /\ f.crc[2] \in Byte BY <1>1
<1>3. f.payload \in Seq(Nat) BY <1>1, SpanIs, SeqMonotonic
<1>4. Len(f.payload) \in Nat BY <1>3, LenProperties
<1>5. f.ty \in Nat /\ f.seq \in Nat /\ f.crc[1] \in Nat /\ f.crc[2] \in Nat BY <1>1, <1>2, SpanIs
<1>6. Size(f) \in Nat /\ Size(f) >= 7 BY ONLY <1>4 DEF Size
<1> QED BY ONLY <1>1, <1>3, <1>4, <1>5, <1>6

LEMMA Joined ==
  ASSUME NEW S, NEW s \in Seq(S), NEW t \in Seq(S)
  PROVE  /\ s \o t \in Seq(S) /\ Len(s \o t) = Len(s) + Len(t)
         /\ \A k \in 1 .. Len(s) : (s \o t)[k] = s[k]
         /\ \A k \in 1 .. Len(t) : (s \o t)[Len(s) + k] = t[k]
<1>1. /\ s \o t \in Seq(S) /\ Len(s \o t) = Len(s) + Len(t)
      /\ \A i \in 1 .. Len(s) + Len(t) : (s \o t)[i] = IF i <= Len(s) THEN s[i] ELSE t[i - Len(s)]
  BY ConcatProperties
<1> DEFINE m == Len(s)
           n == Len(t)
<1>2. m \in Nat /\ n \in Nat BY LenProperties
<1>3. \A i \in 1 .. m + n : (s \o t)[i] = IF i <= m THEN s[i] ELSE t[i - m] BY <1>1
<1> HIDE DEF m, n
<1>4. ASSUME NEW k \in 1 .. m PROVE (s \o t)[k] = s[k]
  <2>1. k \in 1 .. m + n /\ k <= m BY ONLY <1>2, k \in 1 .. m
  <2> QED BY ONLY <1>3, <2>1
<1>5. ASSUME NEW k \in 1 .. n PROVE (s \o t)[m + k] = t[k]
  <2>1. m + k \in 1 .. m + n /\ ~(m + k <= m) /\ (m + k) - m = k BY ONLY <1>2, k \in 1 .. n
  <2> QED BY ONLY <1>3, <2>1
<1> QED BY ONLY <1>1, <1>4, <1>5 DEF m, n

\* encode, byte by byte.
LEMMA EncodeIs ==
  ASSUME NEW f \in Sendable
  PROVE  /\ encode(f) \in Seq(Bytes) /\ Len(encode(f)) = Size(f)
         /\ \A k \in 1 .. 5 : encode(f)[k] = Plain(Header(f)[k])
         /\ \A k \in 1 .. Len(f.payload) : encode(f)[5 + k] = Plain(f.payload[k])
         /\ encode(f)[6 + Len(f.payload)] = Sum(f.crc[1], Input(f), "lo")
         /\ encode(f)[7 + Len(f.payload)] = Sum(f.crc[2], Input(f), "hi")
<1> DEFINE L == Len(f.payload)
           x == [k \in 1 .. 5 |-> Plain(Header(f)[k])]
           y == [k \in 1 .. L |-> Plain(f.payload[k])]
           lo == Sum(f.crc[1], Input(f), "lo")
           hi == Sum(f.crc[2], Input(f), "hi")
           z == <<lo, hi>>
<1>1. encode(f) = x \o y \o z BY DEF encode, Input, Header
<1>2. L \in Nat BY SendableIs
<1>3. \A k \in 1 .. 5 : Header(f)[k] \in Nat
  <2>1. L % ByteSpan \in Nat /\ L \div ByteSpan \in Nat BY ONLY <1>2, Divides, SpanIs
  <2>3. f.ty \in Nat /\ f.seq \in Nat /\ SOF \in Nat BY SendableIs, SpanIs
  <2> HIDE DEF L
  <2>4. Header(f) = <<SOF, f.ty, f.seq, L % ByteSpan, L \div ByteSpan>> BY DEF Header, L
  <2> DEFINE m == L % ByteSpan
             q == L \div ByteSpan
  <2> HIDE DEF m, q
  <2>5. Header(f) = <<SOF, f.ty, f.seq, m, q>> /\ m \in Nat /\ q \in Nat BY <2>1, <2>4 DEF m, q
  <2> QED BY ONLY <2>3, <2>5
<1>4. <<>> \in Sources /\ <<Input(f), "lo">> \in Sources /\ <<Input(f), "hi">> \in Sources
  BY DEF Sources
<1>5. \A n \in Nat : Plain(n) \in Bytes BY <1>4 DEF Plain, Bytes
<1>6. lo \in Bytes /\ hi \in Bytes BY <1>4, SendableIs DEF Sum, Bytes
<1>7. \A k \in 1 .. L : f.payload[k] \in Nat BY SendableIs
<1> HIDE DEF lo, hi, L
<1>8. x \in Seq(Bytes) /\ Len(x) = 5 /\ \A k \in 1 .. 5 : x[k] = Plain(Header(f)[k]) BY <1>3, <1>5
<1>9. y \in Seq(Bytes) /\ Len(y) = L /\ \A k \in 1 .. L : y[k] = Plain(f.payload[k])
  BY <1>2, <1>5, <1>7
<1>10. z \in Seq(Bytes) /\ Len(z) = 2 /\ z[1] = lo /\ z[2] = hi BY <1>6
<1> HIDE DEF x, y, z
<1>11. /\ x \o y \in Seq(Bytes) /\ Len(x \o y) = 5 + L
       /\ \A k \in 1 .. 5 : (x \o y)[k] = x[k]
       /\ \A k \in 1 .. L : (x \o y)[5 + k] = y[k]
  <2>1. /\ x \o y \in Seq(Bytes) /\ Len(x \o y) = Len(x) + Len(y)
        /\ \A k \in 1 .. Len(x) : (x \o y)[k] = x[k]
        /\ \A k \in 1 .. Len(y) : (x \o y)[Len(x) + k] = y[k]
    <3>1. x \in Seq(Bytes) /\ y \in Seq(Bytes) BY ONLY <1>8, <1>9
    <3> QED BY ONLY <3>1, Joined
  <2> QED BY ONLY <1>8, <1>9, <2>1
<1> DEFINE w == x \o y
<1> HIDE DEF w
<1>12. w \in Seq(Bytes) /\ Len(w) = 5 + L BY <1>11 DEF w
<1>13. /\ w \o z \in Seq(Bytes) /\ Len(w \o z) = 7 + L
       /\ \A k \in 1 .. 5 + L : (w \o z)[k] = w[k]
       /\ (w \o z)[6 + L] = z[1] /\ (w \o z)[7 + L] = z[2]
  <2>1. /\ w \o z \in Seq(Bytes) /\ Len(w \o z) = (5 + L) + 2
        /\ \A k \in 1 .. 5 + L : (w \o z)[k] = w[k]
        /\ \A k \in 1 .. 2 : (w \o z)[(5 + L) + k] = z[k]
    <3>1. /\ w \o z \in Seq(Bytes) /\ Len(w \o z) = Len(w) + Len(z)
          /\ \A k \in 1 .. Len(w) : (w \o z)[k] = w[k]
          /\ \A k \in 1 .. Len(z) : (w \o z)[Len(w) + k] = z[k]
      <4>1. w \in Seq(Bytes) /\ z \in Seq(Bytes) BY ONLY <1>10, <1>12
      <4> QED BY ONLY <4>1, Joined
    <3> QED BY ONLY <3>1, <1>10, <1>12
  <2>2. (5 + L) + 2 = 7 + L /\ (5 + L) + 1 = 6 + L BY ONLY <1>2
  <2>3. 1 \in 1 .. 2 /\ 2 \in 1 .. 2 OBVIOUS
  <2>4. (w \o z)[(5 + L) + 1] = z[1] /\ (w \o z)[(5 + L) + 2] = z[2] BY ONLY <2>1, <2>3
  <2> QED BY ONLY <2>1, <2>2, <2>4
<1>14. encode(f) = w \o z BY <1>1 DEF w
<1>15. ASSUME NEW k \in 1 .. 5 PROVE encode(f)[k] = Plain(Header(f)[k])
  <2>1. k \in 1 .. 5 + L BY <1>2
  <2> QED BY <2>1, <1>8, <1>11, <1>13, <1>14 DEF w
<1>16. ASSUME NEW k \in 1 .. L PROVE encode(f)[5 + k] = Plain(f.payload[k])
  <2>1. 5 + k \in 1 .. 5 + L BY <1>2
  <2> QED BY <2>1, <1>9, <1>11, <1>13, <1>14 DEF w
<1> QED BY <1>10, <1>13, <1>14, <1>15, <1>16 DEF L, lo, hi, Size

\* What of a frame is still to come after i of its bytes.
Rest(f, i) == [k \in 1 .. Size(f) - i |-> encode(f)[i + k]]

LEMMA RestFits ==
  ASSUME NEW f \in Sendable, NEW i \in 0 .. Size(f)
  PROVE  /\ Rest(f, i) \in Seq(Bytes) /\ Len(Rest(f, i)) = Size(f) - i
         /\ \A k \in 1 .. Size(f) - i : Rest(f, i)[k] = encode(f)[i + k]
<1>1. Size(f) - i \in Nat /\ i \in Nat /\ Size(f) \in Nat BY SendableIs
<1>2. encode(f) \in Seq(Bytes) /\ Len(encode(f)) = Size(f) BY EncodeIs
<1>3. ASSUME NEW k \in 1 .. Size(f) - i PROVE encode(f)[i + k] \in Bytes
  <2>1. i + k \in 1 .. Size(f) BY ONLY <1>1, k \in 1 .. Size(f) - i
  <2> QED BY ONLY <1>2, <2>1, ElementOfSeq
<1> QED BY <1>1, <1>3 DEF Rest

LEMMA RestIs ==
  ASSUME NEW f \in Sendable, NEW i \in 0 .. Size(f) - 1
  PROVE  /\ Rest(f, i) # <<>> /\ Head(Rest(f, i)) = encode(f)[i + 1] /\ encode(f)[i + 1] \in Bytes
         /\ Tail(Rest(f, i)) = Rest(f, i + 1)
<1> DEFINE n == Size(f) - i
           r == Rest(f, i)
           u == Rest(f, i + 1)
<1>1. n \in Nat \ {0} /\ i \in Nat /\ Size(f) \in Nat /\ i \in 0 .. Size(f) /\ i + 1 \in 0 .. Size(f)
      /\ Size(f) - (i + 1) = n - 1
  BY SendableIs
<1>2. r \in Seq(Bytes) /\ Len(r) = n /\ \A k \in 1 .. n : r[k] = encode(f)[i + k] BY <1>1, RestFits
<1>3. u \in Seq(Bytes) /\ Len(u) = n - 1 /\ \A k \in 1 .. n - 1 : u[k] = encode(f)[(i + 1) + k]
  <2>1. /\ u \in Seq(Bytes) /\ Len(u) = Size(f) - (i + 1)
        /\ \A k \in 1 .. Size(f) - (i + 1) : u[k] = encode(f)[(i + 1) + k]
    BY <1>1, RestFits
  <2> QED BY ONLY <1>1, <2>1
<1> HIDE DEF r, u, n
<1>4. r # <<>> /\ 1 \in 1 .. n BY <1>1, <1>2
<1>5. Head(r) = r[1] /\ r[1] \in Bytes BY <1>2, <1>4
<1>6. r[1] = encode(f)[i + 1] BY <1>2, <1>4
<1>7. Tail(r) = u
  <2>1. /\ Tail(r) \in Seq(Bytes) /\ Len(Tail(r)) = n - 1
        /\ \A k \in 1 .. n - 1 : Tail(r)[k] = r[k + 1]
    BY <1>2, <1>4, HeadTailProperties
  <2>2. ASSUME NEW k \in 1 .. n - 1 PROVE Tail(r)[k] = u[k]
    <3>1. k + 1 \in 1 .. n /\ i + (k + 1) = (i + 1) + k BY ONLY <1>1, k \in 1 .. n - 1
    <3> QED BY ONLY <1>2, <1>3, <2>1, <3>1, k \in 1 .. n - 1
  <2> QED BY ONLY <1>3, <2>1, <2>2, SeqEqual
<1> QED BY ONLY <1>4, <1>5, <1>6, <1>7 DEF r, u

LEMMA RestEnds ==
  ASSUME NEW f \in Sendable, NEW i \in 0 .. Size(f) - 1
  PROVE  Rest(f, i + 1) = <<>> <=> i + 1 = Size(f)
<1>1. Size(f) \in Nat /\ i \in Nat BY SendableIs
<1>2. CASE i + 1 = Size(f)
  <2>1. Rest(f, i + 1) = [k \in 1 .. 0 |-> encode(f)[(i + 1) + k]]
    <3>1. Size(f) - (i + 1) = 0 BY ONLY <1>1, <1>2
    <3> QED BY <3>1 DEF Rest
  <2>2. Rest(f, i + 1) = <<>> BY <2>1
  <2> QED BY <1>2, <2>2
<1>3. CASE i + 1 # Size(f)
  <2>1. i + 1 \in 0 .. Size(f) - 1 BY ONLY <1>1, <1>3, i \in 0 .. Size(f) - 1
  <2>2. Rest(f, i + 1) # <<>> BY ONLY <2>1, RestIs, f \in Sendable
  <2> QED BY ONLY <1>3, <2>2
<1> QED BY <1>2, <1>3

-----------------------------------------------------------------------------
(* The decoder.                                                             *)

Decoders ==
  [state : {"Sof", "Type", "Seq", "LenLo", "LenHi", "Payload", "CrcLo", "CrcHi"},
   ty : Nat, seq : Nat, len : Nat, buf : Seq(Nat), lo : Sources]

Typed(d) ==
  /\ d \in Decoders
  /\ d.state = "Payload" => Len(d.buf) < d.len /\ d.len <= MAX_PAYLOAD
  /\ d.state \in {"CrcLo", "CrcHi"} => Len(d.buf) = d.len

\* How many bytes it has of the frame it reads, and how many it may still take.
Taken(d) ==
  CASE d.state = "Sof" -> 0 [] d.state = "Type" -> 1 [] d.state = "Seq" -> 2
    [] d.state = "LenLo" -> 3 [] d.state = "LenHi" -> 4
    [] d.state = "Payload" -> 5 + Len(d.buf) [] d.state = "CrcLo" -> 5 + Len(d.buf)
    [] d.state = "CrcHi" -> 6 + Len(d.buf)
Appetite(d) ==
  CASE d.state = "Sof" -> 0 [] d.state = "Type" -> MAX_PAYLOAD + 6
    [] d.state = "Seq" -> MAX_PAYLOAD + 5 [] d.state = "LenLo" -> MAX_PAYLOAD + 4
    [] d.state = "LenHi" -> MAX_PAYLOAD + 3 [] d.state = "Payload" -> d.len - Len(d.buf) + 2
    [] d.state = "CrcLo" -> 2 [] d.state = "CrcHi" -> 1

LEMMA Counted ==
  ASSUME NEW d, Typed(d)
  PROVE  /\ d \in Decoders /\ Len(d.buf) \in Nat /\ d.len \in Nat
         /\ d.state = "Sof" => Taken(d) = 0 /\ Appetite(d) = 0
         /\ d.state = "Type" => Taken(d) = 1 /\ Appetite(d) = MAX_PAYLOAD + 6
         /\ d.state = "Seq" => Taken(d) = 2 /\ Appetite(d) = MAX_PAYLOAD + 5
         /\ d.state = "LenLo" => Taken(d) = 3 /\ Appetite(d) = MAX_PAYLOAD + 4
         /\ d.state = "LenHi" => Taken(d) = 4 /\ Appetite(d) = MAX_PAYLOAD + 3
         /\ d.state = "Payload" =>
              /\ Taken(d) = 5 + Len(d.buf) /\ Appetite(d) = d.len - Len(d.buf) + 2
              /\ Len(d.buf) < d.len /\ d.len <= MAX_PAYLOAD
         /\ d.state = "CrcLo" => Taken(d) = 5 + Len(d.buf) /\ Appetite(d) = 2 /\ Len(d.buf) = d.len
         /\ d.state = "CrcHi" => Taken(d) = 6 + Len(d.buf) /\ Appetite(d) = 1 /\ Len(d.buf) = d.len
         /\ Taken(d) \in Nat /\ Appetite(d) \in Nat
         /\ d.state # "Sof" => Taken(d) >= 1 /\ Appetite(d) >= 1
<1>1. d \in Decoders BY DEF Typed
<1>2. Len(d.buf) \in Nat /\ d.len \in Nat
  <2>1. d.buf \in Seq(Nat) /\ d.len \in Nat BY <1>1 DEF Decoders
  <2> QED BY <2>1, LenProperties
<1>3. d.state \in {"Sof", "Type", "Seq", "LenLo", "LenHi", "Payload", "CrcLo", "CrcHi"}
  BY <1>1 DEF Decoders
<1> USE DEF Taken, Appetite
<1>4. CASE d.state = "Payload"
  <2>1. Taken(d) = 5 + Len(d.buf) /\ Appetite(d) = d.len - Len(d.buf) + 2 BY ONLY <1>4
  <2>2. Len(d.buf) < d.len /\ d.len <= MAX_PAYLOAD BY <1>4 DEF Typed
  <2> HIDE DEF Taken, Appetite
  <2>3. Taken(d) \in Nat /\ Appetite(d) \in Nat /\ Taken(d) >= 1 /\ Appetite(d) >= 1
    BY ONLY <1>2, <2>1, <2>2
  <2> QED BY ONLY <1>1, <1>2, <1>4, <2>1, <2>2, <2>3
<1>5. CASE d.state \in {"CrcLo", "CrcHi"}
  <2>1. Len(d.buf) = d.len BY <1>5 DEF Typed
  <2> QED BY ONLY <1>1, <1>2, <1>5, <2>1
<1>6. CASE d.state \in {"Sof", "Type", "Seq", "LenLo", "LenHi"}
  <2>1. MAX_PAYLOAD \in Nat BY SpanIs
  <2> QED BY ONLY <1>1, <1>2, <1>6, <2>1
<1> QED BY ONLY <1>3, <1>4, <1>5, <1>6

\* feed_byte, state by state.
LEMMA FeedDoes ==
  ASSUME NEW d, NEW b
  PROVE  /\ d.state = "Sof" =>
              feed_byte(d, b) = [d EXCEPT !.state = IF b.v = SOF THEN "Type" ELSE "Sof"]
         /\ d.state = "Type" => feed_byte(d, b) = [d EXCEPT !.ty = b.v, !.state = "Seq"]
         /\ d.state = "Seq" => feed_byte(d, b) = [d EXCEPT !.seq = b.v, !.state = "LenLo"]
         /\ d.state = "LenLo" => feed_byte(d, b) = [d EXCEPT !.len = b.v, !.state = "LenHi"]
         /\ d.state = "LenHi" => feed_byte(d, b) = AfterLen([d EXCEPT !.len = @ + b.v * ByteSpan])
         /\ d.state = "Payload" =>
              feed_byte(d, b) = [d EXCEPT !.buf = Append(@, b.v),
                                          !.state = IF Len(d.buf) + 1 >= d.len THEN "CrcLo" ELSE @]
         /\ d.state = "CrcLo" => feed_byte(d, b) = [d EXCEPT !.lo = b.of, !.state = "CrcHi"]
         /\ d.state = "CrcHi" =>
              feed_byte(d, b) = [d EXCEPT !.state = "Sof", !.buf = IF HandsOn(d, b) THEN <<>> ELSE @]
BY DEF feed_byte

\* What a byte does to a decoder, whatever the byte: it takes one more, or gives up.
LEMMA FeedIs ==
  ASSUME NEW d, Typed(d), NEW b \in Bytes
  PROVE  /\ Typed(feed_byte(d, b))
         /\ d.state # "Sof" =>
              /\ Appetite(feed_byte(d, b)) <= Appetite(d) - 1
              /\ feed_byte(d, b).state # "Sof" => Taken(feed_byte(d, b)) = Taken(d) + 1
         /\ d.state = "Sof" =>
              /\ b.v = SOF => feed_byte(d, b).state = "Type"
              /\ b.v # SOF => feed_byte(d, b).state = "Sof"
         /\ d.state = "CrcHi" => feed_byte(d, b).state = "Sof"
<1> DEFINE e == feed_byte(d, b)
<1>1. d \in Decoders /\ b.v \in Nat /\ b.of \in Sources BY DEF Typed, Bytes
<1>2. Len(d.buf) \in Nat /\ d.len \in Nat /\ d.buf \in Seq(Nat) BY Counted DEF Decoders
<1>3. d.state \in {"Sof", "Type", "Seq", "LenLo", "LenHi", "Payload", "CrcLo", "CrcHi"}
  BY <1>1 DEF Decoders
<1>4. MAX_PAYLOAD \in Nat /\ ByteSpan \in Nat BY SpanIs
<1>5. <<>> \in Seq(Nat) /\ Len(<<>>) = 0 OBVIOUS
<1> HIDE DEF e
<1>6. CASE d.state = "Sof"
  <2>1. e = [d EXCEPT !.state = IF b.v = SOF THEN "Type" ELSE "Sof"] BY <1>6, FeedDoes DEF e
  <2>2. Typed(e) /\ (b.v = SOF => e.state = "Type") /\ (b.v # SOF => e.state = "Sof")
    BY ONLY <1>1, <1>6, <2>1 DEF Typed, Decoders
  <2> QED BY <1>6, <2>2 DEF e
<1>7. CASE d.state = "Type"
  <2>1. e = [d EXCEPT !.ty = b.v, !.state = "Seq"] BY <1>7, FeedDoes DEF e
  <2>2. Typed(e) /\ e.state = "Seq" BY ONLY <1>1, <2>1 DEF Typed, Decoders
  <2>3. Appetite(e) <= Appetite(d) - 1 /\ Taken(e) = Taken(d) + 1
    BY ONLY <1>4, <1>7, <2>2, Counted, Typed(d)
  <2> QED BY <1>7, <2>2, <2>3 DEF e
<1>8. CASE d.state = "Seq"
  <2>1. e = [d EXCEPT !.seq = b.v, !.state = "LenLo"] BY <1>8, FeedDoes DEF e
  <2>2. Typed(e) /\ e.state = "LenLo" BY ONLY <1>1, <2>1 DEF Typed, Decoders
  <2>3. Appetite(e) <= Appetite(d) - 1 /\ Taken(e) = Taken(d) + 1
    BY ONLY <1>4, <1>8, <2>2, Counted, Typed(d)
  <2> QED BY <1>8, <2>2, <2>3 DEF e
<1>9. CASE d.state = "LenLo"
  <2>1. e = [d EXCEPT !.len = b.v, !.state = "LenHi"] BY <1>9, FeedDoes DEF e
  <2>2. Typed(e) /\ e.state = "LenHi" BY ONLY <1>1, <2>1 DEF Typed, Decoders
  <2>3. Appetite(e) <= Appetite(d) - 1 /\ Taken(e) = Taken(d) + 1
    BY ONLY <1>4, <1>9, <2>2, Counted, Typed(d)
  <2> QED BY <1>9, <2>2, <2>3 DEF e
<1>10. CASE d.state = "LenHi"
  <2> DEFINE n == d.len + b.v * ByteSpan
  <2>1. e = AfterLen([d EXCEPT !.len = n]) BY <1>10, FeedDoes DEF e
  <2>2. n \in Nat
    <3>1. b.v * ByteSpan \in Nat BY ONLY <1>1, <1>4
    <3> QED BY ONLY <1>2, <3>1
  <2> HIDE DEF n
  <2>3. e = [d EXCEPT !.len = n, !.buf = <<>>,
                      !.state = IF n > MAX_PAYLOAD THEN "Sof" ELSE IF n = 0 THEN "CrcLo" ELSE "Payload"]
    BY ONLY <1>1, <2>1 DEF AfterLen, Decoders
  <2>4. /\ e \in Decoders /\ e.len = n /\ e.buf = <<>>
        /\ e.state = IF n > MAX_PAYLOAD THEN "Sof" ELSE IF n = 0 THEN "CrcLo" ELSE "Payload"
    BY ONLY <1>1, <1>5, <2>2, <2>3 DEF Decoders
  <2>5. Typed(e) BY ONLY <1>4, <1>5, <2>2, <2>4 DEF Typed
  <2>6. Appetite(e) <= Appetite(d) - 1 /\ (e.state # "Sof" => Taken(e) = Taken(d) + 1)
    <3>1. Taken(d) = 4 /\ Appetite(d) = MAX_PAYLOAD + 3 BY ONLY <1>10, Counted, Typed(d)
    <3>2. CASE n > MAX_PAYLOAD
      <4>1. e.state = "Sof" BY ONLY <2>4, <3>2
      <4>2. Appetite(e) = 0 BY ONLY <2>5, <4>1, Counted
      <4> QED BY ONLY <1>4, <3>1, <4>1, <4>2
    <3>3. CASE ~(n > MAX_PAYLOAD) /\ n = 0
      <4>1. e.state = "CrcLo" BY ONLY <2>4, <3>3
      <4>2. Appetite(e) = 2 /\ Taken(e) = 5 + Len(e.buf) BY ONLY <2>5, <4>1, Counted
      <4> QED BY ONLY <1>4, <1>5, <2>4, <3>1, <4>2
    <3>4. CASE ~(n > MAX_PAYLOAD) /\ n # 0
      <4>1. e.state = "Payload" BY ONLY <2>4, <3>4
      <4>2. Appetite(e) = n - Len(e.buf) + 2 /\ Taken(e) = 5 + Len(e.buf)
        BY ONLY <2>4, <2>5, <4>1, Counted
      <4> QED BY ONLY <1>4, <1>5, <2>2, <2>4, <3>1, <3>4, <4>2
    <3> QED BY <3>2, <3>3, <3>4
  <2> QED BY <1>10, <2>5, <2>6 DEF e
<1>11. CASE d.state = "Payload"
  <2> DEFINE more == Append(d.buf, b.v)
  <2>1. e = [d EXCEPT !.buf = more, !.state = IF Len(d.buf) + 1 >= d.len THEN "CrcLo" ELSE "Payload"]
    <3>1. e = [d EXCEPT !.buf = Append(@, b.v), !.state = IF Len(d.buf) + 1 >= d.len THEN "CrcLo" ELSE @]
      BY ONLY <1>11, FeedDoes DEF e
    <3> QED BY ONLY <1>1, <1>11, <3>1 DEF Decoders
  <2>2. more \in Seq(Nat) /\ Len(more) = Len(d.buf) + 1 BY <1>1, <1>2
  <2>3. Len(d.buf) < d.len /\ d.len <= MAX_PAYLOAD /\ Taken(d) = 5 + Len(d.buf)
        /\ Appetite(d) = d.len - Len(d.buf) + 2
    BY ONLY <1>11, Counted, Typed(d)
  <2> HIDE DEF more
  <2>4. /\ e \in Decoders /\ e.len = d.len /\ e.buf = more
        /\ e.state = IF Len(d.buf) + 1 >= d.len THEN "CrcLo" ELSE "Payload"
    BY ONLY <1>1, <2>1, <2>2 DEF Decoders
  <2>5. Typed(e) BY ONLY <1>2, <1>4, <2>2, <2>3, <2>4 DEF Typed
  <2>6. Appetite(e) <= Appetite(d) - 1 /\ Taken(e) = Taken(d) + 1
    <3>1. CASE Len(d.buf) + 1 >= d.len
      <4>1. e.state = "CrcLo" BY ONLY <2>4, <3>1
      <4>2. Appetite(e) = 2 /\ Taken(e) = 5 + Len(e.buf) BY ONLY <2>5, <4>1, Counted
      <4> QED BY ONLY <1>2, <1>4, <2>2, <2>3, <2>4, <4>2
    <3>2. CASE ~(Len(d.buf) + 1 >= d.len)
      <4>1. e.state = "Payload" BY ONLY <2>4, <3>2
      <4>2. Appetite(e) = d.len - Len(e.buf) + 2 /\ Taken(e) = 5 + Len(e.buf)
        BY ONLY <2>4, <2>5, <4>1, Counted
      <4>3. Len(e.buf) = Len(d.buf) + 1 BY ONLY <2>2, <2>4
      <4>4. d.len \in Nat /\ Len(d.buf) \in Nat BY ONLY <1>2
      <4> QED BY ONLY <2>3, <2>4, <4>2, <4>3, <4>4
    <3> QED BY <3>1, <3>2
  <2> QED BY <1>11, <2>5, <2>6 DEF e
<1>12. CASE d.state = "CrcLo"
  <2>1. e = [d EXCEPT !.lo = b.of, !.state = "CrcHi"] BY <1>12, FeedDoes DEF e
  <2>2. Len(d.buf) = d.len BY ONLY <1>12, Counted, Typed(d)
  <2>3. Typed(e) /\ e.state = "CrcHi" /\ e.buf = d.buf BY ONLY <1>1, <2>1, <2>2 DEF Typed, Decoders
  <2>4. Appetite(e) <= Appetite(d) - 1 /\ Taken(e) = Taken(d) + 1
    BY ONLY <1>2, <1>12, <2>3, Counted, Typed(d)
  <2> QED BY <1>12, <2>3, <2>4 DEF e
<1>13. CASE d.state = "CrcHi"
  <2>1. e = [d EXCEPT !.state = "Sof", !.buf = IF HandsOn(d, b) THEN <<>> ELSE d.buf]
    BY <1>13, FeedDoes DEF e
  <2>2. Typed(e) /\ e.state = "Sof" BY ONLY <1>1, <1>2, <1>5, <2>1 DEF Typed, Decoders
  <2>3. Appetite(e) <= Appetite(d) - 1 BY ONLY <1>13, <2>2, Counted, Typed(d)
  <2> QED BY <1>13, <2>2, <2>3 DEF e
<1> QED BY <1>3, <1>6, <1>7, <1>8, <1>9, <1>10, <1>11, <1>12, <1>13

-----------------------------------------------------------------------------
(* A decoder in step with the frame, and one that is not.                   *)

Synced(d, f, i) ==
  /\ i = 0 => d.state = "Sof"
  /\ i = 1 => d.state = "Type"
  /\ i >= 2 => d.ty = f.ty
  /\ i = 2 => d.state = "Seq"
  /\ i >= 3 => d.seq = f.seq
  /\ i = 3 => d.state = "LenLo"
  /\ i = 4 => d.state = "LenHi" /\ d.len = Len(f.payload) % ByteSpan
  /\ i >= 5 => d.len = Len(f.payload)
  /\ i \in 5 .. 4 + Len(f.payload) =>
       d.state = "Payload" /\ Len(d.buf) = i - 5 /\ \A k \in 1 .. i - 5 : d.buf[k] = f.payload[k]
  /\ i >= 5 + Len(f.payload) => d.buf = f.payload
  /\ i = 5 + Len(f.payload) => d.state = "CrcLo"
  /\ i = 6 + Len(f.payload) => d.state = "CrcHi" /\ d.lo = <<Input(f), "lo">>

\* What it has read is not what was sent.
Differs(d, f) ==
  \/ d.state \in {"Seq", "LenLo", "LenHi", "Payload", "CrcLo", "CrcHi"} /\ d.ty # f.ty
  \/ d.state \in {"LenLo", "LenHi", "Payload", "CrcLo", "CrcHi"} /\ d.seq # f.seq
  \/ d.state = "LenHi" /\ d.len < ByteSpan /\ d.len # Len(f.payload) % ByteSpan
  \/ d.state \in {"Payload", "CrcLo", "CrcHi"} /\ d.len # Len(f.payload)
  \/ /\ d.state \in {"Payload", "CrcLo", "CrcHi"}
     /\ \E k \in 1 .. Len(d.buf) : k <= Len(f.payload) /\ d.buf[k] # f.payload[k]
  \/ d.state = "CrcHi" /\ d.lo = <<>>

LEMMA SyncedFits ==
  ASSUME NEW f \in Sendable, NEW i \in 1 .. Size(f) - 1, NEW d, Typed(d), Synced(d, f, i)
  PROVE  d.state # "Sof" /\ Taken(d) = i /\ Appetite(d) - (Size(f) - i) <= MAX_PAYLOAD
<1> DEFINE L == Len(f.payload)
<1>1. L \in Nat /\ Size(f) = 7 + L /\ MAX_PAYLOAD \in Nat BY SendableIs, SpanIs DEF Size
<1>2. /\ i = 1 => d.state = "Type"
      /\ i = 2 => d.state = "Seq"
      /\ i = 3 => d.state = "LenLo"
      /\ i = 4 => d.state = "LenHi"
      /\ i \in 5 .. 4 + L => d.state = "Payload" /\ Len(d.buf) = i - 5 /\ d.len = L
      /\ i >= 5 + L => Len(d.buf) = L
      /\ i = 5 + L => d.state = "CrcLo"
      /\ i = 6 + L => d.state = "CrcHi"
  <2>1. i \in 5 .. 4 + L => i >= 5 BY ONLY <1>1
  <2> QED BY ONLY <2>1, Synced(d, f, i) DEF Synced
<1> HIDE DEF L
<1>3. i \in {1, 2, 3, 4} \/ i \in 5 .. 4 + L \/ i = 5 + L \/ i = 6 + L
  BY ONLY <1>1, i \in 1 .. Size(f) - 1
<1>4. CASE i \in {1, 2, 3, 4} BY ONLY <1>1, <1>2, <1>4, Counted, Typed(d)
<1>5. CASE i \in 5 .. 4 + L
  <2>1. Taken(d) = 5 + (i - 5) /\ Appetite(d) = L - (i - 5) + 2 /\ d.state = "Payload"
    BY ONLY <1>2, <1>5, Counted, Typed(d)
  <2> QED BY ONLY <1>1, <1>5, <2>1
<1>6. CASE i = 5 + L
  <2>1. Taken(d) = 5 + L /\ Appetite(d) = 2 /\ d.state = "CrcLo"
    <3>1. i >= 5 + L BY ONLY <1>1, <1>6
    <3> QED BY ONLY <1>2, <1>6, <3>1, Counted, Typed(d)
  <2> QED BY ONLY <1>1, <1>6, <2>1
<1>7. CASE i = 6 + L
  <2>1. Taken(d) = 6 + L /\ Appetite(d) = 1 /\ d.state = "CrcHi"
    <3>1. i >= 5 + L BY ONLY <1>1, <1>7
    <3> QED BY ONLY <1>2, <1>7, <3>1, Counted, Typed(d)
  <2> QED BY ONLY <1>1, <1>7, <2>1
<1> QED BY <1>3, <1>4, <1>5, <1>6, <1>7

\* Its next byte keeps it in step, and with the last it hands the frame on.
LEMMA InStep ==
  ASSUME NEW f \in Sendable, NEW i \in 0 .. Size(f) - 1, NEW d, Typed(d), Synced(d, f, i),
         NEW b, b = encode(f)[i + 1]
  PROVE  /\ i + 1 < Size(f) => Synced(feed_byte(d, b), f, i + 1)
         /\ i + 1 = Size(f) => d.state = "CrcHi" /\ (HandsOn(d, b) <=> f.ty \in Opcodes)
<1> DEFINE L == Len(f.payload)
           e == feed_byte(d, b)
<1>1. L \in Nat /\ Size(f) = 7 + L /\ MAX_PAYLOAD \in Nat /\ L <= MAX_PAYLOAD /\ i \in 0 .. 6 + L
      /\ ByteSpan \in Nat \ {0} /\ f.payload \in Seq(Nat)
  <2>1. L \in Nat /\ L <= MAX_PAYLOAD /\ f.payload \in Seq(Nat) /\ Size(f) = 7 + L
    BY SendableIs DEF Size
  <2>2. i \in 0 .. 6 + L BY ONLY <2>1, i \in 0 .. Size(f) - 1
  <2> QED BY <2>1, <2>2, SpanIs
<1>2. d \in Decoders /\ Len(d.buf) \in Nat BY Counted
<1>3. /\ \A k \in 1 .. 5 : encode(f)[k] = Plain(Header(f)[k])
      /\ \A k \in 1 .. L : encode(f)[5 + k] = Plain(f.payload[k])
      /\ encode(f)[6 + L] = Sum(f.crc[1], Input(f), "lo")
      /\ encode(f)[7 + L] = Sum(f.crc[2], Input(f), "hi")
  BY EncodeIs
<1>4. /\ Header(f)[1] = SOF /\ Header(f)[2] = f.ty /\ Header(f)[3] = f.seq
      /\ Header(f)[4] = L % ByteSpan /\ Header(f)[5] = L \div ByteSpan
  BY DEF Header
<1>5. CASE i = 0
  <2>1. b = Plain(SOF) BY ONLY <1>3, <1>4, <1>5, b = encode(f)[i + 1]
  <2>2. d.state = "Sof" BY <1>5 DEF Synced
  <2>5. e = [d EXCEPT !.state = IF b.v = SOF THEN "Type" ELSE "Sof"] BY ONLY <2>2, FeedDoes
  <2>6. b.v = SOF BY ONLY <2>1 DEF Plain
  <2> HIDE DEF e
  <2>3. e.state = "Type" BY ONLY <1>2, <2>5, <2>6 DEF Decoders
  <2>4. Synced(e, f, 1) BY ONLY <1>1, <2>3 DEF Synced
  <2> QED BY ONLY <1>1, <1>5, <2>4 DEF e
<1>6. CASE i = 1
  <2>1. b = Plain(f.ty) BY ONLY <1>3, <1>4, <1>6, b = encode(f)[i + 1]
  <2>2. d.state = "Type" BY <1>6 DEF Synced
  <2>5. e = [d EXCEPT !.ty = b.v, !.state = "Seq"] BY ONLY <2>2, FeedDoes
  <2>6. b.v = f.ty BY ONLY <2>1 DEF Plain
  <2> HIDE DEF e
  <2>3. e.state = "Seq" /\ e.ty = f.ty BY ONLY <1>2, <2>5, <2>6 DEF Decoders
  <2>4. Synced(e, f, 2) BY ONLY <1>1, <2>3 DEF Synced
  <2> QED BY ONLY <1>1, <1>6, <2>4 DEF e
<1>7. CASE i = 2
  <2>1. b = Plain(f.seq) BY ONLY <1>3, <1>4, <1>7, b = encode(f)[i + 1]
  <2>2. d.state = "Seq" /\ d.ty = f.ty BY <1>7 DEF Synced
  <2>5. e = [d EXCEPT !.seq = b.v, !.state = "LenLo"] BY ONLY <2>2, FeedDoes
  <2>6. b.v = f.seq BY ONLY <2>1 DEF Plain
  <2> HIDE DEF e
  <2>3. e.state = "LenLo" /\ e.ty = f.ty /\ e.seq = f.seq BY ONLY <1>2, <2>2, <2>5, <2>6 DEF Decoders
  <2>4. Synced(e, f, 3) BY ONLY <1>1, <2>3 DEF Synced
  <2> QED BY ONLY <1>1, <1>7, <2>4 DEF e
<1>8. CASE i = 3
  <2>1. b = Plain(L % ByteSpan) BY ONLY <1>3, <1>4, <1>8, b = encode(f)[i + 1]
  <2>2. d.state = "LenLo" /\ d.ty = f.ty /\ d.seq = f.seq BY <1>8 DEF Synced
  <2>5. e = [d EXCEPT !.len = b.v, !.state = "LenHi"] BY ONLY <2>2, FeedDoes
  <2>6. b.v = L % ByteSpan BY ONLY <2>1 DEF Plain
  <2> HIDE DEF e
  <2>3. e.state = "LenHi" /\ e.ty = f.ty /\ e.seq = f.seq /\ e.len = L % ByteSpan
    BY ONLY <1>2, <2>2, <2>5, <2>6 DEF Decoders
  <2>4. Synced(e, f, 4) BY ONLY <1>1, <2>3 DEF Synced
  <2> QED BY ONLY <1>1, <1>8, <2>4 DEF e
<1>9. CASE i = 4
  <2>1. b = Plain(L \div ByteSpan) BY ONLY <1>3, <1>4, <1>9, b = encode(f)[i + 1]
  <2>2. d.state = "LenHi" /\ d.ty = f.ty /\ d.seq = f.seq /\ d.len = L % ByteSpan
    BY <1>9 DEF Synced
  <2>3. (L % ByteSpan) + (L \div ByteSpan) * ByteSpan = L BY ONLY <1>1, Divides
  <2>4. d.len + b.v * ByteSpan = L BY ONLY <2>1, <2>2, <2>3 DEF Plain
  <2>5. e = AfterLen([d EXCEPT !.len = d.len + b.v * ByteSpan])
    <3>1. d.state = "LenHi" BY ONLY <2>2
    <3> QED BY ONLY <3>1, FeedDoes
  <2>6. e = AfterLen([d EXCEPT !.len = L]) BY ONLY <2>4, <2>5
  <2>7. ~(L > MAX_PAYLOAD) BY ONLY <1>1
  <2> HIDE DEF e, L
  <2>8. /\ e.ty = f.ty /\ e.seq = f.seq /\ e.len = L /\ e.buf = <<>>
        /\ e.state = IF L = 0 THEN "CrcLo" ELSE "Payload"
    BY ONLY <1>2, <2>2, <2>6, <2>7 DEF AfterLen, Decoders
  <2>9. Len(e.buf) = 0 /\ (L = 0 => e.buf = f.payload)
    <3>1. L = 0 => f.payload = <<>>
      <4>1. L = Len(f.payload) BY DEF L
      <4> QED BY ONLY <1>1, <4>1, EmptySeq
    <3> QED BY ONLY <2>8, <3>1
  <2>10. Synced(e, f, 5)
    <3>1. L = Len(f.payload) BY DEF L
    <3>2. /\ 5 \in 5 .. 4 + L => e.state = "Payload" /\ Len(e.buf) = 5 - 5
          /\ 5 >= 5 + L => e.buf = f.payload
          /\ 5 = 5 + L => e.state = "CrcLo"
          /\ ~(5 = 6 + L)
      BY ONLY <1>1, <2>8, <2>9
    <3>3. \A k \in 1 .. 5 - 5 : e.buf[k] = f.payload[k] OBVIOUS
    <3> QED BY ONLY <2>8, <3>1, <3>2, <3>3 DEF Synced
  <2> QED BY ONLY <1>1, <1>9, <2>10 DEF e
<1>10. CASE i \in 5 .. 4 + L
  <2> DEFINE n == i - 4
             w == f.payload[n]
             more == Append(d.buf, w)
  <2>1. n \in 1 .. L /\ i + 1 = 5 + n /\ i >= 5 /\ n \in Nat BY ONLY <1>1, <1>10
  <2> HIDE DEF n
  <2>2. b = Plain(w) BY ONLY <1>3, <2>1, b = encode(f)[i + 1]
  <2>3. d.state = "Payload" /\ d.ty = f.ty /\ d.seq = f.seq /\ d.len = L /\ Len(d.buf) = i - 5
        /\ \A k \in 1 .. i - 5 : d.buf[k] = f.payload[k]
    <3>1. i >= 2 /\ i >= 3 /\ i >= 5 BY ONLY <2>1, i \in 0 .. Size(f) - 1, <1>1
    <3> QED BY ONLY <1>10, <3>1, Synced(d, f, i) DEF Synced
  <2>4. w \in Nat BY ONLY <1>1, <2>1, ElementOfSeq
  <2>5. e = [d EXCEPT !.buf = Append(@, b.v), !.state = IF Len(d.buf) + 1 >= d.len THEN "CrcLo" ELSE @]
    BY ONLY <2>3, FeedDoes
  <2>6. b.v = w BY ONLY <2>2 DEF Plain
  <2> HIDE DEF e
  <2>7. d.buf \in Seq(Nat) BY ONLY <1>2 DEF Decoders
  <2> HIDE DEF w
  <2>8. more \in Seq(Nat) /\ Len(more) = Len(d.buf) + 1 /\ more[Len(d.buf) + 1] = w
        /\ \A k \in 1 .. Len(d.buf) : more[k] = d.buf[k]
    BY ONLY <2>4, <2>7
  <2> HIDE DEF more
  <2>9. /\ e.ty = f.ty /\ e.seq = f.seq /\ e.len = L /\ e.buf = more
        /\ e.state = IF (i - 5) + 1 >= L THEN "CrcLo" ELSE "Payload"
    BY ONLY <1>2, <2>3, <2>5, <2>6 DEF Decoders, more
  <2>10. Len(more) = n /\ \A k \in 1 .. n : more[k] = f.payload[k]
    <3>1. Len(d.buf) = n - 1 /\ i - 5 = n - 1 /\ n \in Nat BY ONLY <2>1, <2>3, <1>1, i \in 0 .. Size(f) - 1
    <3>2. Len(more) = n /\ more[n] = w BY ONLY <2>8, <3>1
    <3>3. ASSUME NEW k \in 1 .. n PROVE more[k] = f.payload[k]
      <4>1. CASE k = n BY ONLY <3>2, <4>1 DEF w
      <4>2. CASE k # n
        <5>1. k \in 1 .. n - 1 BY ONLY <3>1, <4>2, k \in 1 .. n
        <5> QED BY ONLY <2>3, <2>8, <3>1, <5>1
      <4> QED BY ONLY <4>1, <4>2
    <3> QED BY ONLY <3>2, <3>3
  <2>11. n = L => more = f.payload
    <3>1. ASSUME n = L PROVE more = f.payload
      <4>1. Len(more) = Len(f.payload) /\ \A k \in 1 .. Len(more) : more[k] = f.payload[k]
        BY ONLY <2>10, <3>1
      <4> QED BY ONLY <1>1, <2>8, <4>1, SeqEqual
    <3> QED BY ONLY <3>1
  <2>12. Synced(e, f, i + 1)
    <3>1. i + 1 = 5 + n /\ i \in Nat /\ n \in 1 .. L /\ L \in Nat BY ONLY <1>1, <2>1, i \in 0 .. Size(f) - 1
    <3>2. /\ i + 1 \in 5 .. 4 + L => e.state = "Payload" /\ Len(e.buf) = (i + 1) - 5
          /\ i + 1 >= 5 + L => e.buf = f.payload
          /\ i + 1 = 5 + L => e.state = "CrcLo"
          /\ ~(i + 1 = 6 + L) /\ i + 1 >= 6
      <4>1. n \in Nat BY ONLY <3>1
      <4>2. i + 1 >= 5 + L => n = L BY ONLY <3>1, <4>1
      <4>3. i + 1 \in 5 .. 4 + L => n < L BY ONLY <3>1, <4>1
      <4>4. i - 5 + 1 = n BY ONLY <3>1, <4>1
      <4> QED BY ONLY <2>9, <2>10, <2>11, <3>1, <4>1, <4>2, <4>3, <4>4
    <3>3. \A k \in 1 .. (i + 1) - 5 : e.buf[k] = f.payload[k]
      <4>1. (i + 1) - 5 = n BY ONLY <3>1
      <4> QED BY ONLY <2>9, <2>10, <4>1
    <3>4. i + 1 # 0 /\ i + 1 # 1 /\ i + 1 # 2 /\ i + 1 # 3 /\ i + 1 # 4 BY ONLY <3>1
    <3> QED BY ONLY <2>9, <3>2, <3>3, <3>4 DEF Synced
  <2>13. ~(i + 1 = Size(f)) BY ONLY <1>1, <2>1
  <2> QED BY ONLY <2>12, <2>13 DEF e
<1>11. CASE i = 5 + L
  <2>1. b = Sum(f.crc[1], Input(f), "lo")
    <3>1. i + 1 = 6 + L BY ONLY <1>1, <1>11
    <3> QED BY ONLY <1>3, <3>1, b = encode(f)[i + 1]
  <2>2. d.state = "CrcLo" /\ d.ty = f.ty /\ d.seq = f.seq /\ d.len = L /\ d.buf = f.payload
    <3>1. i >= 2 /\ i >= 3 /\ i >= 5 /\ i >= 5 + L BY ONLY <1>1, <1>11
    <3> QED BY ONLY <1>11, <3>1, Synced(d, f, i) DEF Synced
  <2>3. b.of = <<Input(f), "lo">> BY ONLY <2>1 DEF Sum
  <2>4. e = [d EXCEPT !.lo = b.of, !.state = "CrcHi"] BY ONLY <2>2, FeedDoes
  <2> HIDE DEF e
  <2>5. e.state = "CrcHi" /\ e.ty = f.ty /\ e.seq = f.seq /\ e.len = L /\ e.buf = f.payload
        /\ e.lo = <<Input(f), "lo">>
    BY ONLY <1>2, <2>2, <2>3, <2>4 DEF Decoders
  <2>6. Synced(e, f, i + 1)
    <3>1. i + 1 = 6 + L /\ ~(i + 1 \in 5 .. 4 + L) /\ i + 1 # 5 + L
          /\ i + 1 # 0 /\ i + 1 # 1 /\ i + 1 # 2 /\ i + 1 # 3 /\ i + 1 # 4
      BY ONLY <1>1, <1>11
    <3> QED BY ONLY <2>5, <3>1 DEF Synced
  <2>7. ~(i + 1 = Size(f)) BY ONLY <1>1, <1>11
  <2> QED BY ONLY <2>6, <2>7 DEF e
<1>12. CASE i = 6 + L
  <2>1. b = Sum(f.crc[2], Input(f), "hi")
    <3>1. i + 1 = 7 + L BY ONLY <1>1, <1>12
    <3> QED BY ONLY <1>3, <3>1, b = encode(f)[i + 1]
  <2>2. d.state = "CrcHi" /\ d.ty = f.ty /\ d.seq = f.seq /\ d.buf = f.payload
        /\ d.lo = <<Input(f), "lo">>
    <3>1. i >= 2 /\ i >= 3 /\ i >= 5 + L BY ONLY <1>1, <1>12
    <3> QED BY ONLY <1>12, <3>1, Synced(d, f, i) DEF Synced
  <2>3. CrcInput(d.ty, d.seq, Len(d.buf), d.buf) = Input(f) BY ONLY <2>2 DEF Input
  <2>4. b.of = <<Input(f), "hi">> BY ONLY <2>1 DEF Sum
  <2>5. Holds(d, b) BY ONLY <2>2, <2>3, <2>4 DEF Holds
  <2>6. HandsOn(d, b) <=> f.ty \in Opcodes BY ONLY <2>2, <2>5 DEF HandsOn
  <2>7. ~(i + 1 < Size(f)) BY ONLY <1>1, <1>12
  <2> QED BY ONLY <2>2, <2>6, <2>7
<1>13. i \in {0, 1, 2, 3, 4} \/ i \in 5 .. 4 + L \/ i = 5 + L \/ i = 6 + L BY ONLY <1>1
<1> QED BY ONLY <1>5, <1>6, <1>7, <1>8, <1>9, <1>10, <1>11, <1>12, <1>13

-----------------------------------------------------------------------------
(* A frame handed on is the one on the line; one with a byte changed is not. *)

\* What a checksum is computed from tells the frame.
LEMMA InputTells ==
  ASSUME NEW f, NEW d, CrcInput(d.ty, d.seq, Len(d.buf), d.buf) = Input(f)
  PROVE  d.ty = f.ty /\ d.seq = f.seq /\ d.buf = f.payload
<1> DEFINE x == CrcInput(d.ty, d.seq, Len(d.buf), d.buf)
           y == Input(f)
<1>1. x[1] = d.ty /\ x[2] = d.seq /\ x[4] = d.buf BY DEF CrcInput
<1>2. y[1] = f.ty /\ y[2] = f.seq /\ y[4] = f.payload BY DEF CrcInput, Input
<1>3. x = y OBVIOUS
<1> HIDE DEF x, y
<1> QED BY ONLY <1>1, <1>2, <1>3

LEMMA PlainNever ==
  ASSUME NEW d, NEW v
  PROVE  ~HandsOn(d, Plain(v))
BY DEF HandsOn, Holds, Plain

LEMMA HandedIs ==
  ASSUME NEW f \in Sendable, NEW i \in 0 .. Size(f) - 1, NEW d, NEW b, b = encode(f)[i + 1],
         HandsOn(d, b)
  PROVE  /\ i + 1 = Size(f) /\ b.of = <<Input(f), "hi">> /\ d.state = "CrcHi"
         /\ d.ty = f.ty /\ d.seq = f.seq /\ d.buf = f.payload
         /\ d.lo = <<Input(f), "lo">> /\ f.ty \in Opcodes
<1> DEFINE L == Len(f.payload)
           input == CrcInput(d.ty, d.seq, Len(d.buf), d.buf)
<1>1. L \in Nat /\ Size(f) = 7 + L BY SendableIs DEF Size
<1>2. d.state = "CrcHi" /\ d.lo = <<input, "lo">> /\ b.of = <<input, "hi">> /\ d.ty \in Opcodes
  BY DEF HandsOn, Holds
<1>3. /\ \A k \in 1 .. 5 : encode(f)[k] = Plain(Header(f)[k])
      /\ \A k \in 1 .. L : encode(f)[5 + k] = Plain(f.payload[k])
      /\ encode(f)[6 + L] = Sum(f.crc[1], Input(f), "lo")
      /\ encode(f)[7 + L] = Sum(f.crc[2], Input(f), "hi")
  BY EncodeIs
<1> HIDE DEF L, input
<1>4. CASE i + 1 \in 1 .. 5
  <2>1. b = Plain(Header(f)[i + 1]) BY ONLY <1>3, <1>4, b = encode(f)[i + 1]
  <2>2. HandsOn(d, Plain(Header(f)[i + 1])) BY ONLY <2>1, HandsOn(d, b)
  <2> QED BY ONLY <2>2, PlainNever
<1>5. CASE i + 1 \in 6 .. 5 + L
  <2>1. i - 4 \in 1 .. L /\ 5 + (i - 4) = i + 1 BY ONLY <1>1, <1>5, i \in 0 .. Size(f) - 1
  <2>2. b = Plain(f.payload[i - 4]) BY ONLY <1>3, <2>1, b = encode(f)[i + 1]
  <2>3. HandsOn(d, Plain(f.payload[i - 4])) BY ONLY <2>2, HandsOn(d, b)
  <2> QED BY ONLY <2>3, PlainNever
<1>6. CASE i + 1 = 6 + L
  <2>1. b.of = <<Input(f), "lo">> BY ONLY <1>3, <1>6, b = encode(f)[i + 1] DEF Sum
  <2>2. b.of[2] = "lo" BY ONLY <2>1
  <2>3. b.of[2] = "hi" BY ONLY <1>2
  <2> QED BY ONLY <2>2, <2>3
<1>7. CASE i + 1 = 7 + L
  <2>1. b.of = <<Input(f), "hi">> BY ONLY <1>3, <1>7, b = encode(f)[i + 1] DEF Sum
  <2>2. b.of[1] = input /\ b.of[1] = Input(f)
    <3>1. b.of[1] = Input(f) BY ONLY <2>1
    <3>2. b.of[1] = input BY ONLY <1>2
    <3> QED BY ONLY <3>1, <3>2
  <2>3. d.ty = f.ty /\ d.seq = f.seq /\ d.buf = f.payload
    <3>1. CrcInput(d.ty, d.seq, Len(d.buf), d.buf) = Input(f) BY ONLY <2>2 DEF input
    <3> QED BY ONLY <3>1, InputTells
  <2>4. i + 1 = Size(f) BY ONLY <1>1, <1>7
  <2> QED BY ONLY <1>2, <2>1, <2>2, <2>3, <2>4
<1>8. i + 1 \in 1 .. 5 \/ i + 1 \in 6 .. 5 + L \/ i + 1 = 6 + L \/ i + 1 = 7 + L
  BY ONLY <1>1, i \in 0 .. Size(f) - 1
<1> QED BY ONLY <1>4, <1>5, <1>6, <1>7, <1>8

\* What differs is not handed on as that frame.
LEMMA DiffersEnds ==
  ASSUME NEW f \in Sendable, NEW i \in 0 .. Size(f) - 1, NEW d, Typed(d), NEW b,
         b = encode(f)[i + 1], HandsOn(d, b)
  PROVE  ~Differs(d, f) /\ Taken(d) = i
<1> DEFINE L == Len(f.payload)
<1>1. /\ i + 1 = Size(f) /\ d.state = "CrcHi" /\ d.ty = f.ty /\ d.seq = f.seq /\ d.buf = f.payload
      /\ d.lo = <<Input(f), "lo">>
  BY HandedIs
<1>2. d.len = L /\ Taken(d) = 6 + L BY <1>1, Counted
<1>3. Size(f) = 7 + L /\ L \in Nat BY SendableIs DEF Size
<1>4. Taken(d) = i BY ONLY <1>1, <1>2, <1>3, i \in 0 .. Size(f) - 1
<1>5. d.lo # <<>> BY ONLY <1>1
<1>6. ~Differs(d, f) BY ONLY <1>1, <1>2, <1>5 DEF Differs
<1> QED BY ONLY <1>4, <1>6

\* A number is written in one way with a low byte.
LEMMA OneWay ==
  ASSUME NEW N \in Nat \ {0}, NEW r \in Nat, r < N, NEW q \in Nat, NEW r2 \in Nat, r2 < N,
         NEW q2 \in Nat, r + q * N = r2 + q2 * N
  PROVE  r = r2 /\ q = q2
<1>1. r - r2 = (q2 - q) * N
  <2>1. (q2 - q) * N = q2 * N - q * N BY SMTT(30)
  <2>2. q * N \in Nat /\ q2 * N \in Nat BY SMTT(30)
  <2> DEFINE x == q * N
             y == q2 * N
  <2> HIDE DEF x, y
  <2>3. r + x = r2 + y /\ x \in Nat /\ y \in Nat /\ (q2 - q) * N = y - x BY <2>1, <2>2 DEF x, y
  <2>4. r - r2 = y - x BY ONLY <2>3, r \in Nat, r2 \in Nat
  <2> QED BY ONLY <2>3, <2>4
<1>2. q2 - q >= 1 => (q2 - q) * N >= N BY SMTT(30)
<1>3. q2 - q <= -1 => (q2 - q) * N <= -N BY SMTT(30)
<1>4. q2 - q = 0
  <2> DEFINE x == (q2 - q) * N
  <2> HIDE DEF x
  <2>1. r - r2 = x /\ (q2 - q >= 1 => x >= N) /\ (q2 - q <= -1 => x <= -N) BY <1>1, <1>2, <1>3 DEF x
  <2> QED BY ONLY <2>1, N \in Nat \ {0}, r \in Nat, r2 \in Nat, r < N, r2 < N, q \in Nat, q2 \in Nat
<1>5. q = q2 BY ONLY <1>4, q \in Nat, q2 \in Nat
<1>6. r = r2
  <2> DEFINE x == q * N
  <2>1. x \in Nat BY SMTT(30)
  <2>2. r + x = r2 + x BY <1>5
  <2> HIDE DEF x
  <2> QED BY ONLY <2>1, <2>2, r \in Nat, r2 \in Nat
<1> QED BY ONLY <1>5, <1>6

\* The length's halves: another one makes another length.
LEMMA Halves ==
  ASSUME NEW n \in Nat
  PROVE  /\ n % ByteSpan \in Nat /\ n % ByteSpan < ByteSpan /\ n \div ByteSpan \in Nat
         /\ n = (n % ByteSpan) + (n \div ByteSpan) * ByteSpan
         /\ \A r \in Nat, q \in Nat :
              r < ByteSpan /\ r + q * ByteSpan = n => r = n % ByteSpan /\ q = n \div ByteSpan
<1>1. ByteSpan \in Nat \ {0} BY SpanIs
<1>2. /\ n \div ByteSpan \in Nat /\ n % ByteSpan \in Nat
      /\ (n % ByteSpan) + (n \div ByteSpan) * ByteSpan = n
  BY ONLY <1>1, n \in Nat, Divides
<1>3. n % ByteSpan < ByteSpan BY ONLY <1>1, n \in Nat, SMTT(30)
<1> DEFINE m == n % ByteSpan
           k == n \div ByteSpan
<1> HIDE DEF m, k
<1>4. m \in Nat /\ k \in Nat /\ m < ByteSpan /\ m + k * ByteSpan = n BY <1>2, <1>3 DEF m, k
<1>5. ASSUME NEW r \in Nat, NEW q \in Nat, r < ByteSpan, r + q * ByteSpan = n PROVE r = m /\ q = k
  <2>1. r + q * ByteSpan = m + k * ByteSpan BY ONLY <1>4, <1>5
  <2> QED BY ONLY <1>1, <1>4, <1>5, <2>1, OneWay
<1> QED BY <1>4, <1>5 DEF m, k

\* feed_byte, field by field.
LEMMA FeedFields ==
  ASSUME NEW d, Typed(d), NEW b \in Bytes, NEW e, e = feed_byte(d, b)
  PROVE  /\ d.state = "Type" => e.state = "Seq" /\ e.ty = b.v
         /\ d.state = "Seq" => e.state = "LenLo" /\ e.ty = d.ty /\ e.seq = b.v
         /\ d.state = "LenLo" => e.state = "LenHi" /\ e.ty = d.ty /\ e.seq = d.seq /\ e.len = b.v
         /\ d.state = "LenHi" =>
              /\ e.state \in {"Sof", "Payload", "CrcLo"} /\ e.ty = d.ty /\ e.seq = d.seq
              /\ e.len = d.len + b.v * ByteSpan
         /\ d.state = "Payload" =>
              /\ e.state \in {"Payload", "CrcLo"} /\ e.ty = d.ty /\ e.seq = d.seq /\ e.len = d.len
              /\ Len(e.buf) = Len(d.buf) + 1 /\ e.buf[Len(d.buf) + 1] = b.v
              /\ \A k \in 1 .. Len(d.buf) : e.buf[k] = d.buf[k]
         /\ d.state = "CrcLo" =>
              /\ e.state = "CrcHi" /\ e.ty = d.ty /\ e.seq = d.seq /\ e.len = d.len
              /\ e.buf = d.buf /\ e.lo = b.of
         /\ d.state = "CrcHi" => e.state = "Sof"
<1>1. d \in Decoders /\ b.v \in Nat BY DEF Typed, Bytes
<1>2. CASE d.state = "Type"
  <2>1. e = [d EXCEPT !.ty = b.v, !.state = "Seq"] BY ONLY <1>2, FeedDoes, e = feed_byte(d, b)
  <2> QED BY ONLY <1>1, <1>2, <2>1 DEF Decoders
<1>3. CASE d.state = "Seq"
  <2>1. e = [d EXCEPT !.seq = b.v, !.state = "LenLo"] BY ONLY <1>3, FeedDoes, e = feed_byte(d, b)
  <2> QED BY ONLY <1>1, <1>3, <2>1 DEF Decoders
<1>4. CASE d.state = "LenLo"
  <2>1. e = [d EXCEPT !.len = b.v, !.state = "LenHi"] BY ONLY <1>4, FeedDoes, e = feed_byte(d, b)
  <2> QED BY ONLY <1>1, <1>4, <2>1 DEF Decoders
<1>5. CASE d.state = "LenHi"
  <2> DEFINE n == d.len + b.v * ByteSpan
  <2>1. e = AfterLen([d EXCEPT !.len = n]) BY ONLY <1>5, FeedDoes, e = feed_byte(d, b)
  <2> HIDE DEF n
  <2>2. e = [d EXCEPT !.len = n, !.buf = <<>>,
                      !.state = IF n > MAX_PAYLOAD THEN "Sof" ELSE IF n = 0 THEN "CrcLo" ELSE "Payload"]
    BY ONLY <1>1, <2>1 DEF AfterLen, Decoders
  <2>3. e.state \in {"Sof", "Payload", "CrcLo"} /\ e.ty = d.ty /\ e.seq = d.seq /\ e.len = n
    BY ONLY <1>1, <2>2 DEF Decoders
  <2> QED BY ONLY <1>5, <2>3 DEF n
<1>6. CASE d.state = "Payload"
  <2> DEFINE more == Append(d.buf, b.v)
  <2>1. e = [d EXCEPT !.buf = Append(@, b.v), !.state = IF Len(d.buf) + 1 >= d.len THEN "CrcLo" ELSE @]
    BY ONLY <1>6, FeedDoes, e = feed_byte(d, b)
  <2>2. d.buf \in Seq(Nat) BY ONLY <1>1 DEF Decoders
  <2>3. /\ Len(more) = Len(d.buf) + 1 /\ more[Len(d.buf) + 1] = b.v
        /\ \A k \in 1 .. Len(d.buf) : more[k] = d.buf[k]
    BY ONLY <1>1, <2>2
  <2> HIDE DEF more
  <2>4. /\ e.state \in {"Payload", "CrcLo"} /\ e.ty = d.ty /\ e.seq = d.seq /\ e.len = d.len
        /\ e.buf = more
    BY ONLY <1>1, <1>6, <2>1 DEF Decoders, more
  <2> QED BY ONLY <1>6, <2>3, <2>4
<1>7. CASE d.state = "CrcLo"
  <2>1. e = [d EXCEPT !.lo = b.of, !.state = "CrcHi"] BY ONLY <1>7, FeedDoes, e = feed_byte(d, b)
  <2> QED BY ONLY <1>1, <1>7, <2>1 DEF Decoders
<1>8. CASE d.state = "CrcHi"
  <2>1. e.state = "Sof" BY <1>8, FeedIs
  <2> QED BY ONLY <1>8, <2>1
<1>9. CASE d.state = "Sof" BY ONLY <1>9
<1>10. d.state \in {"Sof", "Type", "Seq", "LenLo", "LenHi", "Payload", "CrcLo", "CrcHi"}
  BY ONLY <1>1 DEF Decoders
<1> QED BY ONLY <1>2, <1>3, <1>4, <1>5, <1>6, <1>7, <1>8, <1>9, <1>10

\* A byte other than the one sent: the decoder gives up, or differs.
LEMMA Changed ==
  ASSUME NEW f \in Sendable, NEW i \in 1 .. Size(f) - 1, NEW d, Typed(d), Synced(d, f, i),
         NEW v \in Byte, v # encode(f)[i + 1].v, NEW e, e = feed_byte(d, Plain(v))
  PROVE  e.state = "Sof" \/ Differs(e, f)
<1> DEFINE L == Len(f.payload)
           b == Plain(v)
<1>1. L \in Nat /\ Size(f) = 7 + L /\ ByteSpan \in Nat \ {0} /\ v \in Nat /\ v < ByteSpan
  BY SendableIs, SpanIs DEF Size, Byte
<1>2. b \in Bytes /\ b.v = v /\ b.of = <<>> BY <1>1 DEF Plain, Bytes, Sources
<1>3. /\ \A k \in 1 .. 5 : encode(f)[k] = Plain(Header(f)[k])
      /\ \A k \in 1 .. L : encode(f)[5 + k] = Plain(f.payload[k])
  BY EncodeIs
<1>4. /\ Header(f)[2] = f.ty /\ Header(f)[3] = f.seq
      /\ Header(f)[4] = L % ByteSpan /\ Header(f)[5] = L \div ByteSpan
  BY DEF Header
<1>5. /\ d.state = "Type" => e.state = "Seq" /\ e.ty = v
      /\ d.state = "Seq" => e.state = "LenLo" /\ e.seq = v
      /\ d.state = "LenLo" => e.state = "LenHi" /\ e.len = v
      /\ d.state = "LenHi" => e.state \in {"Sof", "Payload", "CrcLo"} /\ e.len = d.len + v * ByteSpan
      /\ d.state = "Payload" =>
           /\ e.state \in {"Payload", "CrcLo"}
           /\ Len(e.buf) = Len(d.buf) + 1 /\ e.buf[Len(d.buf) + 1] = v
      /\ d.state = "CrcLo" => e.state = "CrcHi" /\ e.lo = <<>>
      /\ d.state = "CrcHi" => e.state = "Sof"
  <2>1. e = feed_byte(d, b) OBVIOUS
  <2> HIDE DEF b
  <2> QED BY ONLY <1>2, <2>1, Typed(d), FeedFields
<1>6. L = (L % ByteSpan) + (L \div ByteSpan) * ByteSpan
      /\ L % ByteSpan \in Nat /\ L % ByteSpan < ByteSpan /\ L \div ByteSpan \in Nat
      /\ \A r \in Nat, q \in Nat :
           r < ByteSpan /\ r + q * ByteSpan = L => r = L % ByteSpan /\ q = L \div ByteSpan
  BY ONLY <1>1, Halves
<1> DEFINE Sent == encode(f)[i + 1].v
<1>7. v # Sent OBVIOUS
<1>8. /\ i = 1 => Sent = f.ty
      /\ i = 2 => Sent = f.seq
      /\ i = 3 => Sent = L % ByteSpan
      /\ i = 4 => Sent = L \div ByteSpan
      /\ i \in 5 .. 4 + L => Sent = f.payload[i - 4]
  <2> HIDE DEF L
  <2>1. i \in {1, 2, 3, 4} => Sent = Header(f)[i + 1]
    <3>1. i \in {1, 2, 3, 4} => i + 1 \in 1 .. 5 OBVIOUS
    <3> QED BY ONLY <1>3, <3>1 DEF Plain
  <2>2. i \in 5 .. 4 + L => Sent = f.payload[i - 4]
    <3> SUFFICES ASSUME i \in 5 .. 4 + L PROVE Sent = f.payload[i - 4] OBVIOUS
    <3> DEFINE k == i - 4
    <3>1. k \in 1 .. L /\ 5 + k = i + 1 BY ONLY <1>1, i \in 5 .. 4 + L
    <3> HIDE DEF k
    <3>2. encode(f)[i + 1] = Plain(f.payload[k]) BY ONLY <1>3, <3>1
    <3>3. Sent = f.payload[k] BY ONLY <3>2 DEF Plain
    <3> QED BY <3>3 DEF k
  <2>3. i = 1 => Sent = Header(f)[2] BY ONLY <2>1
  <2>4. i = 2 => Sent = Header(f)[3] BY ONLY <2>1
  <2>5. i = 3 => Sent = Header(f)[4] BY ONLY <2>1
  <2>6. i = 4 => Sent = Header(f)[5] BY ONLY <2>1
  <2> QED BY ONLY <1>4, <2>2, <2>3, <2>4, <2>5, <2>6
<1> HIDE DEF L, Sent
<1>9. CASE i = 1
  <2>1. d.state = "Type" BY <1>9 DEF Synced
  <2> QED BY ONLY <1>5, <1>7, <1>8, <1>9, <2>1 DEF Differs
<1>10. CASE i = 2
  <2>1. d.state = "Seq" BY <1>10 DEF Synced
  <2> QED BY ONLY <1>5, <1>7, <1>8, <1>10, <2>1 DEF Differs
<1>11. CASE i = 3
  <2>1. d.state = "LenLo" BY <1>11 DEF Synced
  <2>2. e.state = "LenHi" /\ e.len < ByteSpan /\ e.len # Len(f.payload) % ByteSpan
    BY ONLY <1>1, <1>5, <1>7, <1>8, <1>11, <2>1 DEF L
  <2> QED BY ONLY <2>2 DEF Differs
<1>12. CASE i = 4
  <2>1. d.state = "LenHi" /\ d.len = L % ByteSpan BY <1>12 DEF Synced, L
  <2>2. e.state \in {"Sof", "Payload", "CrcLo"} /\ e.len = (L % ByteSpan) + v * ByteSpan
    BY ONLY <1>5, <2>1
  <2>3. v # L \div ByteSpan BY ONLY <1>7, <1>8, <1>12
  <2>4. e.len # L BY ONLY <1>1, <1>6, <2>2, <2>3
  <2>5. e.len # Len(f.payload) BY ONLY <2>4 DEF L
  <2> QED BY ONLY <2>2, <2>5 DEF Differs
<1>13. CASE i \in 5 .. 4 + L
  <2>1. d.state = "Payload" /\ Len(d.buf) = i - 5 BY <1>13 DEF Synced, L
  <2>2. i - 4 \in 1 .. L /\ (i - 5) + 1 = i - 4 BY ONLY <1>1, <1>13
  <2>3. /\ e.state \in {"Payload", "CrcLo"} /\ Len(e.buf) = i - 4 /\ e.buf[i - 4] = v
    BY ONLY <1>5, <2>1, <2>2
  <2>4. v # f.payload[i - 4] BY ONLY <1>7, <1>8, <1>13
  <2>5. i - 4 \in 1 .. Len(e.buf) /\ i - 4 <= Len(f.payload) BY ONLY <1>1, <2>2, <2>3 DEF L
  <2> QED BY ONLY <2>3, <2>4, <2>5 DEF Differs
<1>14. CASE i = 5 + L
  <2>1. d.state = "CrcLo" BY <1>14 DEF Synced, L
  <2> QED BY ONLY <1>5, <2>1 DEF Differs
<1>15. CASE i = 6 + L
  <2>1. d.state = "CrcHi" BY <1>15 DEF Synced, L
  <2> QED BY ONLY <1>5, <2>1
<1>16. i \in {1, 2, 3, 4} \/ i \in 5 .. 4 + L \/ i = 5 + L \/ i = 6 + L
  BY ONLY <1>1, i \in 1 .. Size(f) - 1
<1> QED BY ONLY <1>9, <1>10, <1>11, <1>12, <1>13, <1>14, <1>15, <1>16

\* Whatever follows, it goes on to differ.
LEMMA DiffersKeeps ==
  ASSUME NEW f \in Sendable, NEW d, Typed(d), Differs(d, f), NEW b \in Bytes,
         NEW e, e = feed_byte(d, b), e.state # "Sof"
  PROVE  Differs(e, f)
<1> DEFINE L == Len(f.payload)
<1>1. L \in Nat /\ d \in Decoders /\ d.len \in Nat /\ b.v \in Nat
  BY SendableIs, Counted DEF Bytes
<1>2. d.state \in {"Sof", "Type", "Seq", "LenLo", "LenHi", "Payload", "CrcLo", "CrcHi"}
  BY <1>1 DEF Decoders
<1>3. /\ d.state = "Seq" => e.state = "LenLo" /\ e.ty = d.ty
      /\ d.state = "LenLo" => e.state = "LenHi" /\ e.ty = d.ty /\ e.seq = d.seq
      /\ d.state = "LenHi" =>
           /\ e.state \in {"Sof", "Payload", "CrcLo"} /\ e.ty = d.ty /\ e.seq = d.seq
           /\ e.len = d.len + b.v * ByteSpan
      /\ d.state = "Payload" =>
           /\ e.state \in {"Payload", "CrcLo"} /\ e.ty = d.ty /\ e.seq = d.seq /\ e.len = d.len
           /\ Len(e.buf) = Len(d.buf) + 1 /\ \A k \in 1 .. Len(d.buf) : e.buf[k] = d.buf[k]
      /\ d.state = "CrcLo" =>
           /\ e.state = "CrcHi" /\ e.ty = d.ty /\ e.seq = d.seq /\ e.len = d.len /\ e.buf = d.buf
      /\ d.state = "CrcHi" => e.state = "Sof"
  BY ONLY Typed(d), b \in Bytes, e = feed_byte(d, b), FeedFields
<1>4. CASE d.state \in {"Sof", "Type"} BY <1>4 DEF Differs
<1>5. CASE d.state = "Seq"
  <2>1. d.ty # f.ty BY <1>5 DEF Differs
  <2> QED BY ONLY <1>3, <1>5, <2>1 DEF Differs
<1>6. CASE d.state = "LenLo"
  <2>1. d.ty # f.ty \/ d.seq # f.seq BY <1>6 DEF Differs
  <2> QED BY ONLY <1>3, <1>6, <2>1 DEF Differs
<1>7. CASE d.state = "LenHi"
  <2>1. d.ty # f.ty \/ d.seq # f.seq \/ (d.len < ByteSpan /\ d.len # L % ByteSpan)
    BY <1>7 DEF Differs
  <2>2. e.state \in {"Payload", "CrcLo"} BY <1>3, <1>7
  <2>3. CASE d.ty # f.ty \/ d.seq # f.seq BY ONLY <1>3, <1>7, <2>2, <2>3 DEF Differs
  <2>4. CASE d.len < ByteSpan /\ d.len # L % ByteSpan
    <3> HIDE DEF L
    <3>1. e.len = d.len + b.v * ByteSpan BY ONLY <1>3, <1>7
    <3>2. e.len # L BY ONLY <1>1, <2>4, <3>1, Halves
    <3>3. e.len # Len(f.payload) BY ONLY <3>2 DEF L
    <3> QED BY ONLY <2>2, <3>3 DEF Differs
  <2> QED BY ONLY <2>1, <2>3, <2>4
<1>8. CASE d.state = "Payload"
  <2>1. \/ d.ty # f.ty \/ d.seq # f.seq \/ d.len # L
        \/ \E k \in 1 .. Len(d.buf) : k <= L /\ d.buf[k] # f.payload[k]
    BY <1>8 DEF Differs
  <2>2. CASE d.ty # f.ty \/ d.seq # f.seq \/ d.len # L BY ONLY <1>3, <1>8, <2>2 DEF Differs
  <2>3. CASE \E k \in 1 .. Len(d.buf) : k <= L /\ d.buf[k] # f.payload[k]
    <3>1. PICK k \in 1 .. Len(d.buf) : k <= L /\ d.buf[k] # f.payload[k] BY <2>3
    <3>2. Len(d.buf) \in Nat BY Counted
    <3>3. k \in 1 .. Len(e.buf) /\ e.buf[k] # f.payload[k] /\ e.state \in {"Payload", "CrcLo"}
      <4>1. k \in 1 .. Len(d.buf) + 1 BY ONLY <3>2, k \in 1 .. Len(d.buf)
      <4> QED BY ONLY <1>3, <1>8, <3>1, <4>1
    <3> QED BY ONLY <3>1, <3>3 DEF Differs
  <2> QED BY ONLY <2>1, <2>2, <2>3
<1>9. CASE d.state = "CrcLo"
  <2>1. \/ d.ty # f.ty \/ d.seq # f.seq \/ d.len # L
        \/ \E k \in 1 .. Len(d.buf) : k <= L /\ d.buf[k] # f.payload[k]
    BY <1>9 DEF Differs
  <2> QED BY ONLY <1>3, <1>9, <2>1 DEF Differs
<1>10. CASE d.state = "CrcHi" BY <1>3, <1>10
<1> QED BY ONLY <1>2, <1>4, <1>5, <1>6, <1>7, <1>8, <1>9, <1>10

-----------------------------------------------------------------------------
(* What is missed.  The bytes a decoder may still swallow, past the end of  *)
(* the frame on the line, are the frames it may still miss.                 *)

Swallowing(m, bytes, F) == \E c \in Nat : 7 * c >= bytes /\ m + c <= F

CountOn(d, f, i, w, m, F) ==
  \/ w /\ Synced(d, f, i) /\ m <= F
  \/ w /\ (i = 0 => d.state # "Sof") /\ Swallowing(m + 1, Appetite(d) - (Size(f) - i), F)
  \/ ~w /\ i >= 1 /\ m + 1 <= F /\ Swallowing(m, Appetite(d) - (Size(f) - i), F)
CountOff(d, m, F) == Swallowing(m, Appetite(d), F)

\* No byte of the frame but the first is a SOF.
NoSof(f) == \A j \in 2 .. Size(f) : encode(f)[j].v # SOF

LEMMA SwallowsIs == Swallows \in Nat /\ Swallows >= 1 /\ 7 * Swallows >= MAX_PAYLOAD + 1
<1> DEFINE a == MAX_PAYLOAD + 7
           q == a \div 7
<1>1. a \in Nat BY SpanIs
<1>2. q \in Nat /\ (a % 7) + q * 7 = a /\ a % 7 \in 0 .. 6 BY ONLY <1>1, SMTT(30)
<1>3. Swallows = q BY DEF Swallows
<1> HIDE DEF q
<1>4. q * 7 >= MAX_PAYLOAD + 1 BY ONLY <1>1, <1>2, SpanIs
<1> QED BY ONLY <1>2, <1>3, <1>4, SpanIs

\* What a byte does to the appetite and the count of what is taken.
LEMMA Bite ==
  ASSUME NEW d, Typed(d), NEW b \in Bytes, NEW e, e = feed_byte(d, b)
  PROVE  /\ Typed(e) /\ Appetite(e) \in Nat /\ Appetite(d) \in Nat /\ Taken(e) \in Nat /\ Taken(d) \in Nat
         /\ d.state # "Sof" => Appetite(e) <= Appetite(d) - 1 /\ Taken(d) >= 1
         /\ d.state # "Sof" /\ e.state # "Sof" => Taken(e) = Taken(d) + 1
         /\ d.state = "Sof" => Appetite(d) = 0
         /\ d.state = "Sof" /\ b.v # SOF => e.state = "Sof"
         /\ d.state = "Sof" /\ e.state # "Sof" => Appetite(e) = MAX_PAYLOAD + 6 /\ Taken(e) = 1
         /\ e.state = "Sof" => Appetite(e) = 0
<1>1. /\ Typed(e)
      /\ d.state # "Sof" =>
           /\ Appetite(e) <= Appetite(d) - 1
           /\ e.state # "Sof" => Taken(e) = Taken(d) + 1
      /\ d.state = "Sof" => (b.v = SOF => e.state = "Type") /\ (b.v # SOF => e.state = "Sof")
  BY FeedIs
<1>2. /\ Appetite(d) \in Nat /\ Taken(d) \in Nat /\ (d.state = "Sof" => Appetite(d) = 0)
      /\ d.state # "Sof" => Taken(d) >= 1
  BY ONLY Typed(d), Counted
<1>3. /\ Appetite(e) \in Nat /\ Taken(e) \in Nat /\ (e.state = "Sof" => Appetite(e) = 0)
      /\ e.state = "Type" => Appetite(e) = MAX_PAYLOAD + 6 /\ Taken(e) = 1
  BY ONLY <1>1, Counted
<1> QED BY ONLY <1>1, <1>2, <1>3

\* A frame begins.
LEMMA CountStart ==
  ASSUME NEW f \in Sendable, NEW d, Typed(d), NEW m \in Nat, NEW F \in Nat, CountOff(d, m, F)
  PROVE  CountOn(d, f, 0, TRUE, m, F)
<1>1. PICK c \in Nat : 7 * c >= Appetite(d) /\ m + c <= F BY DEF CountOff, Swallowing
<1>2. CASE d.state = "Sof"
  <2>1. Size(f) \in Nat /\ Len(f.payload) \in Nat BY SendableIs
  <2>2. Synced(d, f, 0) BY ONLY <1>2, <2>1 DEF Synced
  <2>3. m <= F BY ONLY <1>1, m \in Nat, F \in Nat
  <2> QED BY ONLY <2>2, <2>3 DEF CountOn
<1>3. CASE d.state # "Sof"
  <2>1. Appetite(d) \in Nat /\ Appetite(d) >= 1 /\ Size(f) \in Nat /\ Size(f) >= 7
    BY <1>3, Counted, SendableIs
  <2> DEFINE a == Appetite(d)
             z == Size(f)
  <2> HIDE DEF a, z
  <2>2. a \in Nat /\ a >= 1 /\ z \in Nat /\ z >= 7 /\ 7 * c >= a BY <1>1, <2>1 DEF a, z
  <2>3. c - 1 \in Nat /\ 7 * (c - 1) >= a - (z - 0) /\ (m + 1) + (c - 1) <= F
    BY ONLY <1>1, <2>2, m \in Nat, F \in Nat
  <2>4. Swallowing(m + 1, a - (z - 0), F) BY ONLY <2>3 DEF Swallowing
  <2> QED BY ONLY <1>3, <2>4 DEF CountOn, a, z
<1> QED BY ONLY <1>2, <1>3

\* A byte of it is read.  With the last of a whole frame it is missed, or nothing is.
LEMMA CountRead ==
  ASSUME NEW f \in Sendable, NEW i \in 0 .. Size(f) - 1, NEW d, Typed(d), NoSof(f),
         NEW b, b = encode(f)[i + 1], NEW w \in BOOLEAN, NEW m \in Nat, NEW F \in Nat,
         CountOn(d, f, i, w, m, F), NEW e, e = feed_byte(d, b)
  PROVE  /\ i + 1 < Size(f) => CountOn(e, f, i + 1, w, m, F)
         /\ i + 1 = Size(f) =>
              /\ w => CountOff(e, 0, F)
              /\ w /\ ~(HandsOn(d, b) /\ f.ty \in Opcodes) /\ f.ty \in Opcodes => CountOff(e, m + 1, F)
              /\ CountOff(e, m, F)
<1> DEFINE a == Appetite(d)
           a2 == Appetite(e)
           z == Size(f)
<1>1. b \in Bytes BY RestIs
<1>2. /\ Typed(e) /\ a \in Nat /\ a2 \in Nat
      /\ d.state # "Sof" => a2 <= a - 1
      /\ d.state = "Sof" => a = 0
      /\ d.state = "Sof" /\ b.v # SOF => e.state = "Sof"
      /\ e.state = "Sof" => a2 = 0
  BY ONLY <1>1, Typed(d), e = feed_byte(d, b), Bite
<1>3. z \in Nat /\ z >= 7 BY SendableIs
<1>4. i >= 1 => b.v # SOF
  <2> SUFFICES ASSUME i >= 1 PROVE b.v # SOF OBVIOUS
  <2>1. i + 1 \in 2 .. Size(f) BY <1>3
  <2> QED BY <2>1 DEF NoSof
<1> HIDE DEF a, a2, z
\* Out of step it swallows one byte more of those it may.
<1>5. ASSUME i >= 1 \/ d.state # "Sof" PROVE a2 <= (IF a >= 1 THEN a - 1 ELSE 0)
  BY ONLY <1>2, <1>4, <1>5
<1>6. ASSUME NEW x \in Nat, i >= 1 \/ d.state # "Sof", Swallowing(x, a - (z - i), F)
      PROVE  /\ Swallowing(x, a2 - (z - (i + 1)), F)
             /\ i + 1 = z => \A y \in 0 .. x : Swallowing(y, a2, F)
  <2>1. PICK c \in Nat : 7 * c >= a - (z - i) /\ x + c <= F BY <1>6 DEF Swallowing
  <2>2. a2 <= (IF a >= 1 THEN a - 1 ELSE 0) BY ONLY <1>5, <1>6
  <2>3. z - (i + 1) \in Nat /\ i \in Nat BY ONLY <1>3, i \in 0 .. Size(f) - 1 DEF z
  <2>4. 7 * c >= a2 - (z - (i + 1)) BY ONLY <1>2, <1>3, <2>1, <2>2, <2>3
  <2>5. ASSUME i + 1 = z, NEW y \in 0 .. x PROVE Swallowing(y, a2, F)
    <3>1. 7 * c >= a2 BY ONLY <1>2, <1>3, <2>3, <2>4, <2>5
    <3>2. y + c <= F BY ONLY <2>1, <2>5, x \in Nat, F \in Nat
    <3> QED BY ONLY <3>1, <3>2 DEF Swallowing
  <2> QED BY ONLY <2>1, <2>4, <2>5 DEF Swallowing
<1>7. CASE w /\ Synced(d, f, i) /\ m <= F
  <2>1. /\ i + 1 < Size(f) => Synced(e, f, i + 1)
        /\ i + 1 = Size(f) => d.state = "CrcHi" /\ (HandsOn(d, b) <=> f.ty \in Opcodes)
    BY ONLY <1>7, f \in Sendable, i \in 0 .. Size(f) - 1, Typed(d), b = encode(f)[i + 1],
            e = feed_byte(d, b), InStep
  <2>2. d.state = "CrcHi" => e.state = "Sof" BY ONLY <1>1, Typed(d), e = feed_byte(d, b), FeedFields
  <2>3. i + 1 = Size(f) => a2 = 0 BY ONLY <1>2, <2>1, <2>2
  <2>4. a2 = 0 => CountOff(e, m, F) /\ CountOff(e, 0, F)
    <3> SUFFICES ASSUME a2 = 0 PROVE CountOff(e, m, F) /\ CountOff(e, 0, F) OBVIOUS
    <3>1. 0 \in Nat /\ 7 * 0 >= a2 /\ m + 0 <= F /\ 0 + 0 <= F
      BY ONLY a2 = 0, <1>7, m \in Nat, F \in Nat
    <3> QED BY ONLY <3>1 DEF CountOff, Swallowing, a2
  <2> QED BY ONLY <1>7, <2>1, <2>3, <2>4 DEF CountOn
<1>8. CASE w /\ (i = 0 => d.state # "Sof") /\ Swallowing(m + 1, Appetite(d) - (Size(f) - i), F)
  <2>1. i >= 1 \/ d.state # "Sof" BY ONLY <1>3, <1>8, i \in 0 .. Size(f) - 1 DEF z
  <2>2. m + 1 \in Nat /\ Swallowing(m + 1, a - (z - i), F) BY ONLY <1>8, m \in Nat DEF a, z
  <2>3. /\ Swallowing(m + 1, a2 - (z - (i + 1)), F)
        /\ i + 1 = z => \A y \in 0 .. m + 1 : Swallowing(y, a2, F)
    BY ONLY <1>6, <2>1, <2>2
  <2>4. i + 1 # 0 /\ 0 \in 0 .. m + 1 /\ m \in 0 .. m + 1 /\ m + 1 \in 0 .. m + 1
    BY ONLY <1>3, i \in 0 .. Size(f) - 1, m \in Nat DEF z
  <2>5. i + 1 = z => CountOff(e, 0, F) /\ CountOff(e, m, F) /\ CountOff(e, m + 1, F)
    BY ONLY <2>3, <2>4 DEF CountOff, a2
  <2>6. CountOn(e, f, i + 1, w, m, F) BY ONLY <1>8, <2>3, <2>4 DEF CountOn, a2, z
  <2> QED BY ONLY <2>5, <2>6 DEF z
<1>9. CASE ~w /\ i >= 1 /\ m + 1 <= F /\ Swallowing(m, Appetite(d) - (Size(f) - i), F)
  <2>1. Swallowing(m, a - (z - i), F) BY ONLY <1>9 DEF a, z
  <2>2. /\ Swallowing(m, a2 - (z - (i + 1)), F)
        /\ i + 1 = z => \A y \in 0 .. m : Swallowing(y, a2, F)
    BY ONLY <1>6, <1>9, <2>1, m \in Nat
  <2>3. m \in 0 .. m /\ i + 1 >= 1 BY ONLY <1>3, i \in 0 .. Size(f) - 1, m \in Nat DEF z
  <2>4. i + 1 = z => CountOff(e, m, F) BY ONLY <2>2, <2>3 DEF CountOff, a2
  <2>5. CountOn(e, f, i + 1, w, m, F) BY ONLY <1>9, <2>2, <2>3 DEF CountOn, a2, z
  <2> QED BY ONLY <1>9, <2>4, <2>5 DEF z
<1> QED BY <1>7, <1>8, <1>9 DEF CountOn

\* What a fault may leave: the decoder as it was, one that took another byte, or a new one.
Jolted(d, x, f, i) ==
  \/ x = d
  \/ x = New
  \/ \E v \in Byte : v # encode(f)[i + 1].v /\ x = feed_byte(d, Plain(v))

LEMMA NewIs == Typed(New) /\ New.state = "Sof"
<1>1. <<>> \in Seq(Nat) /\ <<>> \in Sources BY DEF Sources
<1> QED BY <1>1 DEF New, Typed, Decoders

LEMMA PlainIs ==
  ASSUME NEW v \in Byte
  PROVE  Plain(v) \in Bytes /\ Plain(v).v = v
<1>1. v \in Nat BY SpanIs
<1> QED BY <1>1 DEF Plain, Bytes, Sources

LEMMA Jolts ==
  ASSUME NEW f \in Sendable, NEW i \in 0 .. Size(f) - 1, NEW d, Typed(d), NEW x, Jolted(d, x, f, i)
  PROVE  /\ Typed(x) /\ Appetite(x) \in Nat /\ Taken(x) \in Nat
         /\ Appetite(x) <= Appetite(d) \/ (d.state = "Sof" /\ Appetite(x) = MAX_PAYLOAD + 6)
         /\ i = 0 /\ d.state = "Sof" => x.state = "Sof"
         /\ x.state = "Sof" => Appetite(x) = 0
         /\ d.state = "Sof" /\ x.state # "Sof" => Taken(x) = 1
         /\ d.state # "Sof" /\ x.state # "Sof" =>
              Taken(d) >= 1 /\ (x = d \/ Taken(x) = Taken(d) + 1)
<1>1. /\ Appetite(d) \in Nat /\ Taken(d) \in Nat /\ (d.state # "Sof" => Taken(d) >= 1)
      /\ d.state = "Sof" => Appetite(d) = 0
  BY Counted
<1>2. CASE x = d BY ONLY <1>1, <1>2, Typed(d)
<1>3. CASE x = New
  <2>1. Typed(x) /\ x.state = "Sof" BY <1>3, NewIs
  <2>2. Appetite(x) = 0 /\ Taken(x) = 0 BY ONLY <2>1, Counted
  <2> QED BY ONLY <1>1, <2>1, <2>2
<1>4. CASE \E v \in Byte : v # encode(f)[i + 1].v /\ x = feed_byte(d, Plain(v))
  <2>1. PICK v \in Byte : v # encode(f)[i + 1].v /\ x = feed_byte(d, Plain(v)) BY <1>4
  <2> DEFINE b == Plain(v)
  <2>2. b \in Bytes /\ b.v = v /\ x = feed_byte(d, b) BY ONLY <2>1, PlainIs, v \in Byte
  <2> HIDE DEF b
  <2>3. /\ Typed(x) /\ Appetite(x) \in Nat /\ Taken(x) \in Nat
        /\ d.state # "Sof" => Appetite(x) <= Appetite(d) - 1
        /\ d.state # "Sof" /\ x.state # "Sof" => Taken(x) = Taken(d) + 1
        /\ d.state = "Sof" /\ b.v # SOF => x.state = "Sof"
        /\ d.state = "Sof" /\ x.state # "Sof" => Appetite(x) = MAX_PAYLOAD + 6 /\ Taken(x) = 1
        /\ x.state = "Sof" => Appetite(x) = 0
    BY ONLY <2>2, Typed(d), Bite
  <2>4. i = 0 => b.v # SOF
    <3>1. encode(f)[1] = Plain(Header(f)[1])
      <4>1. 1 \in 1 .. 5 OBVIOUS
      <4> QED BY <4>1, EncodeIs
    <3>2. Header(f)[1] = SOF BY DEF Header
    <3>3. encode(f)[1].v = SOF BY ONLY <3>1, <3>2 DEF Plain
    <3>4. i = 0 => encode(f)[i + 1].v = SOF BY ONLY <3>3
    <3> QED BY ONLY <2>1, <2>2, <3>4
  <2> QED BY ONLY <1>1, <2>3, <2>4
<1> QED BY ONLY <1>2, <1>3, <1>4, Jolted(d, x, f, i) DEF Jolted

\* A fault hits the frame: what it may cost is added.
LEMMA CountFault ==
  ASSUME NEW f \in Sendable, NEW i \in 0 .. Size(f) - 1, NEW d, Typed(d),
         NEW w \in BOOLEAN, NEW m \in Nat, NEW F \in Nat, CountOn(d, f, i, w, m, F),
         NEW x, Jolted(d, x, f, i), NEW G \in Nat, G = F + Swallows
  PROVE  /\ i + 1 < Size(f) => CountOn(x, f, i + 1, FALSE, m, G)
         /\ i + 1 = Size(f) => CountOff(x, m, G)
<1> DEFINE a == Appetite(d)
           a2 == Appetite(x)
           z == Size(f)
           S == Swallows
           M == MAX_PAYLOAD
<1>1. /\ a2 \in Nat /\ (a2 <= a \/ (d.state = "Sof" /\ a2 = M + 6))
      /\ i = 0 /\ d.state = "Sof" => x.state = "Sof"
      /\ x.state = "Sof" => a2 = 0
  BY Jolts
<1>2. z \in Nat /\ z >= 7 /\ M \in Nat /\ i \in 0 .. z - 1 BY SendableIs, SpanIs
<1>3. a \in Nat BY Counted
<1>4. S \in Nat /\ S >= 1 /\ 7 * S >= M + 1 /\ G = F + S BY SwallowsIs
<1> HIDE DEF a, a2, z, S, M
<1>5. m + 1 <= G /\ Swallowing(m, a2 - (z - (i + 1)), G)
  <2>1. CASE w /\ Synced(d, f, i) /\ m <= F
    <3>1. a2 - (z - (i + 1)) <= M + 1
      <4>1. CASE i = 0
        <5>1. d.state = "Sof" BY ONLY <2>1, <4>1 DEF Synced
        <5> QED BY ONLY <1>1, <1>2, <4>1, <5>1
      <4>2. CASE i # 0
        <5>1. i \in 1 .. Size(f) - 1 BY ONLY <1>2, <4>2 DEF z
        <5>2. d.state # "Sof" /\ Appetite(d) - (Size(f) - i) <= MAX_PAYLOAD
          BY ONLY <2>1, <5>1, f \in Sendable, Typed(d), SyncedFits
        <5>3. a - (z - i) <= M /\ a2 <= a BY ONLY <1>1, <5>2 DEF a, z, M
        <5> QED BY ONLY <1>1, <1>2, <1>3, <5>3
      <4> QED BY ONLY <4>1, <4>2
    <3>2. 7 * S >= a2 - (z - (i + 1)) BY ONLY <1>1, <1>2, <1>4, <3>1
    <3>3. m + S <= G /\ m + 1 <= G BY ONLY <1>4, <2>1, m \in Nat, F \in Nat
    <3> QED BY ONLY <1>4, <3>2, <3>3 DEF Swallowing
  <2>2. ASSUME NEW c \in Nat, 7 * c >= a - (z - i), m + c <= F
        PROVE  \E n \in Nat : 7 * n >= a2 - (z - (i + 1)) /\ n <= c + S + 1
    <3>1. CASE a2 <= a
      <4>1. c + 1 \in Nat /\ 7 * (c + 1) >= a2 - (z - (i + 1)) /\ c + 1 <= c + S + 1
        BY ONLY <1>1, <1>2, <1>3, <1>4, <2>2, <3>1
      <4> QED BY ONLY <4>1
    <3>2. CASE a2 = M + 6
      <4>1. S + 1 \in Nat /\ 7 * (S + 1) >= a2 - (z - (i + 1)) /\ S + 1 <= c + S + 1
        BY ONLY <1>1, <1>2, <1>4, <2>2, <3>2
      <4> QED BY ONLY <4>1
    <3> QED BY ONLY <1>1, <3>1, <3>2
  <2>3. CASE w /\ (i = 0 => d.state # "Sof") /\ Swallowing(m + 1, Appetite(d) - (Size(f) - i), F)
    <3>1. PICK c \in Nat : 7 * c >= a - (z - i) /\ (m + 1) + c <= F BY <2>3 DEF Swallowing, a, z
    <3>2. m + c <= F BY ONLY <3>1, m \in Nat, F \in Nat
    <3>3. PICK n \in Nat : 7 * n >= a2 - (z - (i + 1)) /\ n <= c + S + 1 BY ONLY <2>2, <3>1, <3>2
    <3>4. m + n <= G /\ m + 1 <= G BY ONLY <1>4, <3>1, <3>3, m \in Nat, F \in Nat
    <3> QED BY ONLY <3>3, <3>4 DEF Swallowing
  <2>4. CASE ~w /\ i >= 1 /\ m + 1 <= F /\ Swallowing(m, Appetite(d) - (Size(f) - i), F)
    <3>1. PICK c \in Nat : 7 * c >= a - (z - i) /\ m + c <= F BY <2>4 DEF Swallowing, a, z
    <3>2. CASE a2 <= a
      <4>1. c + 1 \in Nat /\ 7 * (c + 1) >= a2 - (z - (i + 1)) BY ONLY <1>1, <1>2, <1>3, <3>1, <3>2
      <4>2. m + (c + 1) <= G /\ m + 1 <= G BY ONLY <1>4, <2>4, <3>1, m \in Nat, F \in Nat
      <4> QED BY ONLY <4>1, <4>2 DEF Swallowing
    <3>3. CASE a2 = M + 6
      <4>1. S + 1 \in Nat /\ 7 * (S + 1) >= a2 - (z - (i + 1)) BY ONLY <1>1, <1>2, <1>4, <3>3
      <4>2. m + (S + 1) <= G /\ m + 1 <= G BY ONLY <1>4, <2>4, m \in Nat, F \in Nat
      <4> QED BY ONLY <4>1, <4>2 DEF Swallowing
    <3> QED BY ONLY <1>1, <3>2, <3>3
  <2> QED BY <2>1, <2>3, <2>4 DEF CountOn
<1>6. i + 1 >= 1 BY ONLY <1>2
<1>7. i + 1 = z => Swallowing(m, a2, G)
  <2> SUFFICES ASSUME i + 1 = z PROVE Swallowing(m, a2, G) OBVIOUS
  <2>1. a2 - (z - (i + 1)) = a2 BY ONLY <1>1, <1>2, i + 1 = z
  <2> QED BY ONLY <1>5, <2>1
<1> QED BY ONLY <1>5, <1>6, <1>7 DEF CountOn, CountOff, a2, z

-----------------------------------------------------------------------------
(* Where it is.  After k faults a decoder out of step may be n bytes ahead  *)
(* of the line, or behind; only a third fault can bring it back to the very *)
(* place with bytes that are not the frame's.                               *)

Lead(n, k) == k >= 3 \/ (n >= 2 /\ k >= 1) \/ (n = 1 /\ k >= 2)
Late(n, i, k) == n <= i - 1 /\ (k >= 2 \/ n = i - 1)

AlignOn(d, f, i, w, k) ==
  \/ w /\ Synced(d, f, i)
  \/ /\ w /\ k >= 1
     /\ i = 0 => d.state # "Sof"
     /\ d.state # "Sof" => Lead(Taken(d) - i, k)
  \/ /\ ~w /\ k >= 1 /\ i >= 1
     /\ d.state # "Sof" =>
          Lead(Taken(d) - i, k) \/ Late(Taken(d), i, k) \/ (Taken(d) = i /\ Differs(d, f))
AlignOff(d, k) == d.state # "Sof" => Lead(Taken(d), k)

LEMMA AlignStart ==
  ASSUME NEW f \in Sendable, NEW d, Typed(d), NEW k \in Nat, AlignOff(d, k)
  PROVE  AlignOn(d, f, 0, TRUE, k)
<1>1. CASE d.state = "Sof"
  <2>1. Len(f.payload) \in Nat BY SendableIs
  <2>2. Synced(d, f, 0) BY ONLY <1>1, <2>1 DEF Synced
  <2> QED BY ONLY <2>2 DEF AlignOn
<1>2. CASE d.state # "Sof"
  <2>1. Lead(Taken(d), k) /\ Taken(d) \in Nat BY <1>2, Counted DEF AlignOff
  <2>2. Taken(d) - 0 = Taken(d) BY ONLY <2>1
  <2>3. k >= 1 BY ONLY <2>1, k \in Nat DEF Lead
  <2> QED BY ONLY <1>2, <2>1, <2>2, <2>3 DEF AlignOn
<1> QED BY ONLY <1>1, <1>2

LEMMA AlignRead ==
  ASSUME NEW f \in Sendable, NEW i \in 0 .. Size(f) - 1, NEW d, Typed(d), NoSof(f),
         NEW b, b = encode(f)[i + 1], NEW w \in BOOLEAN, NEW k \in Nat,
         AlignOn(d, f, i, w, k), NEW e, e = feed_byte(d, b)
  PROVE  /\ i + 1 < Size(f) => AlignOn(e, f, i + 1, w, k)
         /\ i + 1 = Size(f) => AlignOff(e, k)
         /\ HandsOn(d, b) /\ ~w => k > 2
<1>1. b \in Bytes BY RestIs
<1>2. /\ Typed(e) /\ Taken(e) \in Nat /\ Taken(d) \in Nat
      /\ d.state # "Sof" => Taken(d) >= 1
      /\ d.state # "Sof" /\ e.state # "Sof" => Taken(e) = Taken(d) + 1
      /\ d.state = "Sof" /\ b.v # SOF => e.state = "Sof"
  BY ONLY <1>1, Typed(d), e = feed_byte(d, b), Bite
<1>3. Size(f) \in Nat /\ Size(f) >= 7 BY SendableIs
<1>4. i >= 1 => b.v # SOF
  <2> SUFFICES ASSUME i >= 1 PROVE b.v # SOF OBVIOUS
  <2>1. i + 1 \in 2 .. Size(f) BY <1>3
  <2> QED BY <2>1 DEF NoSof
<1>5. i \in Nat /\ i + 1 >= 1 /\ i + 1 # 0 BY ONLY <1>3, i \in 0 .. Size(f) - 1
\* At the end of a frame, a decoder that is within one has two bytes of it.
<1>6. ASSUME k >= 1, i >= 1 \/ d.state # "Sof" PROVE AlignOff(e, k)
  <2> SUFFICES ASSUME e.state # "Sof" PROVE Lead(Taken(e), k) BY DEF AlignOff
  <2>1. d.state # "Sof" BY ONLY <1>2, <1>4, <1>6, e.state # "Sof"
  <2>2. Taken(e) >= 2 BY ONLY <1>2, <2>1, e.state # "Sof"
  <2> QED BY ONLY <1>6, <2>2 DEF Lead
<1>7. CASE w /\ Synced(d, f, i)
  <2>1. /\ i + 1 < Size(f) => Synced(e, f, i + 1)
        /\ i + 1 = Size(f) => d.state = "CrcHi" /\ (HandsOn(d, b) <=> f.ty \in Opcodes)
    BY ONLY <1>7, f \in Sendable, i \in 0 .. Size(f) - 1, Typed(d), b = encode(f)[i + 1],
            e = feed_byte(d, b), InStep
  <2>2. d.state = "CrcHi" => e.state = "Sof" BY ONLY <1>1, Typed(d), e = feed_byte(d, b), FeedFields
  <2> QED BY ONLY <1>7, <2>1, <2>2 DEF AlignOn, AlignOff
<1>8. CASE /\ w /\ k >= 1
           /\ i = 0 => d.state # "Sof"
           /\ d.state # "Sof" => Lead(Taken(d) - i, k)
  <2>1. i >= 1 \/ d.state # "Sof" BY ONLY <1>5, <1>8
  <2>2. AlignOff(e, k) BY ONLY <1>6, <1>8, <2>1
  <2>3. e.state # "Sof" => Lead(Taken(e) - (i + 1), k)
    <3> SUFFICES ASSUME e.state # "Sof" PROVE Lead(Taken(e) - (i + 1), k) OBVIOUS
    <3>1. d.state # "Sof" BY ONLY <1>2, <1>4, <2>1, e.state # "Sof"
    <3>2. Taken(e) - (i + 1) = Taken(d) - i BY ONLY <1>2, <1>5, <3>1, e.state # "Sof"
    <3> QED BY ONLY <1>8, <3>1, <3>2
  <2> QED BY ONLY <1>5, <1>8, <2>2, <2>3 DEF AlignOn
<1>9. CASE /\ ~w /\ k >= 1 /\ i >= 1
           /\ d.state # "Sof" =>
                Lead(Taken(d) - i, k) \/ Late(Taken(d), i, k) \/ (Taken(d) = i /\ Differs(d, f))
  <2>1. AlignOff(e, k) BY ONLY <1>6, <1>9
  <2>2. ASSUME e.state # "Sof"
        PROVE  \/ Lead(Taken(e) - (i + 1), k) \/ Late(Taken(e), i + 1, k)
               \/ (Taken(e) = i + 1 /\ Differs(e, f))
    <3>1. d.state # "Sof" BY ONLY <1>2, <1>4, <1>9, <2>2
    <3>2. Taken(e) = Taken(d) + 1 BY ONLY <1>2, <2>2, <3>1
    <3>3. CASE Lead(Taken(d) - i, k)
      <4>1. Taken(e) - (i + 1) = Taken(d) - i BY ONLY <1>2, <1>5, <3>2
      <4> QED BY ONLY <3>3, <4>1
    <3>4. CASE Late(Taken(d), i, k) BY ONLY <1>2, <1>5, <3>2, <3>4 DEF Late
    <3>5. CASE Taken(d) = i /\ Differs(d, f)
      <4>1. Differs(e, f)
        BY ONLY <1>1, <2>2, <3>5, f \in Sendable, Typed(d), e = feed_byte(d, b), DiffersKeeps
      <4> QED BY ONLY <3>2, <3>5, <4>1
    <3> QED BY ONLY <1>9, <3>1, <3>3, <3>4, <3>5
  <2>3. HandsOn(d, b) => k > 2
    <3> SUFFICES ASSUME HandsOn(d, b) PROVE k > 2 OBVIOUS
    <3>1. d.state # "Sof" BY DEF HandsOn
    <3>2. ~Differs(d, f) /\ Taken(d) = i BY DiffersEnds
    <3>3. Lead(Taken(d) - i, k) \/ Late(Taken(d), i, k) BY ONLY <1>9, <3>1, <3>2
    <3> QED BY ONLY <1>2, <1>5, <3>2, <3>3, k \in Nat DEF Lead, Late
  <2> QED BY ONLY <1>5, <1>9, <2>1, <2>2, <2>3 DEF AlignOn
<1> QED BY <1>7, <1>8, <1>9 DEF AlignOn

LEMMA AlignFault ==
  ASSUME NEW f \in Sendable, NEW i \in 0 .. Size(f) - 1, NEW d, Typed(d),
         NEW w \in BOOLEAN, NEW k \in Nat, AlignOn(d, f, i, w, k), NEW x, Jolted(d, x, f, i)
  PROVE  /\ i + 1 < Size(f) => AlignOn(x, f, i + 1, FALSE, k + 1)
         /\ i + 1 = Size(f) => AlignOff(x, k + 1)
<1>1. /\ Typed(x) /\ Taken(x) \in Nat
      /\ i = 0 /\ d.state = "Sof" => x.state = "Sof"
      /\ d.state = "Sof" /\ x.state # "Sof" => Taken(x) = 1
      /\ d.state # "Sof" /\ x.state # "Sof" =>
           Taken(d) >= 1 /\ (x = d \/ Taken(x) = Taken(d) + 1)
  BY Jolts
<1>2. Size(f) \in Nat /\ Size(f) >= 7 /\ i \in Nat /\ Taken(d) \in Nat BY SendableIs, Counted
<1>3. k + 1 >= 1 /\ i + 1 >= 1 BY ONLY <1>2, k \in Nat
<1> DEFINE Near == \/ Lead(Taken(x) - (i + 1), k + 1) \/ Late(Taken(x), i + 1, k + 1)
                   \/ (Taken(x) = i + 1 /\ Differs(x, f))
           Far == i + 1 = Size(f) => Lead(Taken(x), k + 1)
<1> SUFFICES ASSUME x.state # "Sof" PROVE Near /\ Far
  <2>1. (x.state # "Sof" => Near) => AlignOn(x, f, i + 1, FALSE, k + 1) BY ONLY <1>3 DEF AlignOn
  <2>2. (x.state # "Sof" => Far) => (i + 1 = Size(f) => AlignOff(x, k + 1)) BY ONLY DEF AlignOff
  <2> HIDE DEF Near, Far
  <2> QED BY <2>1, <2>2
<1>4. CASE w /\ Synced(d, f, i)
  <2>1. i # 0
    <3>1. i = 0 => d.state = "Sof" BY ONLY <1>4 DEF Synced
    <3> QED BY ONLY <1>1, <3>1, x.state # "Sof"
  <2>2. i \in 1 .. Size(f) - 1 BY ONLY <1>2, <2>1, i \in 0 .. Size(f) - 1
  <2>3. d.state # "Sof" /\ Taken(d) = i BY ONLY <1>4, <2>2, f \in Sendable, Typed(d), SyncedFits
  <2>4. i + 1 = Size(f) => Lead(Taken(x), k + 1)
    <3>1. i + 1 = Size(f) => Taken(x) >= 2
      BY ONLY <1>1, <1>2, <2>3, x.state # "Sof"
    <3> QED BY ONLY <1>3, <3>1 DEF Lead
  <2>5. CASE x = d
    <3>1. Late(Taken(x), i + 1, k + 1) BY ONLY <1>2, <2>3, <2>5, k \in Nat DEF Late
    <3> QED BY ONLY <2>4, <3>1
  <2>6. CASE x = New BY ONLY <2>6, NewIs, x.state # "Sof"
  <2>7. CASE \E v \in Byte : v # encode(f)[i + 1].v /\ x = feed_byte(d, Plain(v))
    <3>1. PICK v \in Byte : v # encode(f)[i + 1].v /\ x = feed_byte(d, Plain(v)) BY <2>7
    <3>2. Differs(x, f)
      BY ONLY <1>4, <2>2, <3>1, f \in Sendable, Typed(d), x.state # "Sof", v \in Byte, Changed
    <3>3. Taken(x) = i + 1
      <4>1. Plain(v) \in Bytes BY ONLY PlainIs, v \in Byte
      <4>2. Taken(x) = Taken(d) + 1
        BY ONLY <2>3, <3>1, <4>1, Typed(d), x.state # "Sof", Bite
      <4> QED BY ONLY <2>3, <4>2
    <3> QED BY ONLY <2>4, <3>2, <3>3
  <2> QED BY <2>5, <2>6, <2>7 DEF Jolted
<1>5. CASE k >= 1 /\ d.state = "Sof"
  <2>1. i >= 1 /\ Taken(x) = 1 BY ONLY <1>1, <1>2, <1>5, x.state # "Sof"
  <2>2. Late(Taken(x), i + 1, k + 1) BY ONLY <1>2, <1>5, <2>1, k \in Nat DEF Late
  <2>3. Lead(Taken(x), k + 1) BY ONLY <1>5, <2>1, k \in Nat DEF Lead
  <2> QED BY ONLY <2>2, <2>3
<1>6. CASE /\ k >= 1 /\ d.state # "Sof"
           /\ Lead(Taken(d) - i, k) \/ Late(Taken(d), i, k) \/ (Taken(d) = i /\ Differs(d, f))
  <2>1. Taken(d) >= 1 /\ (x = d \/ Taken(x) = Taken(d) + 1) BY ONLY <1>1, <1>6, x.state # "Sof"
  <2>2. Taken(x) = Taken(d) \/ Taken(x) = Taken(d) + 1 BY ONLY <2>1
  <2>3. Lead(Taken(x), k + 1)
    BY ONLY <1>1, <1>2, <1>6, <2>1, <2>2, k \in Nat DEF Lead
  <2>4. CASE Lead(Taken(d) - i, k)
    <3>1. Lead(Taken(x) - (i + 1), k + 1)
      BY ONLY <1>1, <1>2, <2>2, <2>4, k \in Nat DEF Lead
    <3> QED BY ONLY <2>3, <3>1
  <2>5. CASE Late(Taken(d), i, k)
    <3>1. Late(Taken(x), i + 1, k + 1)
      BY ONLY <1>1, <1>2, <1>6, <2>2, <2>5, k \in Nat DEF Late
    <3> QED BY ONLY <2>3, <3>1
  <2>6. CASE Taken(d) = i /\ Differs(d, f)
    <3>1. CASE Taken(x) = Taken(d)
      <4>1. Late(Taken(x), i + 1, k + 1) BY ONLY <1>2, <1>6, <2>6, <3>1, k \in Nat DEF Late
      <4> QED BY ONLY <2>3, <4>1
    <3>2. CASE Taken(x) # Taken(d)
      <4>1. x # d BY ONLY <3>2
      <4>2. x # New BY ONLY NewIs, x.state # "Sof"
      <4>3. PICK v \in Byte : x = feed_byte(d, Plain(v)) BY <4>1, <4>2 DEF Jolted
      <4>4. Plain(v) \in Bytes BY ONLY PlainIs, v \in Byte
      <4>5. Differs(x, f)
        BY ONLY <2>6, <4>3, <4>4, f \in Sendable, Typed(d), x.state # "Sof", DiffersKeeps
      <4>6. Taken(x) = i + 1 BY ONLY <2>2, <2>6, <3>2
      <4> QED BY ONLY <2>3, <4>5, <4>6
    <3> QED BY ONLY <3>1, <3>2
  <2> QED BY ONLY <1>6, <2>4, <2>5, <2>6
<1> QED BY <1>4, <1>5, <1>6 DEF AlignOn

-----------------------------------------------------------------------------
(* The invariant.                                                           *)

Frames == {NoFrame} \cup {Carried(f) : f \in Sendable}
Cost == faults * Swallows

WireTyped ==
  /\ Typed(decoder) /\ missed \in Nat /\ faults \in Nat /\ hidden \in BOOLEAN
  /\ sending \in [frame : Frames, whole : BOOLEAN]

\* Between two frames, and i bytes into f.
Between == ~hidden => CountOff(decoder, missed, Cost) /\ AlignOff(decoder, faults)
Within(f, i) ==
  /\ line = Rest(f, i) /\ sending.frame = Carried(f)
  /\ ~hidden => /\ NoSof(f)
                /\ CountOn(decoder, f, i, sending.whole, missed, Cost)
                /\ AlignOn(decoder, f, i, sending.whole, faults)

OnLine ==
  \/ line = <<>> /\ Between
  \/ \E f \in Sendable : \E i \in 0 .. Size(f) - 1 : Within(f, i)

WireInv == WireTyped /\ OnLine /\ NoFalseFrame

LEMMA CostIs ==
  ASSUME NEW k \in Nat
  PROVE  k * Swallows \in Nat /\ (k + 1) * Swallows = k * Swallows + Swallows
<1>1. Swallows \in Nat BY SwallowsIs
<1> DEFINE S == Swallows
<1>2. S \in Nat BY <1>1
<1> HIDE DEF S
<1>3. k * S \in Nat /\ (k + 1) * S = k * S + S BY ONLY <1>2, k \in Nat, SMTT(30)
<1> QED BY <1>3 DEF S

LEMMA SentIs ==
  ASSUME NEW f \in Sendable
  PROVE  encode(f) = Rest(f, 0) /\ 0 \in 0 .. Size(f) - 1 /\ (HasHiddenSof(f) <=> ~NoSof(f))
<1>1. encode(f) \in Seq(Bytes) /\ Len(encode(f)) = Size(f) BY EncodeIs
<1>2. Size(f) \in Nat /\ Size(f) >= 7 BY SendableIs
<1>3. 0 \in 0 .. Size(f) - 1 /\ 0 \in 0 .. Size(f) /\ Size(f) - 0 = Size(f) BY ONLY <1>2
<1>4. /\ Rest(f, 0) \in Seq(Bytes) /\ Len(Rest(f, 0)) = Size(f) - 0
      /\ \A k \in 1 .. Size(f) - 0 : Rest(f, 0)[k] = encode(f)[0 + k]
  BY <1>3, RestFits
<1>5. \A k \in 1 .. Size(f) : Rest(f, 0)[k] = encode(f)[k]
  <2> SUFFICES ASSUME NEW k \in 1 .. Size(f) PROVE Rest(f, 0)[k] = encode(f)[k] OBVIOUS
  <2>1. 0 + k = k /\ k \in 1 .. Size(f) - 0 BY ONLY <1>2, <1>3, k \in 1 .. Size(f)
  <2> QED BY ONLY <1>4, <2>1
<1>6. encode(f) = Rest(f, 0) BY ONLY <1>1, <1>3, <1>4, <1>5, SeqEqual
<1>7. HasHiddenSof(f) <=> ~NoSof(f) BY ONLY <1>1 DEF HasHiddenSof, NoSof
<1> QED BY ONLY <1>3, <1>6, <1>7

LEMMA BetweenIs ==
  ASSUME NEW d, Typed(d), d.state = "Sof", NEW F \in Nat, NEW k
  PROVE  CountOff(d, 0, F) /\ AlignOff(d, k)
<1>1. Appetite(d) = 0 BY Counted
<1>2. 0 \in Nat /\ 7 * 0 >= 0 /\ 0 + 0 <= F OBVIOUS
<1>3. Swallowing(0, 0, F) BY ONLY <1>2 DEF Swallowing
<1> QED BY <1>1, <1>3 DEF CountOff, AlignOff

LEMMA InitHolds == WireInit => WireInv
<1> SUFFICES ASSUME WireInit PROVE WireInv OBVIOUS
<1>1. Typed(decoder) /\ decoder.state = "Sof" BY NewIs DEF WireInit
<1>2. faults = 0 /\ missed = 0 /\ hidden = FALSE /\ line = <<>> /\ handed = NoFrame /\ sending = Idling
  BY DEF WireInit
<1>3. Cost \in Nat BY <1>2, CostIs DEF Cost
<1>4. Between BY ONLY <1>1, <1>2, <1>3, BetweenIs DEF Between
<1>5. sending \in [frame : Frames, whole : BOOLEAN] BY <1>2 DEF Idling, Frames
<1> QED BY <1>1, <1>2, <1>4, <1>5 DEF WireInv, WireTyped, OnLine, NoFalseFrame

LEMMA SendKeeps == ASSUME WireInv, NEW f \in Sendable, SendFrame(f) PROVE WireInv'
<1>1. /\ line = <<>> /\ line' = encode(f) /\ sending' = [frame |-> Carried(f), whole |-> TRUE]
      /\ hidden' = (hidden \/ HasHiddenSof(f)) /\ handed' = NoFrame
      /\ decoder' = decoder /\ missed' = missed /\ faults' = faults
  BY DEF SendFrame, LineIdle
<1>2. Typed(decoder) /\ missed \in Nat /\ faults \in Nat /\ hidden \in BOOLEAN
  BY DEF WireInv, WireTyped
<1>3. encode(f) = Rest(f, 0) /\ 0 \in 0 .. Size(f) - 1 /\ (HasHiddenSof(f) <=> ~NoSof(f)) BY SentIs
<1>4. Between
  <2>1. \A g \in Sendable : \A i \in 0 .. Size(g) - 1 : ~Within(g, i)
    <3> SUFFICES ASSUME NEW g \in Sendable, NEW i \in 0 .. Size(g) - 1, Within(g, i) PROVE FALSE
      OBVIOUS
    <3>1. line = Rest(g, i) BY DEF Within
    <3>2. Rest(g, i) # <<>> BY ONLY RestIs, g \in Sendable, i \in 0 .. Size(g) - 1
    <3> QED BY ONLY <1>1, <3>1, <3>2
  <2> QED BY <2>1 DEF WireInv, OnLine
<1>5. Cost \in Nat /\ Cost' = Cost BY <1>1, <1>2, CostIs DEF Cost
<1>6. ASSUME ~hidden'
      PROVE  /\ NoSof(f)
             /\ CountOn(decoder, f, 0, TRUE, missed, Cost)
             /\ AlignOn(decoder, f, 0, TRUE, faults)
  <2>1. ~hidden /\ NoSof(f) BY ONLY <1>1, <1>3, <1>6
  <2>2. CountOff(decoder, missed, Cost) /\ AlignOff(decoder, faults) BY ONLY <1>4, <2>1 DEF Between
  <2>3. CountOn(decoder, f, 0, TRUE, missed, Cost)
    BY ONLY <1>2, <1>5, <2>2, f \in Sendable, CountStart
  <2>4. AlignOn(decoder, f, 0, TRUE, faults) BY ONLY <1>2, <2>2, f \in Sendable, AlignStart
  <2> QED BY ONLY <2>1, <2>3, <2>4
<1>7. Within(f, 0)'
  <2>1. line' = Rest(f, 0) /\ sending'.frame = Carried(f) /\ sending'.whole = TRUE BY ONLY <1>1, <1>3
  <2> QED BY ONLY <1>1, <1>5, <1>6, <2>1 DEF Within, Rest, NoSof
<1>8. OnLine' BY <1>3, <1>7 DEF OnLine
<1>9. WireTyped' BY ONLY <1>1, <1>2, f \in Sendable DEF WireTyped, Frames
<1>10. NoFalseFrame' BY <1>1 DEF NoFalseFrame
<1> QED BY <1>8, <1>9, <1>10 DEF WireInv

\* Bytes come of one frame at a time.
LEMMA FrameOf ==
  ASSUME WireInv, line # <<>>
  PROVE  \E f \in Sendable : \E i \in 0 .. Size(f) - 1 : Within(f, i)
BY DEF WireInv, OnLine

LEMMA ReadKeeps == ASSUME WireInv, ByteRead PROVE WireInv'
<1>1. PICK f \in Sendable : \E i \in 0 .. Size(f) - 1 : Within(f, i) BY FrameOf DEF ByteRead
<1>2. PICK i \in 0 .. Size(f) - 1 : Within(f, i) BY <1>1
<1> DEFINE b == encode(f)[i + 1]
           w == sending.whole
           got == HandsOn(decoder, b)
           last == i + 1 = Size(f)
<1>3. /\ line = Rest(f, i) /\ sending.frame = Carried(f)
      /\ ~hidden => /\ NoSof(f) /\ CountOn(decoder, f, i, w, missed, Cost)
                    /\ AlignOn(decoder, f, i, w, faults)
  BY <1>2 DEF Within
<1>4. /\ Typed(decoder) /\ missed \in Nat /\ faults \in Nat /\ hidden \in BOOLEAN /\ w \in BOOLEAN
      /\ sending \in [frame : Frames, whole : BOOLEAN] /\ Cost \in Nat
  <2>1. Typed(decoder) /\ missed \in Nat /\ faults \in Nat /\ hidden \in BOOLEAN
        /\ sending \in [frame : Frames, whole : BOOLEAN]
    BY DEF WireInv, WireTyped
  <2>2. Cost \in Nat BY ONLY <2>1, CostIs DEF Cost
  <2> QED BY <2>1, <2>2
<1>5. Size(f) \in Nat /\ Size(f) >= 7 BY SendableIs
<1>6. /\ Head(line) = b /\ b \in Bytes /\ Tail(line) = Rest(f, i + 1)
      /\ Rest(f, i + 1) = <<>> <=> last
      /\ Len(line) = 1 <=> last
  <2>1. /\ Head(Rest(f, i)) = b /\ b \in Bytes /\ Tail(Rest(f, i)) = Rest(f, i + 1)
        /\ Rest(f, i + 1) = <<>> <=> last
    BY RestIs, RestEnds
  <2>2. Len(Rest(f, i)) = Size(f) - i
    <3>1. i \in 0 .. Size(f) BY <1>5
    <3> QED BY ONLY <3>1, f \in Sendable, RestFits
  <2>3. Len(Rest(f, i)) = 1 <=> last BY ONLY <1>5, <2>2, i \in 0 .. Size(f) - 1
  <2> QED BY ONLY <1>3, <2>1, <2>3
<1>7. /\ decoder' = feed_byte(decoder, b) /\ line' = Rest(f, i + 1)
      /\ sending' = sending /\ faults' = faults /\ Cost' = Cost
      /\ handed' = IF got THEN [ty |-> decoder.ty, seq |-> decoder.seq, payload |-> decoder.buf] ELSE NoFrame
      /\ IF last /\ w /\ f.ty \in Opcodes
         THEN missed' = (IF got THEN 0 ELSE missed + 1) /\ hidden' = (hidden /\ ~got)
         ELSE missed' = missed /\ hidden' = hidden
  <2>1. sending.frame.ty = f.ty BY ONLY <1>3 DEF Carried
  <2> HIDE DEF b, last
  <2>2. Feed(b) /\ line' = Rest(f, i + 1) /\ sending' = sending /\ faults' = faults
    BY ONLY <1>6, ByteRead DEF ByteRead
  <2>3. Cost' = Cost BY ONLY <2>2 DEF Cost
  <2> QED BY ONLY <1>6, <2>1, <2>2, <2>3 DEF Feed
<1> HIDE DEF b, last
<1>8. Typed(decoder') /\ (decoder.state = "CrcHi" => decoder'.state = "Sof")
  <2>1. Typed(feed_byte(decoder, b))
        /\ (decoder.state = "CrcHi" => feed_byte(decoder, b).state = "Sof")
    BY ONLY <1>4, <1>6, FeedIs
  <2> QED BY ONLY <1>7, <2>1
<1>9. got => /\ last /\ decoder.state = "CrcHi" /\ f.ty \in Opcodes
             /\ [ty |-> decoder.ty, seq |-> decoder.seq, payload |-> decoder.buf] = Carried(f)
  <2> SUFFICES ASSUME got
               PROVE  /\ last /\ decoder.state = "CrcHi" /\ f.ty \in Opcodes
                      /\ [ty |-> decoder.ty, seq |-> decoder.seq, payload |-> decoder.buf] = Carried(f)
    OBVIOUS
  <2>1. /\ i + 1 = Size(f) /\ decoder.state = "CrcHi" /\ f.ty \in Opcodes
        /\ decoder.ty = f.ty /\ decoder.seq = f.seq /\ decoder.buf = f.payload
    <3>1. b = encode(f)[i + 1] BY DEF b
    <3>2. HandsOn(decoder, b) OBVIOUS
    <3> QED BY ONLY <3>1, <3>2, f \in Sendable, i \in 0 .. Size(f) - 1, HandedIs
  <2> QED BY ONLY <2>1 DEF Carried, last
<1>10. ~hidden =>
         /\ ~last => CountOn(decoder', f, i + 1, w, missed, Cost) /\ AlignOn(decoder', f, i + 1, w, faults)
         /\ last =>
              /\ w /\ ~got /\ f.ty \in Opcodes => CountOff(decoder', missed + 1, Cost)
              /\ CountOff(decoder', missed, Cost)
              /\ AlignOff(decoder', faults)
         /\ got /\ ~w => faults > 2
  <2> SUFFICES ASSUME ~hidden
               PROVE  /\ ~last => /\ CountOn(decoder', f, i + 1, w, missed, Cost)
                                  /\ AlignOn(decoder', f, i + 1, w, faults)
                      /\ last =>
                           /\ w /\ ~got /\ f.ty \in Opcodes => CountOff(decoder', missed + 1, Cost)
                           /\ CountOff(decoder', missed, Cost)
                           /\ AlignOff(decoder', faults)
                      /\ got /\ ~w => faults > 2
    OBVIOUS
  <2> HIDE DEF w
  <2>1. b = encode(f)[i + 1] BY DEF b
  <2>2. NoSof(f) /\ CountOn(decoder, f, i, w, missed, Cost) /\ AlignOn(decoder, f, i, w, faults)
    BY ONLY <1>3, ~hidden
  <2> DEFINE e == feed_byte(decoder, b)
             F == Cost
  <2>3. F \in Nat /\ CountOn(decoder, f, i, w, missed, F) BY ONLY <1>4, <2>2
  <2>4. e = feed_byte(decoder, b) /\ decoder' = e BY ONLY <1>7
  <2> HIDE DEF e, F
  <2>5. /\ i + 1 < Size(f) => CountOn(e, f, i + 1, w, missed, F)
        /\ i + 1 = Size(f) =>
             /\ w /\ ~(HandsOn(decoder, b) /\ f.ty \in Opcodes) /\ f.ty \in Opcodes =>
                  CountOff(e, missed + 1, F)
             /\ CountOff(e, missed, F)
    BY ONLY <1>4, <2>1, <2>2, <2>3, <2>4, f \in Sendable, i \in 0 .. Size(f) - 1, CountRead
  <2>6. /\ i + 1 < Size(f) => AlignOn(e, f, i + 1, w, faults)
        /\ i + 1 = Size(f) => AlignOff(e, faults)
        /\ HandsOn(decoder, b) /\ ~w => faults > 2
    BY ONLY <1>4, <2>1, <2>2, <2>4, f \in Sendable, i \in 0 .. Size(f) - 1, AlignRead
  <2>7. ~last => i + 1 < Size(f) BY ONLY <1>5, i \in 0 .. Size(f) - 1 DEF last
  <2> QED BY ONLY <2>4, <2>5, <2>6, <2>7 DEF last, F
<1>11. WireTyped'
  <2>1. missed' \in {0, missed, missed + 1} /\ hidden' \in {hidden, FALSE}
    <3>1. CASE last /\ w /\ f.ty \in Opcodes
      <4>1. missed' = (IF got THEN 0 ELSE missed + 1) /\ hidden' = (hidden /\ ~got)
        BY ONLY <1>7, <3>1
      <4>2. (hidden /\ ~got) \in {hidden, FALSE} BY ONLY <1>4
      <4> QED BY ONLY <4>1, <4>2
    <3>2. CASE ~(last /\ w /\ f.ty \in Opcodes) BY ONLY <1>7, <3>2
    <3> QED BY ONLY <3>1, <3>2
  <2>2. missed' \in Nat /\ hidden' \in BOOLEAN
    <3>1. missed \in Nat /\ hidden \in BOOLEAN BY ONLY <1>4
    <3>2. missed' = 0 \/ missed' = missed \/ missed' = missed + 1 BY ONLY <2>1
    <3>3. hidden' = hidden \/ hidden' = FALSE BY ONLY <2>1
    <3>4. missed' \in Nat BY ONLY <3>1, <3>2
    <3>5. hidden' \in BOOLEAN BY ONLY <3>1, <3>3
    <3> QED BY ONLY <3>4, <3>5
  <2> QED BY ONLY <1>4, <1>7, <1>8, <2>2 DEF WireTyped
<1>12. CASE ~last
  <2>1. i + 1 \in 0 .. Size(f) - 1 BY ONLY <1>5, <1>12, i \in 0 .. Size(f) - 1 DEF last
  <2>2. missed' = missed /\ hidden' = hidden BY ONLY <1>7, <1>12
  <2>3. Within(f, i + 1)'
    BY ONLY <1>3, <1>7, <1>10, <1>12, <2>2 DEF Within, Rest, NoSof
  <2>4. OnLine' BY <2>1, <2>3 DEF OnLine
  <2>5. handed' = NoFrame BY ONLY <1>7, <1>9, <1>12
  <2>6. NoFalseFrame' BY ONLY <2>5 DEF NoFalseFrame
  <2> QED BY <1>11, <2>4, <2>6 DEF WireInv
<1>13. CASE last
  <2>1. line' = <<>> BY ONLY <1>6, <1>7, <1>13
  <2>2. Between'
    <3> SUFFICES ASSUME ~hidden' PROVE CountOff(decoder', missed', Cost') /\ AlignOff(decoder', faults')
      BY DEF Between
    <3>1. CASE w /\ f.ty \in Opcodes /\ got
      <4>1. missed' = 0 /\ decoder'.state = "Sof" BY ONLY <1>7, <1>8, <1>9, <1>13, <3>1
      <4>2. CountOff(decoder', 0, Cost) /\ AlignOff(decoder', faults)
        BY ONLY <1>4, <1>8, <4>1, BetweenIs
      <4> QED BY ONLY <1>7, <4>1, <4>2
    <3>2. CASE w /\ f.ty \in Opcodes /\ ~got
      <4>1. missed' = missed + 1 /\ ~hidden BY ONLY <1>7, <1>13, <3>2, ~hidden'
      <4> QED BY ONLY <1>7, <1>10, <1>13, <3>2, <4>1
    <3>3. CASE ~(w /\ f.ty \in Opcodes)
      <4>1. missed' = missed /\ ~hidden BY ONLY <1>7, <3>3, ~hidden'
      <4> QED BY ONLY <1>7, <1>10, <1>13, <4>1
    <3> QED BY ONLY <3>1, <3>2, <3>3
  <2>3. OnLine' BY ONLY <2>1, <2>2 DEF OnLine
  <2>4. NoFalseFrame'
    <3>1. CASE ~got
      <4>1. handed' = NoFrame BY ONLY <1>7, <3>1
      <4> QED BY ONLY <4>1 DEF NoFalseFrame
    <3>2. CASE got
      <4>1. handed' = Carried(f) /\ sending'.frame = handed' BY ONLY <1>3, <1>7, <1>9, <3>2
      <4>2. sending'.whole \/ hidden' \/ faults' > 2
        <5>1. CASE w BY ONLY <1>7, <5>1 DEF w
        <5>2. CASE ~w
          <6>1. hidden' = hidden BY ONLY <1>7, <5>2
          <6> QED BY ONLY <1>4, <1>7, <1>10, <3>2, <5>2, <6>1
        <5> QED BY ONLY <5>1, <5>2
      <4> QED BY ONLY <2>1, <4>1, <4>2 DEF NoFalseFrame
    <3> QED BY ONLY <3>1, <3>2
  <2> QED BY <1>11, <2>3, <2>4 DEF WireInv
<1> QED BY ONLY <1>12, <1>13

LEMMA FaultKeeps ==
  ASSUME WireInv, LoseByte \/ Swapped \/ \E v \in Byte : ChangeByte(v)
  PROVE  WireInv'
<1>1. Fault /\ line # <<>> BY DEF LoseByte, Swapped, ChangeByte, Fault
<1>2. PICK f \in Sendable : \E i \in 0 .. Size(f) - 1 : Within(f, i) BY <1>1, FrameOf
<1>3. PICK i \in 0 .. Size(f) - 1 : Within(f, i) BY <1>2
<1> DEFINE w == sending.whole
           last == i + 1 = Size(f)
<1>4. /\ line = Rest(f, i) /\ sending.frame = Carried(f)
      /\ ~hidden => /\ NoSof(f) /\ CountOn(decoder, f, i, w, missed, Cost)
                    /\ AlignOn(decoder, f, i, w, faults)
  BY <1>3 DEF Within
<1>5. /\ Typed(decoder) /\ missed \in Nat /\ faults \in Nat /\ hidden \in BOOLEAN /\ w \in BOOLEAN
      /\ sending \in [frame : Frames, whole : BOOLEAN]
  BY DEF WireInv, WireTyped
<1>6. Size(f) \in Nat /\ Size(f) >= 7 BY SendableIs
<1>7. /\ Head(line) = encode(f)[i + 1] /\ Tail(line) = Rest(f, i + 1)
      /\ Rest(f, i + 1) = <<>> <=> last
  <2>1. /\ Head(Rest(f, i)) = encode(f)[i + 1] /\ Tail(Rest(f, i)) = Rest(f, i + 1)
        /\ Rest(f, i + 1) = <<>> <=> last
    BY RestIs, RestEnds
  <2> QED BY ONLY <1>4, <2>1
<1>8. Jolted(decoder, decoder', f, i) /\ handed' = NoFrame /\ missed' = missed
  <2>1. CASE LoseByte BY <2>1 DEF LoseByte, Jolted
  <2>2. CASE Swapped BY <2>2 DEF Swapped, Jolted
  <2>3. CASE \E v \in Byte : ChangeByte(v)
    <3>1. PICK v \in Byte : ChangeByte(v) BY <2>3
    <3>2. v # encode(f)[i + 1].v /\ decoder' = feed_byte(decoder, Plain(v)) /\ missed' = missed
      BY ONLY <1>7, <3>1 DEF ChangeByte
    <3>3. handed' = NoFrame BY ONLY <3>1, PlainNever DEF ChangeByte
    <3>4. Jolted(decoder, decoder', f, i) BY ONLY <3>2, v \in Byte DEF Jolted
    <3> QED BY ONLY <3>2, <3>3, <3>4
  <2> QED BY <2>1, <2>2, <2>3
<1>9. /\ faults' = faults + 1 /\ sending' = [sending EXCEPT !.whole = FALSE]
      /\ line' = Rest(f, i + 1) /\ hidden' = hidden
  BY ONLY <1>1, <1>7 DEF Fault
<1>10. sending'.frame = Carried(f) /\ sending'.whole = FALSE
       /\ sending' \in [frame : Frames, whole : BOOLEAN]
  BY ONLY <1>4, <1>5, <1>9
<1> HIDE DEF w, last
<1>11. Cost \in Nat /\ Cost' \in Nat /\ Cost' = Cost + Swallows
  <2>1. faults * Swallows \in Nat /\ (faults + 1) * Swallows = faults * Swallows + Swallows
    BY ONLY <1>5, CostIs
  <2>2. faults + 1 \in Nat BY ONLY <1>5
  <2>3. (faults + 1) * Swallows \in Nat BY ONLY <2>2, CostIs
  <2>4. Cost' = (faults + 1) * Swallows BY ONLY <1>9 DEF Cost, Swallows
  <2> QED BY ONLY <2>1, <2>3, <2>4 DEF Cost
<1>12. Typed(decoder') BY ONLY <1>5, <1>8, f \in Sendable, i \in 0 .. Size(f) - 1, Jolts
<1>13. ~hidden =>
         /\ ~last => /\ CountOn(decoder', f, i + 1, FALSE, missed, Cost')
                     /\ AlignOn(decoder', f, i + 1, FALSE, faults + 1)
         /\ last => CountOff(decoder', missed, Cost') /\ AlignOff(decoder', faults + 1)
  <2> SUFFICES ASSUME ~hidden
               PROVE  /\ ~last => /\ CountOn(decoder', f, i + 1, FALSE, missed, Cost')
                                  /\ AlignOn(decoder', f, i + 1, FALSE, faults + 1)
                      /\ last => CountOff(decoder', missed, Cost') /\ AlignOff(decoder', faults + 1)
    OBVIOUS
  <2>1. CountOn(decoder, f, i, w, missed, Cost) /\ AlignOn(decoder, f, i, w, faults)
    BY ONLY <1>4, ~hidden
  <2>2. /\ i + 1 < Size(f) => CountOn(decoder', f, i + 1, FALSE, missed, Cost')
        /\ i + 1 = Size(f) => CountOff(decoder', missed, Cost')
    BY ONLY <1>5, <1>8, <1>11, <2>1, f \in Sendable, i \in 0 .. Size(f) - 1, CountFault
  <2>3. /\ i + 1 < Size(f) => AlignOn(decoder', f, i + 1, FALSE, faults + 1)
        /\ i + 1 = Size(f) => AlignOff(decoder', faults + 1)
    BY ONLY <1>5, <1>8, <2>1, f \in Sendable, i \in 0 .. Size(f) - 1, AlignFault
  <2>4. ~last => i + 1 < Size(f) BY ONLY <1>6, i \in 0 .. Size(f) - 1 DEF last
  <2> QED BY ONLY <2>2, <2>3, <2>4 DEF last
<1>14. WireTyped' BY ONLY <1>5, <1>8, <1>9, <1>10, <1>12 DEF WireTyped
<1>15. NoFalseFrame' BY ONLY <1>8 DEF NoFalseFrame
<1>16. OnLine'
  <2>1. CASE ~last
    <3>1. i + 1 \in 0 .. Size(f) - 1 BY ONLY <1>6, <2>1, i \in 0 .. Size(f) - 1 DEF last
    <3>2. Within(f, i + 1)'
      BY ONLY <1>4, <1>8, <1>9, <1>10, <1>13, <2>1 DEF Within, Rest, NoSof
    <3> QED BY <3>1, <3>2 DEF OnLine
  <2>2. CASE last
    <3>1. line' = <<>> BY ONLY <1>7, <1>9, <2>2
    <3>2. Between' BY ONLY <1>8, <1>9, <1>13, <2>2 DEF Between
    <3> QED BY ONLY <3>1, <3>2 DEF OnLine
  <2> QED BY ONLY <2>1, <2>2
<1> QED BY <1>14, <1>15, <1>16 DEF WireInv

LEMMA StepKeeps == WireInv /\ [WireNext]_wireVars => WireInv'
<1> SUFFICES ASSUME WireInv, [WireNext]_wireVars PROVE WireInv' OBVIOUS
<1>1. CASE ByteRead BY <1>1, ReadKeeps
<1>2. CASE LoseByte \/ Swapped \/ \E v \in Byte : ChangeByte(v) BY <1>2, FaultKeeps
<1>3. CASE \E f \in Sendable : SendFrame(f) BY <1>3, SendKeeps
<1>4. CASE UNCHANGED wireVars
  <2>1. UNCHANGED <<line, sending, decoder, handed, missed, hidden, sent, faults>>
    BY <1>4 DEF wireVars
  <2>2. WireTyped' BY ONLY <2>1, WireInv DEF WireInv, WireTyped
  <2>3. OnLine' BY ONLY <2>1, WireInv DEF WireInv, OnLine, Within, Between, Cost, Rest, NoSof
  <2>4. NoFalseFrame' BY ONLY <2>1, WireInv DEF WireInv, NoFalseFrame
  <2> QED BY <2>2, <2>3, <2>4 DEF WireInv
<1> QED BY <1>1, <1>2, <1>3, <1>4 DEF WireNext

LEMMA Invariance == WireSpec => []WireInv
BY InitHolds, StepKeeps, PTL DEF WireSpec

\* Nothing is handed on that was not just sent, whole but for what a SOF inside a frame or a
\* third fault may do, for any frames, lengths and faults (frame.rs:167, finish_frame).
THEOREM FramesCorrect == WireSpec => []NoFalseFrame
<1>1. WireInv => NoFalseFrame BY DEF WireInv
<1> QED BY <1>1, Invariance, PTL

\* Each fault costs at most the unharmed frames that fit a payload and a CRC, for any frames
\* and limits (frame.rs:112).
THEOREM LossCorrect == WireSpec => []LossIsBounded
<1>1. WireInv => LossIsBounded
  <2> SUFFICES ASSUME WireInv, ~hidden PROVE missed <= faults * Swallows BY DEF LossIsBounded
  <2>1. missed \in Nat /\ Cost \in Nat
    <3>1. missed \in Nat /\ faults \in Nat BY DEF WireInv, WireTyped
    <3> QED BY <3>1, CostIs DEF Cost
  <2>2. ASSUME NEW x \in Nat, NEW bytes, Swallowing(x, bytes, Cost) PROVE x <= Cost
    <3>1. PICK c \in Nat : x + c <= Cost BY <2>2 DEF Swallowing
    <3> QED BY ONLY <2>1, <2>2, <3>1
  <2>3. CASE Between
    <3>1. Swallowing(missed, Appetite(decoder), Cost) BY <2>3 DEF Between, CountOff
    <3> QED BY <2>1, <2>2, <3>1 DEF Cost
  <2>4. CASE \E f \in Sendable : \E i \in 0 .. Size(f) - 1 : Within(f, i)
    <3>0. PICK f \in Sendable : \E i \in 0 .. Size(f) - 1 : Within(f, i) BY <2>4
    <3>1. PICK i \in 0 .. Size(f) - 1 : Within(f, i) BY <3>0
    <3>2. CountOn(decoder, f, i, sending.whole, missed, Cost) BY <3>1 DEF Within
    <3> DEFINE x == Appetite(decoder) - (Size(f) - i)
    <3> HIDE DEF x
    <3>3. missed <= Cost \/ Swallowing(missed + 1, x, Cost) \/ Swallowing(missed, x, Cost)
      BY ONLY <3>2 DEF CountOn, x
    <3>4. missed + 1 \in Nat BY ONLY <2>1
    <3>5. missed <= Cost \/ missed + 1 <= Cost BY <2>1, <2>2, <3>3, <3>4
    <3>6. missed <= Cost BY ONLY <2>1, <3>5
    <3> QED BY <3>6 DEF Cost
  <2> QED BY <2>3, <2>4 DEF WireInv, OnLine
<1> QED BY <1>1, Invariance, PTL

=============================================================================
