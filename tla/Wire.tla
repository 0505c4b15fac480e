-------------------------------- MODULE Wire --------------------------------
(***************************************************************************)
(* Frames on the serial line (src/src/protocol/frame.rs).  The box's       *)
(* frames come to a decoder byte by byte; a byte may be lost or changed,   *)
(* and a reconnect puts a new decoder on a line in the middle of a frame.  *)
(* A checksum byte knows what it was computed from: two frames never have  *)
(* the same one.                                                           *)
(***************************************************************************)
EXTENDS Naturals, Sequences, SequencesExt

CONSTANTS
  Sendable,     \* what the box may send: type, SEQ, payload, and the bytes its CRC comes to
  Opcodes,      \* the types that FrameType::try_from takes
  ByteSpan,     \* 256
  MAX_PAYLOAD,
  MaxSent,      \* bounds: how many frames are sent,
  MaxFaults     \* and how many faults the line has

SOF == ByteSpan - 1
Byte == 0..ByteSpan - 1

ASSUME WireAssumption == ByteSpan \in Nat \ {0} /\ {MAX_PAYLOAD, MaxSent, MaxFaults} \subseteq Nat
ASSUME SendableAssumption ==
  \A f \in Sendable : f.ty \in Byte /\ f.seq \in Byte /\ f.crc \in Byte \X Byte
                    /\ f.payload \in Seq(Byte) /\ Len(f.payload) <= MAX_PAYLOAD

VARIABLES
  line,      \* the bytes of the frame being sent that are still to come
  sending,   \* that frame, and whether a fault hit it
  decoder,   \* FrameDecoder
  handed,    \* did the decoder hand on a frame with the last byte, and which
  missed,    \* how many unharmed frames in a row it missed
  hidden,    \* whether one of those, or the one before, has a SOF past its first byte
  sent, faults

wireVars == <<line, sending, decoder, handed, missed, hidden, sent, faults>>

NoFrame == [ty |-> 0, seq |-> 0, payload |-> <<>>]
Idling == [frame |-> NoFrame, whole |-> FALSE]

-----------------------------------------------------------------------------
(* encode.                                                                  *)

Plain(v) == [v |-> v, of |-> <<>>]
Sum(v, input, half) == [v |-> v, of |-> <<input, half>>]

CrcInput(ty, seq, len, payload) == <<ty, seq, len, payload>>

encode(f) ==
  LET len == Len(f.payload)
      input == CrcInput(f.ty, f.seq, len, f.payload)
  IN [i \in 1..5 |-> Plain(<<SOF, f.ty, f.seq, len % ByteSpan, len \div ByteSpan>>[i])]
       \o [i \in 1..len |-> Plain(f.payload[i])]
       \o <<Sum(f.crc[1], input, "lo"), Sum(f.crc[2], input, "hi")>>

Carried(f) == [ty |-> f.ty, seq |-> f.seq, payload |-> f.payload]
HasHiddenSof(f) == \E i \in 2..Len(encode(f)) : encode(f)[i].v = SOF

-----------------------------------------------------------------------------
(* FrameDecoder.  finish_frame hands a frame on if the CRC holds over what  *)
(* was buffered and the type is known.                                      *)

New == [state |-> "Sof", ty |-> 0, seq |-> 0, len |-> 0, buf |-> <<>>, lo |-> <<>>]

HoldsLax(d, hi) ==
  LET input == CrcInput(d.ty, d.seq, Len(d.buf), d.buf)
  IN hi.of = <<input, "hi">>

Holds(d, hi) ==
  LET input == CrcInput(d.ty, d.seq, Len(d.buf), d.buf)
  IN d.lo = <<input, "lo">> /\ hi.of = <<input, "hi">>

HandsOn(d, b) == d.state = "CrcHi" /\ Holds(d, b) /\ d.ty \in Opcodes

AfterLenUnchecked(d) ==
  [d EXCEPT !.buf = <<>>, !.state = IF d.len = 0 THEN "CrcLo" ELSE "Payload"]

AfterLen(d) ==
  [d EXCEPT !.buf = <<>>,
            !.state = IF d.len > MAX_PAYLOAD THEN "Sof"
                      ELSE IF d.len = 0 THEN "CrcLo" ELSE "Payload"]

feed_byte(d, b) ==
  CASE d.state = "Sof" -> [d EXCEPT !.state = IF b.v = SOF THEN "Type" ELSE "Sof"]
    [] d.state = "Type" -> [d EXCEPT !.ty = b.v, !.state = "Seq"]
    [] d.state = "Seq" -> [d EXCEPT !.seq = b.v, !.state = "LenLo"]
    [] d.state = "LenLo" -> [d EXCEPT !.len = b.v, !.state = "LenHi"]
    [] d.state = "LenHi" -> AfterLen([d EXCEPT !.len = @ + b.v * ByteSpan])
    [] d.state = "Payload" ->
         [d EXCEPT !.buf = Append(@, b.v), !.state = IF Len(d.buf) + 1 >= d.len THEN "CrcLo" ELSE @]
    [] d.state = "CrcLo" -> [d EXCEPT !.lo = b.of, !.state = "CrcHi"]
    [] d.state = "CrcHi" -> [d EXCEPT !.state = "Sof", !.buf = IF HandsOn(d, b) THEN <<>> ELSE @]

-----------------------------------------------------------------------------
(* The line.                                                                *)

LineIdle == line = <<>>

SendFrame(f) ==
  /\ LineIdle /\ sent < MaxSent
  /\ line' = encode(f)
  /\ sending' = [frame |-> Carried(f), whole |-> TRUE]
  /\ hidden' = (hidden \/ HasHiddenSof(f))
  /\ handed' = NoFrame
  /\ sent' = sent + 1
  /\ UNCHANGED <<decoder, missed, faults>>

\* A byte comes to the decoder.  With the last of a frame that came whole it is settled
\* whether that was missed.
Feed(b) ==
  LET got == HandsOn(decoder, b)
  IN /\ decoder' = feed_byte(decoder, b)
     /\ handed' = IF got THEN [ty |-> decoder.ty, seq |-> decoder.seq, payload |-> decoder.buf] ELSE NoFrame
     /\ IF Len(line) = 1 /\ sending.whole /\ sending.frame.ty \in Opcodes
        THEN /\ missed' = IF got THEN 0 ELSE missed + 1
             /\ hidden' = (hidden /\ ~got)
        ELSE UNCHANGED <<missed, hidden>>

ByteRead ==
  /\ line # <<>>
  /\ Feed(Head(line))
  /\ line' = Tail(line)
  /\ UNCHANGED <<sending, sent, faults>>

Fault ==
  /\ faults < MaxFaults /\ line # <<>>
  /\ faults' = faults + 1
  /\ sending' = [sending EXCEPT !.whole = FALSE]
  /\ line' = Tail(line)
  /\ UNCHANGED <<hidden, sent>>

LoseByte == Fault /\ handed' = NoFrame /\ UNCHANGED <<decoder, missed>>

ChangeByte(v) ==
  /\ Fault /\ v # Head(line).v
  /\ decoder' = feed_byte(decoder, Plain(v))
  /\ handed' = IF HandsOn(decoder, Plain(v))
               THEN [ty |-> decoder.ty, seq |-> decoder.seq, payload |-> decoder.buf] ELSE NoFrame
  /\ UNCHANGED missed

\* reader_loop starts a new decoder when the transport was swapped.
Swapped == Fault /\ decoder' = New /\ handed' = NoFrame /\ UNCHANGED missed

WireInit ==
  /\ line = <<>> /\ sending = Idling /\ decoder = New /\ handed = NoFrame
  /\ missed = 0 /\ hidden = FALSE /\ sent = 0 /\ faults = 0

WireNext ==
  \/ ByteRead \/ LoseByte \/ Swapped
  \/ \E f \in Sendable : SendFrame(f)
  \/ \E v \in Byte : ChangeByte(v)

WireSpec == WireInit /\ [][WireNext]_wireVars

-----------------------------------------------------------------------------
\* Whatever the line does, a frame is handed on only when the box has just sent it
\* (frame.rs:167, finish_frame): no leftover of an earlier frame changes what is in it.  It came
\* whole, but for a SOF left over from an earlier frame that stands in for its own: that takes
\* a frame with a SOF inside, or a third fault that makes one.
NoFalseFrame ==
  handed # NoFrame =>
    line = <<>> /\ sending.frame = handed /\ (sending.whole \/ hidden \/ faults > 2)

\* After a fault the decoder finds its place again (frame.rs:112): what a wrong length can make
\* it swallow is a payload and a CRC, so that many bytes of unharmed frames, and no more, are
\* missed - as long as none of these frames has a SOF where none belongs.
Swallows == (MAX_PAYLOAD + 7) \div 7
LossIsBounded == ~hidden => missed <= faults * Swallows

=============================================================================
