----------------------------- MODULE ClipUpload -----------------------------
(***************************************************************************)
(* Loading a clip into the box's ring (src/src/device/clip.rs,             *)
(* src/src/types/clip.rs).  Threads that share one ClipHandle append the   *)
(* entries of a builder, cut into frames at entry boundaries and numbered  *)
(* with the handle's own SEQ, or clear the ring.  A send may fail.  A byte *)
(* string is its length and the set of its flags.                          *)
(***************************************************************************)
EXTENDS Naturals, Sequences

CONSTANTS
  Threads,
  Clips,        \* the builders at hand: sequences of entries
  PayloadMax,   \* MAX_PAYLOAD, CLIP_ENTRY_MAX
  EdgesMax,     \* CLIP_EDGES_MAX
  RawMax,       \* CLIP_RAW_MAX
  SeqSpan,       \* 256: the handle's SEQ is one byte
  MaxUploads,   \* bounds on the appends and clears, and
  MaxFailed     \* on the sends that fail

ASSUME SizeAssumption == {PayloadMax, EdgesMax, RawMax, SeqSpan} \subseteq Nat \ {0}
ASSUME GapAssumption == 3 <= PayloadMax  \* a gap fits a frame
ASSUME UploadAssumption == {MaxUploads, MaxFailed} \subseteq Nat

VARIABLES
  ring,      \* the box: the entries it holds, with the append each is of
  heard,     \* the box: the SEQ of the append it took last, if any
  gap,       \* the box: an append's SEQ did not follow
  cloneUp,   \* the box: a clone is up
  loaded,    \* DesiredState: the box holds a clip
  guard,     \* reassert_guard: who holds it
  next,      \* ClipHandle.seq
  up,        \* what each thread is doing
  budget     \* how much of the bounds is used up

uploadVars == <<ring, heard, gap, cloneUp, loaded, guard, next, up, budget>>

None == "none"
ASSUME NoneAssumption == None \notin Threads
NoSeq == SeqSpan   \* no append was taken yet

-----------------------------------------------------------------------------
(* ClipFrame and its bytes.  An entry is a gap of so many frames or, with   *)
(* gap = 0, a frame: whether it moves, scrolls and pans, how many edges it  *)
(* has, its raw reports and its transfers.                                  *)

Idle == [gap |-> 0, xy |-> FALSE, wheel |-> FALSE, pan |-> FALSE, edges |-> 0,
         raw |-> <<>>, transfers |-> <<>>]

\* What the builder's methods can put together.
Entries ==
  [gap : Nat, xy : BOOLEAN, wheel : BOOLEAN, pan : BOOLEAN, edges : Nat,
   raw : Seq([dir : {"IN", "OUT", "BOTH"}, len : Nat]),
   transfers : Seq([in : BOOLEAN, length : Nat, out : Nat])]
ASSUME ClipsAssumption == Clips \subseteq Seq(Entries)

Total(s) ==
  LET sum[n \in 0..Len(s)] == IF n = 0 THEN 0 ELSE sum[n - 1] + s[n]
  IN sum[Len(s)]
Count(b) == IF b THEN 1 ELSE 0
RawLen(f) == Total([i \in DOMAIN f.raw |-> 4 + f.raw[i].len])
XferLen(f) == Total([i \in DOMAIN f.transfers |-> 9 + f.transfers[i].out])

byte_len(f) ==
  IF f.gap # 0 THEN 3
  ELSE LET motion == 2 * Count(f.wheel) + 2 * Count(f.pan)
           items == Count(f.edges # 0) * (1 + 4 * f.edges)
                      + RawLen(f) + Count(f.raw # <<>>)
                      + XferLen(f) + Count(f.transfers # <<>>)
       IN 1 + 4 * Count(f.xy \/ motion + items = 0) + motion + items

\* What a frame carries.
Carries(f) ==
  {flag \in {"XY", "WHEEL", "PAN", "EDGES", "RAW", "XFER"} :
     CASE flag = "XY" -> f.xy       [] flag = "WHEEL" -> f.wheel
       [] flag = "PAN" -> f.pan     [] flag = "EDGES" -> f.edges # 0
       [] flag = "RAW" -> f.raw # <<>>  [] flag = "XFER" -> f.transfers # <<>>}

Flags(f) == IF Carries(f) = {} THEN {"XY"} ELSE Carries(f)

FieldLen(f, flag) ==
  IF flag \notin Flags(f) THEN 0
  ELSE CASE flag = "XY" -> 4
         [] flag \in {"WHEEL", "PAN"} -> 2
         [] flag = "EDGES" -> 1 + 4 * f.edges
         [] flag = "RAW" -> 1 + RawLen(f)
         [] flag = "XFER" -> 1 + XferLen(f)

\* An entry's bytes: their tag and length, and what they are of.
Encoded(e) ==
  IF e.gap # 0 THEN [tag |-> {}, len |-> 3, of |-> e]
  ELSE [tag |-> Flags(e),
        len |-> 1 + FieldLen(e, "XY") + FieldLen(e, "WHEEL") + FieldLen(e, "PAN")
                  + FieldLen(e, "EDGES") + FieldLen(e, "RAW") + FieldLen(e, "XFER"),
        of |-> e]

\* encode_frame refuses a frame the box would not take.
Refused(e) ==
  /\ e.gap = 0
  /\ \/ e.edges > EdgesMax
     \/ Len(e.raw) > RawMax
     \/ \E i \in DOMAIN e.raw : e.raw[i].dir \notin {"IN", "OUT"}
     \/ \E i \in DOMAIN e.transfers :
          e.transfers[i].out # IF e.transfers[i].in THEN 0 ELSE e.transfers[i].length
     \/ byte_len(e) > PayloadMax

LenOf(piece) == Total([i \in DOMAIN piece |-> piece[i].len])

\* A piece that has no room for an entry is closed before it.
Place(acc, bytes) ==
  IF acc.cur # <<>> /\ LenOf(acc.cur) + bytes.len > PayloadMax
  THEN [out |-> Append(acc.out, acc.cur), cur |-> <<bytes>>]
  ELSE [acc EXCEPT !.cur = Append(@, bytes)]

encode_chunks(clip) ==
  LET upTo[n \in 0..Len(clip)] ==
        IF n = 0 THEN [out |-> <<>>, cur |-> <<>>] ELSE Place(upTo[n - 1], Encoded(clip[n]))
      end == upTo[Len(clip)]
  IN IF end.cur = <<>> THEN end.out ELSE Append(end.out, end.cur)

-----------------------------------------------------------------------------
(* The box.                                                                 *)

\* What the box reads: a zero tag is a gap.
ReadEntry(bytes) == IF bytes.tag = {} THEN "gap" ELSE "frame"

\* A CLIP_APPEND, taken while a clone is up.
TakesAppend(n, seq, piece) ==
  IF cloneUp
  THEN /\ ring' = ring \o [i \in DOMAIN piece |-> [append |-> n, bytes |-> piece[i]]]
       /\ heard' = seq
       /\ gap' = (gap \/ (heard # NoSeq /\ (heard + 1) % SeqSpan # seq))
  ELSE UNCHANGED <<ring, heard, gap>>

\* CLIP_OP_CLEAR empties the ring and clears a fault.
TakesClear == ring' = <<>> /\ heard' = NoSeq /\ gap' = FALSE

CloneComesUp ==
  /\ ~cloneUp
  /\ cloneUp' = TRUE
  /\ UNCHANGED <<ring, heard, gap, loaded, guard, next, up, budget>>

-----------------------------------------------------------------------------
(* The threads.                                                             *)

Resting == [at |-> "idle", n |-> 0, pieces |-> <<>>, seq |-> 0]

\* append: a clip with an entry the box would refuse is refused before anything is sent.
AppendCalled(t) ==
  /\ up[t].at = "idle"
  /\ budget.calls < MaxUploads
  /\ budget' = [budget EXCEPT !.calls = @ + 1]
  /\ \E clip \in Clips :
       up' = IF \E i \in DOMAIN clip : Refused(clip[i]) THEN up
             ELSE [up EXCEPT ![t] = [at |-> "enter", n |-> budget.calls + 1,
                                     pieces |-> encode_chunks(clip), seq |-> 0]]
  /\ UNCHANGED <<ring, heard, gap, cloneUp, loaded, guard, next>>

ClearCalled(t) ==
  /\ up[t].at = "idle"
  /\ budget.calls < MaxUploads
  /\ budget' = [budget EXCEPT !.calls = @ + 1]
  /\ up' = [up EXCEPT ![t] = [Resting EXCEPT !.at = "enter", !.n = 0]]
  /\ UNCHANGED <<ring, heard, gap, cloneUp, loaded, guard, next>>

Appends(t) == up[t].n # 0

\* reassert_guard.
Unguarded(t) == guard' = guard
Guarded(t) == guard = None /\ guard' = t

GuardTaken(t) ==
  /\ up[t].at = "enter"
  /\ Guarded(t)
  /\ up' = [up EXCEPT ![t].at = IF Appends(t) THEN "seq" ELSE "clear"]
  /\ UNCHANGED <<ring, heard, gap, cloneUp, loaded, next, budget>>

Done(t) == up' = [up EXCEPT ![t] = Resting] /\ guard' = None

\* send_chunk: the SEQ is taken, then the frame is sent.
TakeSeq(t) ==
  /\ up[t].at = "seq"
  /\ IF up[t].pieces = <<>>
     THEN Done(t) /\ UNCHANGED next
     ELSE /\ up' = [up EXCEPT ![t].at = "write", ![t].seq = next]
          /\ next' = (next + 1) % SeqSpan
          /\ UNCHANGED guard
  /\ UNCHANGED <<ring, heard, gap, cloneUp, loaded, budget>>

WriteChunk(t) ==
  /\ up[t].at = "write"
  /\ TakesAppend(up[t].n, up[t].seq, Head(up[t].pieces))
  /\ up' = [up EXCEPT ![t].at = "record"]
  /\ UNCHANGED <<cloneUp, loaded, guard, next, budget>>

\* clip_loaded(true) after each frame, so that a clip cut short is kept alive too.
RecordLoaded(t) ==
  /\ up[t].at = "record"
  /\ loaded' = TRUE
  /\ up' = [up EXCEPT ![t].at = "seq", ![t].pieces = Tail(@)]
  /\ UNCHANGED <<ring, heard, gap, cloneUp, guard, next, budget>>

WriteClear(t) ==
  /\ up[t].at = "clear"
  /\ TakesClear
  /\ up' = [up EXCEPT ![t].at = "cleared"]
  /\ UNCHANGED <<cloneUp, loaded, guard, next, budget>>

RecordCleared(t) ==
  /\ up[t].at = "cleared"
  /\ loaded' = FALSE
  /\ Done(t)
  /\ UNCHANGED <<ring, heard, gap, cloneUp, next, budget>>

\* The error is returned; what was sent stays sent, and the SEQ stays taken.
SendFails(t) ==
  /\ up[t].at \in {"write", "clear"}
  /\ budget.failed < MaxFailed
  /\ budget' = [budget EXCEPT !.failed = @ + 1]
  /\ Done(t)
  /\ UNCHANGED <<ring, heard, gap, cloneUp, loaded, next>>

UploadInit ==
  /\ ring = <<>> /\ heard = NoSeq /\ gap = FALSE
  /\ cloneUp \in BOOLEAN
  /\ loaded = FALSE
  /\ guard = None
  /\ next = 0
  /\ up = [t \in Threads |-> Resting]
  /\ budget = [calls |-> 0, failed |-> 0]

UploadStep(t) ==
  \/ AppendCalled(t) \/ ClearCalled(t) \/ GuardTaken(t) \/ TakeSeq(t) \/ WriteChunk(t)
  \/ RecordLoaded(t) \/ WriteClear(t) \/ RecordCleared(t) \/ SendFails(t)

UploadNext == CloneComesUp \/ \E t \in Threads : UploadStep(t)

UploadSpec == UploadInit /\ [][UploadNext]_uploadVars

-----------------------------------------------------------------------------

\* No frame is longer than a payload and no entry spans two, because byte_len is the
\* length of what is encoded (encode_frame, encode_chunks).
PiecesFit ==
  \A t \in Threads : \A i \in DOMAIN up[t].pieces : LenOf(up[t].pieces[i]) <= PayloadMax

\* The box reads what was appended: while every send succeeds the appends of one handle show
\* it no gap, whichever of the threads that share it they come from (send_chunk); a frame's tag
\* is never a gap's, and every piece it comes in fits (encode_frame).
ReadAsAppended ==
  /\ budget.failed = 0 => ~gap
  /\ PiecesFit
  /\ \A i \in DOMAIN ring :
       ReadEntry(ring[i].bytes) = IF ring[i].bytes.of.gap # 0 THEN "gap" ELSE "frame"

=============================================================================
