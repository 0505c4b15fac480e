------------------------------ MODULE Timeline ------------------------------
(***************************************************************************)
(* Placing the box's stamps on this machine's clock                        *)
(* (src/src/types/clock.rs).  A chip stamps an event when it taps it, with *)
(* a counter that wraps; the box sends by priority, so an event may be     *)
(* overtaken by later ones; the consumer hands each to a Timeline when it  *)
(* comes.  One unit of time stands for a microsecond and its 1000 ns; the  *)
(* two clock domains share nothing, so one is modelled.                    *)
(***************************************************************************)
EXTENDS Integers, Sequences, FiniteSets

CONSTANTS
  Span,        \* 2^32: what a stamp counts up to
  FloorBlock,  \* FLOOR_BLOCK
  Resync,      \* RESYNC_NS
  Boots,       \* what a chip's counter may read when the Timeline is made
  MaxTime,     \* bounds: how long a run is,
  MaxTaps,     \* how many events are on their way,
  MaxResets    \* and how often the chip reboots

HalfRange == Span \div 2

ASSUME SpanAssumption == Span \in Nat /\ Span = 2 * HalfRange /\ HalfRange > 0
ASSUME BlockAssumption == FloorBlock \in Nat \ {0} /\ Resync \in Nat
ASSUME TimelineBoundAssumption ==
  Boots \subseteq Nat /\ MaxTime \in Nat /\ MaxTaps \in Nat /\ MaxResets \in Nat

VARIABLES
  time,     \* since the Timeline's origin
  boxBoot,  \* the chip's counter, unwrapped, at that moment
  coming,   \* the times of the taps on their way
  d,        \* DomainState
  placed,   \* the last Stamped, with what the events since a reset were, by their taps
  lags,     \* every lag so far, newest first, as far back as two blocks
  resets    \* how often the chip rebooted

timelineVars == <<time, boxBoot, coming, d, placed, lags, resets>>

NoLag == MaxTime + 1   \* no lag is that long
Nothing == [host |-> 0, box |-> 0, excess |-> 0, tap |-> 0, first |-> 0, newest |-> 0,
            strayed |-> FALSE, seen |-> FALSE]
DomainState == [epoch |-> 0, last |-> 0, seen |-> FALSE, now |-> NoLag, prev |-> NoLag,
                block |-> 0, host |-> 0]

AtLeast(n, m) == IF n < m THEN m ELSE n
LeastOf(S) == CHOOSE n \in S : \A m \in S : n <= m

-----------------------------------------------------------------------------
(* Timeline::box_us_of: the state after a stamp, and where it is placed.    *)

Ahead(raw, from) == (raw - from) % Span

\* A step of less than half the range, either way, with no roll-over between.
ByValue(s, raw) ==
  IF raw >= s.last THEN [state |-> [s EXCEPT !.last = raw], box |-> s.epoch + raw]
  ELSE IF s.last - raw > HalfRange
       THEN [state |-> [s EXCEPT !.last = raw, !.epoch = @ + Span], box |-> s.epoch + Span + raw]
       ELSE [state |-> s, box |-> s.epoch + raw]

box_us_of(s, raw) ==
  IF ~s.seen
  THEN [state |-> [s EXCEPT !.seen = TRUE, !.last = raw], box |-> s.epoch + raw]
  ELSE IF Ahead(raw, s.last) <= HalfRange
  THEN LET epoch == IF raw < s.last THEN s.epoch + Span ELSE s.epoch
       IN [state |-> [s EXCEPT !.last = raw, !.epoch = epoch], box |-> epoch + raw]
  ELSE [state |-> s, box |-> AtLeast(s.epoch + s.last - Ahead(s.last, raw), 0)]

-----------------------------------------------------------------------------
(* DomainState::push_lag and floor.                                         *)

floor(s) == LeastOf({s.now, s.prev})

push_lag(s, lag) ==
  LET min == LeastOf({s.now, lag})
  IN IF s.block + 1 >= FloorBlock
     THEN [s EXCEPT !.now = NoLag, !.prev = min, !.block = 0]
     ELSE [s EXCEPT !.now = min, !.block = @ + 1]

\* An event half a range behind the newest one seen, or more than that ahead of it: a stamp
\* does not say which.
Strays(tap) ==
  placed.seen /\ (tap - placed.newest > HalfRange \/ placed.newest - tap >= HalfRange)

\* Timeline::observe_stamp.
Smoothed(raw, last) == IF raw + Resync < last THEN raw ELSE AtLeast(raw, last)

observe_stamp(raw, tap) ==
  LET unwrapped == box_us_of(d, raw)
      box == unwrapped.box
      lag == time - box
      s == push_lag(unwrapped.state, lag)
      smoothed == Smoothed(AtLeast(box + floor(s), 0), d.host)
  IN /\ d' = [s EXCEPT !.host = smoothed]
     /\ placed' = [host |-> smoothed, box |-> box, excess |-> AtLeast(lag - floor(s), 0),
                   tap |-> tap, first |-> IF placed.seen THEN placed.first ELSE tap,
                   newest |-> IF placed.seen THEN AtLeast(tap, placed.newest) ELSE tap,
                   strayed |-> placed.strayed \/ Strays(tap), seen |-> TRUE]
     /\ lags' = SubSeq(<<lag>> \o lags, 1, LeastOf({Len(lags) + 1, 2 * FloorBlock}))

-----------------------------------------------------------------------------
(* The chip, the box and the consumer.                                      *)

Stamp(tap) == (boxBoot + tap) % Span

\* Nothing says how long the chip taps nothing, nor how long an event is on its way.
Tick ==
  /\ time < MaxTime
  /\ time' = time + 1
  /\ UNCHANGED <<boxBoot, coming, d, placed, lags, resets>>

Tap ==
  /\ Cardinality(coming) < MaxTaps /\ time \notin coming
  /\ coming' = coming \cup {time}
  /\ UNCHANGED <<time, boxBoot, d, placed, lags, resets>>

Observe(tap) ==
  /\ coming' = coming \ {tap}
  /\ observe_stamp(Stamp(tap), tap)
  /\ UNCHANGED <<time, boxBoot, resets>>

\* The chip reboots, what it had tapped is lost, and the caller calls reset.
Reset ==
  /\ resets < MaxResets
  /\ resets' = resets + 1
  /\ boxBoot' = -time
  /\ coming' = {}
  /\ d' = DomainState /\ placed' = Nothing /\ lags' = <<>>
  /\ UNCHANGED time

TimelineInit ==
  /\ time = 0 /\ boxBoot \in Boots /\ coming = {}
  /\ d = DomainState /\ placed = Nothing /\ lags = <<>> /\ resets = 0

TimelineNext == Tick \/ Tap \/ Reset \/ \E tap \in coming : Observe(tap)

TimelineSpec == TimelineInit /\ [][TimelineNext]_timelineVars

-----------------------------------------------------------------------------
\* Whatever order events come in, wherever the counter wraps and however long the chip was
\* silent, a placed stamp is whole ranges off the chip's count of its tap; and as long as no
\* event strayed, the same number of them for all of a boot (clock.rs:252, "Within one domain,
\* box_us is exact").  Only what came before the first event of a boot, when that is close to
\* zero, is moved up to zero.
BoxExact ==
  LET Counted(tap) == boxBoot + tap
      off == Counted(placed.tap) - placed.box
  IN placed.seen /\ placed.box > 0 =>
       /\ off % Span = 0
       /\ ~placed.strayed => off = (Counted(placed.first) \div Span) * Span

\* The floor forgets: it is the least lag of the newest samples, never of more than two
\* blocks, so the place of an event heals from a stall (clock.rs:178).
FloorIsRecent ==
  placed.seen =>
    \E n \in 1..Len(lags) :
      /\ n >= LeastOf({Len(lags), FloorBlock}) /\ n <= 2 * FloorBlock
      /\ floor(d) = LeastOf({lags[i] : i \in 1..n})

\* What a consumer is told of an event: the box's time of it, exactly, and a host time that a
\* stall does not spoil for long.
PlacedTruly == BoxExact /\ FloorIsRecent

=============================================================================
