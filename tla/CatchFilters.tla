---------------------------- MODULE CatchFilters ----------------------------
(***************************************************************************)
(* The filters of the catch stream (src/src/types/catch.rs) and the union  *)
(* the host makes of every subscription's (src/src/link/catch.rs): the box *)
(* has one table, one entry per address, and cuts a packet once, by the    *)
(* entry that names it best.                                               *)
(***************************************************************************)
EXTENDS Naturals

CONSTANTS
  Classes, Ids,  \* what an event is addressed by
  Every,           \* the wildcard of either
  Captures       \* lengths a filter may ask for, in bytes; 0 keeps them all

ASSUME EveryAssumption == Every \notin Classes \cup Ids
ASSUME CapturesAssumption == Captures \subseteq 0 .. 255 /\ 0 \in Captures

Whole == 0
Edges == {"positive", "negative"}
Directions == Edges \cup {"both"}
Relative == {"with", "against"}  \* resolved only when a report is weighed

\* Direction::admits: `both` on either side matches.
Admits(d, e) == d = "both" \/ e = "both" \/ d = e

\* A wildcard class has no id: an id means something else in every class.
Filter ==
  {f \in [class : Classes \cup {Every}, id : Ids \cup {Every},
          direction : Directions, capture : Captures] :
     f.class = Every => f.id = Every}

SameAddress(f, g) ==
  f.class = g.class /\ f.id = g.id /\ f.direction = g.direction
SamePlace(f, g) == f.class = g.class /\ f.id = g.id

-----------------------------------------------------------------------------
(* Captures.                                                                *)

\* Whether capture c keeps every byte that d keeps.
Keeps(c, d) == c = Whole \/ (d # Whole /\ d <= c)

\* Capture::widest, of a whole set.
Widest(S) == CHOOSE c \in S : \A d \in S : Keeps(c, d)

\* One entry per address, with the widest capture asked for there.
Collapse(filters) ==
  {[f EXCEPT !.capture = Widest({g.capture : g \in {h \in filters : SameAddress(h, f)}})] :
     f \in filters}

-----------------------------------------------------------------------------
(* The union.                                                               *)

\* o covers f's address and is no more specific; directions rank only
\* between entries of one place.
Covers(o, f) ==
  /\ o.class \in {Every, f.class}
  /\ o.id \in {Every, f.id}
  /\ IF SamePlace(o, f) THEN o.direction = "both" ELSE Admits(o.direction, f.direction)

NotWidened(filters) == Collapse(filters)
\* Each entry as wide as the widest filter that covers it.
Widened(filters) ==
  {[f EXCEPT !.capture =
      Widest({f.capture} \cup {o.capture : o \in {g \in filters : Covers(g, f)}})] :
     f \in Collapse(filters)}

\* A positive and a negative entry at one place.
Split(set, f) ==
  \A d \in Edges : \E g \in set : SamePlace(g, f) /\ g.direction = d

\* collapse_opposite_siblings: such a pair becomes one entry of both.
Siblings(set) ==
  {f \in set : ~Split(set, f)} \cup
  {[f EXCEPT !.direction = "both",
             !.capture = Widest({g.capture : g \in {h \in set : SamePlace(h, f)}})] :
     f \in {g \in set : Split(set, g)}}

Effective(filters) == Siblings(Widened(filters))

-----------------------------------------------------------------------------
(* Events.                                                                  *)

Event == [class : Classes, id : Ids, direction : Directions]

\* CatchFilter::matches.
Matches(f, e) ==
  /\ f.class \in {Every, e.class}
  /\ f.class # Every => f.id \in {Every, e.id}
  /\ Admits(f.direction, e.direction)

\* The box's rank of entries that match: an exact address before a class
\* blanket before the wildcard, a named direction before both.
Outranks(f, g) ==
  \/ g.class = Every /\ f.class # Every
  \/ f.class = g.class /\ g.id = Every /\ f.id # Every
  \/ SamePlace(f, g) /\ g.direction = "both" /\ f.direction # "both"

\* The entries the box may cut the event by: none that matches outranks them.
Resolved(table, e) ==
  {f \in table : Matches(f, e) /\ \A g \in table : Matches(g, e) => ~Outranks(g, f)}
=============================================================================
