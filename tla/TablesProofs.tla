----------------------------- MODULE TablesProofs -----------------------------
(***************************************************************************)
(* Proofs about the crate's copies of what the box holds.  The catch       *)
(* table, for any streams, filters and limit: what the crate re-sends is   *)
(* the union of what is subscribed, what the box holds is that, and each   *)
(* stream is served as if it were alone.  The lock table, for any targets, *)
(* buttons and scales: a lock that was not sent leaves no trace, and the   *)
(* crate's copy is what the box has once it has taken all of it.  The      *)
(* ordered tables, for any keys, values and room: likewise, and in order.  *)
(***************************************************************************)
EXTENDS HeldLocks, HeldTables, CatchTable, FiniteSetTheorems, SequenceTheorems, WellFoundedInduction, TLAPS

-----------------------------------------------------------------------------
(* Captures.                                                                *)

LEMMA Least ==
  ASSUME NEW S \in SUBSET Nat, S # {}
  PROVE  \E n \in S : \A m \in S : n <= m
<1> DEFINE R == OpToRel(<, Nat)
<1>1. IsWellFoundedOn(R, Nat) BY NatLessThanWellFounded
<1>2. \A m, n \in Nat : <<m, n>> \in R <=> m < n BY DEF OpToRel
<1>3. PICK n \in S : \A m \in S : ~(<<m, n>> \in R)
  <2> HIDE DEF R
  <2> QED BY <1>1, WFMin
<1>4. ASSUME NEW m \in S PROVE n <= m
  <2>1. m \in Nat /\ n \in Nat BY <1>3
  <2>2. ~(m < n) BY <1>2, <1>3, <2>1
  <2> QED BY ONLY <2>1, <2>2
<1> QED BY <1>4

\* Of what is asked for something is the widest, and it is as wide as anything.
LEMMA WidestOfAll ==
  ASSUME NEW S \in SUBSET Captures, S # {}
  PROVE  Widest(S) \in S /\ \A c \in S : Keeps(Widest(S), c)
<1>1. S \subseteq 0 .. 255 BY CapturesAssumption
<1> SUFFICES \E c \in S : \A d \in S : Keeps(c, d) BY DEF Widest
<1>2. CASE Whole \in S BY <1>2 DEF Keeps
<1>3. CASE Whole \notin S
  <2> DEFINE T == {255 - c : c \in S}
  <2>1. T \in SUBSET Nat /\ T # {}
    <3>1. \A c \in 0 .. 255 : 255 - c \in Nat OBVIOUS
    <3>2. \A c \in S : 255 - c \in Nat BY ONLY <1>1, <3>1
    <3>3. T \in SUBSET Nat BY ONLY <3>2
    <3>4. T # {} BY ONLY S # {}
    <3> QED BY ONLY <3>3, <3>4
  <2>2. PICK t \in T : \A u \in T : t <= u
    <3> HIDE DEF T
    <3> QED BY <2>1, Least
  <2>3. PICK c \in S : t = 255 - c BY <2>2
  <2>4. ASSUME NEW d \in S PROVE d # Whole /\ d <= c
    <3>1. 255 - c <= 255 - d BY <2>2, <2>3
    <3>2. c \in 0 .. 255 /\ d \in 0 .. 255 BY <1>1
    <3> QED BY <1>3, <3>1, <3>2
  <2> QED BY <2>4 DEF Keeps
<1> QED BY <1>2, <1>3

-----------------------------------------------------------------------------
(* The union of filters: what the box can hold, one entry per address.      *)

\* What a subscription's checks let through.
Clean == {f \in Filter : f.id # Reserved}
OnePerAddress(table) == \A f, g \in table : SameAddress(f, g) => f = g

LEMMA FiltersFinite == IsFiniteSet(Filter)
<1> DEFINE P == (Classes \cup {Every}) \X (Ids \cup {Every})
           Q == Directions \X Captures
           code == [f \in Filter |-> <<<<f.class, f.id>>, <<f.direction, f.capture>>>>]
<1>1. IsFiniteSet(P)
  <2>1. IsFiniteSet(Classes \cup {Every}) BY AddressAssumption, FS_AddElement
  <2>2. IsFiniteSet(Ids \cup {Every}) BY AddressAssumption, FS_AddElement
  <2> QED BY <2>1, <2>2, FS_Product
<1>2. IsFiniteSet(Q)
  <2>1. IsFiniteSet(Captures)
    <3>1. Captures \in SUBSET Nat /\ \A c \in Captures : c <= 255 BY CapturesAssumption
    <3>2. 255 \in Nat OBVIOUS
    <3> QED BY ONLY <3>1, <3>2, FS_BoundedSetOfNaturals
  <2>2. IsFiniteSet({"positive"}) BY FS_Singleton
  <2>3. IsFiniteSet({"positive"} \cup {"negative"}) BY <2>2, FS_AddElement
  <2>4. IsFiniteSet(({"positive"} \cup {"negative"}) \cup {"both"}) BY <2>3, FS_AddElement
  <2>5. Directions = ({"positive"} \cup {"negative"}) \cup {"both"} BY DEF Directions, Edges
  <2> QED BY <2>1, <2>4, <2>5, FS_Product
<1>3. IsFiniteSet(P \X Q)
  <2> HIDE DEF P, Q
  <2> QED BY <1>1, <1>2, FS_Product
<1>4. code \in Injection(Filter, P \X Q)
  <2>1. code \in [Filter -> P \X Q] BY DEF Filter
  <2>2. ASSUME NEW f \in Filter, NEW g \in Filter, code[f] = code[g] PROVE f = g
    <3>1. f.class = g.class /\ f.id = g.id /\ f.direction = g.direction /\ f.capture = g.capture
      BY <2>2
    <3>2. /\ f = [class |-> f.class, id |-> f.id, direction |-> f.direction, capture |-> f.capture]
          /\ g = [class |-> g.class, id |-> g.id, direction |-> g.direction, capture |-> g.capture]
      BY DEF Filter
    <3> QED BY <3>1, <3>2
  <2> HIDE DEF code, P, Q
  <2> QED BY <2>1, <2>2 DEF Injection, IsInjective
<1> HIDE DEF code, P, Q
<1> QED BY <1>3, <1>4, FS_Injection

LEMMA TablesFinite ==
  ASSUME NEW S \in SUBSET Filter
  PROVE  IsFiniteSet(S) /\ Cardinality(S) \in Nat
BY FiltersFinite, FS_Subset, FS_CardinalityType

LEMMA Recaptured ==
  ASSUME NEW f \in Clean, NEW c \in Captures
  PROVE  /\ [f EXCEPT !.capture = c] \in Clean
         /\ SameAddress([f EXCEPT !.capture = c], f)
         /\ [f EXCEPT !.capture = c].capture = c
         /\ [f EXCEPT !.direction = "both", !.capture = c] \in Clean
         /\ SamePlace([f EXCEPT !.direction = "both", !.capture = c], f)
         /\ [f EXCEPT !.direction = "both", !.capture = c].direction = "both"
         /\ [f EXCEPT !.direction = "both", !.capture = c].capture = c
BY DEF Clean, Filter, SameAddress, SamePlace, Directions

LEMMA Alike ==
  ASSUME NEW f \in Clean, NEW g \in Clean, SameAddress(f, g), f.capture = g.capture
  PROVE  f = g
<1>1. /\ f = [class |-> f.class, id |-> f.id, direction |-> f.direction, capture |-> f.capture]
      /\ g = [class |-> g.class, id |-> g.id, direction |-> g.direction, capture |-> g.capture]
  BY DEF Clean, Filter
<1> QED BY <1>1 DEF SameAddress

LEMMA CapturesOf ==
  ASSUME NEW S \in SUBSET Clean
  PROVE  {f.capture : f \in S} \in SUBSET Captures
BY DEF Clean, Filter

\* Collapse, then Widened: one entry per address, of what was asked for.
LEMMA CollapseIsTable ==
  ASSUME NEW X \in SUBSET Clean
  PROVE  Collapse(X) \in SUBSET Clean /\ OnePerAddress(Collapse(X))
<1> DEFINE caps(f) == {g.capture : g \in {h \in X : SameAddress(h, f)}}
<1>1. ASSUME NEW f \in X PROVE Widest(caps(f)) \in Captures
  <2>1. f \in {h \in X : SameAddress(h, f)} BY DEF SameAddress
  <2>2. {h \in X : SameAddress(h, f)} \in SUBSET Clean OBVIOUS
  <2>3. caps(f) \in SUBSET Captures BY <2>2, CapturesOf
  <2>4. caps(f) # {} BY <2>1
  <2> HIDE DEF caps
  <2> QED BY <2>3, <2>4, WidestOfAll
<1>2. ASSUME NEW f \in X, NEW g \in X, SameAddress(f, g) PROVE caps(f) = caps(g)
  BY <1>2 DEF SameAddress
<1>3. Collapse(X) = {[f EXCEPT !.capture = Widest(caps(f))] : f \in X} BY DEF Collapse
<1> HIDE DEF caps
<1>4. Collapse(X) \in SUBSET Clean
  <2>1. ASSUME NEW f \in X PROVE [f EXCEPT !.capture = Widest(caps(f))] \in Clean
    BY <1>1, Recaptured
  <2> QED BY ONLY <1>3, <2>1
<1>5. ASSUME NEW f \in X, NEW g \in X,
             SameAddress([f EXCEPT !.capture = Widest(caps(f))], [g EXCEPT !.capture = Widest(caps(g))])
      PROVE  [f EXCEPT !.capture = Widest(caps(f))] = [g EXCEPT !.capture = Widest(caps(g))]
  <2>1. /\ SameAddress([f EXCEPT !.capture = Widest(caps(f))], f)
        /\ SameAddress([g EXCEPT !.capture = Widest(caps(g))], g)
        /\ [f EXCEPT !.capture = Widest(caps(f))].capture = Widest(caps(f))
        /\ [g EXCEPT !.capture = Widest(caps(g))].capture = Widest(caps(g))
        /\ [f EXCEPT !.capture = Widest(caps(f))] \in Clean
        /\ [g EXCEPT !.capture = Widest(caps(g))] \in Clean
    BY <1>1, Recaptured
  <2>2. SameAddress(f, g) BY <1>5, <2>1 DEF SameAddress
  <2>3. Widest(caps(f)) = Widest(caps(g)) BY <1>2, <2>2
  <2> QED BY <1>5, <2>1, <2>3, Alike
<1> QED BY <1>3, <1>4, <1>5 DEF OnePerAddress

LEMMA WidenedIsTable ==
  ASSUME NEW X \in SUBSET Clean
  PROVE  Widened(X) \in SUBSET Clean /\ OnePerAddress(Widened(X))
<1> DEFINE C == Collapse(X)
           caps(f) == {f.capture} \cup {o.capture : o \in {g \in X : Covers(g, f)}}
<1>0. C \in SUBSET Clean /\ OnePerAddress(C) BY CollapseIsTable
<1>1. ASSUME NEW f \in C PROVE Widest(caps(f)) \in Captures
  <2>1. {o.capture : o \in {g \in X : Covers(g, f)}} \in SUBSET Captures BY CapturesOf
  <2>2. f.capture \in Captures BY <1>0 DEF Clean, Filter
  <2>3. caps(f) \in SUBSET Captures /\ caps(f) # {} BY <2>1, <2>2
  <2> HIDE DEF caps
  <2> QED BY <2>3, WidestOfAll
<1>2. Widened(X) = {[f EXCEPT !.capture = Widest(caps(f))] : f \in C} BY DEF Widened
<1> HIDE DEF caps, C
<1>3. Widened(X) \in SUBSET Clean
  <2>1. ASSUME NEW f \in C PROVE [f EXCEPT !.capture = Widest(caps(f))] \in Clean
    BY <1>0, <1>1, Recaptured
  <2> QED BY ONLY <1>2, <2>1
<1>4. ASSUME NEW f \in C, NEW g \in C,
             SameAddress([f EXCEPT !.capture = Widest(caps(f))], [g EXCEPT !.capture = Widest(caps(g))])
      PROVE  f = g
  <2>1. /\ SameAddress([f EXCEPT !.capture = Widest(caps(f))], f)
        /\ SameAddress([g EXCEPT !.capture = Widest(caps(g))], g)
    BY <1>0, <1>1, Recaptured
  <2>2. SameAddress(f, g) BY <1>4, <2>1 DEF SameAddress
  <2> QED BY <1>0, <2>2 DEF OnePerAddress
<1> QED BY <1>2, <1>3, <1>4 DEF OnePerAddress

LEMMA SiblingsAreTable ==
  ASSUME NEW S \in SUBSET Clean, OnePerAddress(S)
  PROVE  Siblings(S) \in SUBSET Clean /\ OnePerAddress(Siblings(S))
<1> DEFINE caps(f) == {g.capture : g \in {h \in S : SamePlace(h, f)}}
           merged(f) == [f EXCEPT !.direction = "both", !.capture = Widest(caps(f))]
           Pairs == {f \in S : Split(S, f)}
<1>1. ASSUME NEW f \in S PROVE Widest(caps(f)) \in Captures
  <2>1. f \in {h \in S : SamePlace(h, f)} BY DEF SamePlace
  <2>2. {h \in S : SamePlace(h, f)} \in SUBSET Clean OBVIOUS
  <2>3. caps(f) \in SUBSET Captures BY <2>2, CapturesOf
  <2>4. caps(f) # {} BY <2>1
  <2> HIDE DEF caps
  <2> QED BY <2>3, <2>4, WidestOfAll
<1>2. ASSUME NEW f \in S, NEW g \in S, SamePlace(f, g) PROVE caps(f) = caps(g)
  BY <1>2 DEF SamePlace
<1>3. Siblings(S) = {f \in S : ~Split(S, f)} \cup {merged(f) : f \in Pairs} BY DEF Siblings
<1>4. ASSUME NEW f \in S
      PROVE  /\ merged(f) \in Clean /\ SamePlace(merged(f), f)
             /\ merged(f).direction = "both" /\ merged(f).capture = Widest(caps(f))
  <2> HIDE DEF caps
  <2> QED BY <1>1, Recaptured
<1> HIDE DEF caps, merged
<1>5. Siblings(S) \in SUBSET Clean BY <1>3, <1>4
<1>6. ASSUME NEW f \in Pairs, NEW g \in Pairs, SameAddress(merged(f), merged(g))
      PROVE  merged(f) = merged(g)
  <2>1. SamePlace(f, g) BY <1>4, <1>6 DEF SameAddress, SamePlace
  <2>2. Widest(caps(f)) = Widest(caps(g)) BY <1>2, <2>1
  <2> QED BY <1>4, <1>6, <2>2, Alike
<1>7. ASSUME NEW f \in S, ~Split(S, f), NEW g \in Pairs
      PROVE  ~SameAddress(f, merged(g)) /\ ~SameAddress(merged(g), f)
  <2>1. SamePlace(merged(g), g) BY <1>4
  <2> SUFFICES ASSUME SamePlace(f, g) PROVE FALSE BY <2>1 DEF SameAddress, SamePlace
  <2> QED BY <1>7 DEF Split, SamePlace
<1> QED BY <1>3, <1>5, <1>6, <1>7 DEF OnePerAddress

\* CatchReg::effective.
LEMMA UnionIsTable ==
  ASSUME NEW X \in SUBSET Clean
  PROVE  Effective(X) \in SUBSET Clean /\ OnePerAddress(Effective(X))
BY WidenedIsTable, SiblingsAreTable DEF Effective

LEMMA UnionOfNone == Effective({}) = {}
BY DEF Effective, Siblings, Widened, Collapse

-----------------------------------------------------------------------------
(* One change of the table, as sets.                                        *)

LEMMA AddressIsEquality ==
  /\ \A f : SameAddress(f, f)
  /\ \A f, g : SameAddress(f, g) => SameAddress(g, f)
  /\ \A f, g, h : SameAddress(f, g) /\ SameAddress(g, h) => SameAddress(f, h)
BY DEF SameAddress

LEMMA AskedIsClean ==
  ASSUME NEW registry \in [Subs -> SUBSET Clean]
  PROVE  Union(registry) \in SUBSET Clean /\ OnePerAddress(Union(registry))
<1>1. Asked(registry) \in SUBSET Clean BY DEF Asked
<1> QED BY <1>1, UnionIsTable DEF Union

LEMMA PreparedIsClean ==
  ASSUME NEW filters \in Asks, Prepared(filters)
  PROVE  Collapse(filters) \in SUBSET Clean
<1>1. ASSUME NEW f \in filters PROVE f \in Clean
  <2>1. f.direction \in Directions /\ f.id # Reserved BY DEF Prepared
  <2>2. f.direction \notin Relative BY <2>1 DEF Directions, Edges, Relative
  <2>3. f \in Filter BY <2>2, AsksAssumption
  <2> QED BY <2>1, <2>3 DEF Clean
<1>2. filters \in SUBSET Clean BY <1>1
<1> QED BY <1>2, CollapseIsTable

LEMMA CleanOnWire == ASSUME NEW f \in Clean PROVE OnWire(f) = f
BY DEF OnWire, Clean, Filter

LEMMA CleanIsFilter == Clean \subseteq Filter
BY DEF Clean

\* What the box holds once every frame of the job is written and taken.
FinalOf(box, off, clear, on) ==
  IF clear THEN on ELSE {g \in box : ~Keyed(off, g) /\ ~Keyed(on, g)} \cup on

SyncOff(prev, next) == {f \in prev : ~Keyed(next, f) /\ f.class # Every}
SyncOn(prev, next) == IF Clears(prev, next) THEN next ELSE next \ prev

\* A change of a table that holds nothing else leads to the new union, and from
\* one that holds all that both unions share, to exactly it.
LEMMA SyncLeads ==
  ASSUME NEW prev, NEW next, NEW box,
         OnePerAddress(prev), OnePerAddress(next), box \subseteq prev \cup next
  PROVE  /\ FinalOf(box, SyncOff(prev, next), Clears(prev, next), SyncOn(prev, next)) \subseteq next
         /\ Clears(prev, next) \/ prev \cap next \subseteq box
              => FinalOf(box, SyncOff(prev, next), Clears(prev, next), SyncOn(prev, next)) = next
<1>1. CASE Clears(prev, next) BY <1>1 DEF FinalOf, SyncOn
<1>2. CASE ~Clears(prev, next)
  <2> DEFINE off == {f \in prev : ~Keyed(next, f)}
  <2>1. SyncOff(prev, next) = off /\ SyncOn(prev, next) = next \ prev
    BY <1>2 DEF Clears, SyncOff, SyncOn
  <2>2. FinalOf(box, SyncOff(prev, next), Clears(prev, next), SyncOn(prev, next))
          = {g \in box : ~Keyed(off, g) /\ ~Keyed(next \ prev, g)} \cup (next \ prev)
    BY <1>2, <2>1 DEF FinalOf
  <2>3. ASSUME NEW g \in box, ~Keyed(off, g), ~Keyed(next \ prev, g), g \notin next PROVE FALSE
    <3>1. g \in prev BY <2>3
    <3>2. g \notin off BY <2>3, AddressIsEquality DEF Keyed
    <3>3. PICK b \in next : SameAddress(g, b) BY <3>1, <3>2 DEF Keyed
    <3>4. b # g BY <2>3
    <3>5. b \notin prev BY <3>1, <3>3, <3>4 DEF OnePerAddress
    <3>6. b \in next \ prev /\ SameAddress(g, b) BY <3>3, <3>5
    <3> QED BY <2>3, <3>6, AddressIsEquality DEF Keyed
  <2>4. ASSUME prev \cap next \subseteq box, NEW b \in next, b \in prev
        PROVE  b \in box /\ ~Keyed(off, b) /\ ~Keyed(next \ prev, b)
    <3>1. b \in box BY <2>4
    <3>2. ~Keyed(off, b) BY AddressIsEquality DEF Keyed
    <3>3. ~Keyed(next \ prev, b) BY <2>4 DEF Keyed, OnePerAddress
    <3> QED BY <3>1, <3>2, <3>3
  <2> QED BY <1>2, <2>2, <2>3, <2>4
<1> QED BY <1>1, <1>2

\* The same change: nothing the box holds is left without a frame or a place.
LEMMA SyncNames ==
  ASSUME NEW prev, NEW next, NEW g, Keyed(prev, g), ~Clears(prev, next)
  PROVE  Keyed(next, g) \/ Keyed(SyncOff(prev, next), g)
<1>1. PICK p \in prev : SameAddress(g, p) BY AddressIsEquality DEF Keyed
<1>2. CASE Keyed(next, p) BY <1>1, <1>2, AddressIsEquality DEF Keyed
<1>3. CASE ~Keyed(next, p)
  <2>1. p \in SyncOff(prev, next) BY <1>1, <1>3 DEF Clears, SyncOff
  <2> QED BY <1>1, <2>1, AddressIsEquality DEF Keyed
<1> QED BY <1>2, <1>3

\* A removal's frame.
LEMMA RemovedHolds ==
  ASSUME NEW box \in SUBSET Clean, OnePerAddress(box), NEW f \in Clean
  PROVE  /\ Removed(box, f) = {g \in box : ~SameAddress(g, f)}
         /\ Removed(box, f) \in SUBSET Clean /\ OnePerAddress(Removed(box, f))
         /\ Cardinality(Removed(box, f)) <= Cardinality(box)
<1>1. Removed(box, f) = {g \in box : ~SameAddress(g, f)} BY CleanOnWire DEF Removed
<1>2. Removed(box, f) \subseteq box BY <1>1
<1>3. IsFiniteSet(box) BY TablesFinite, CleanIsFilter
<1>4. Cardinality(Removed(box, f)) <= Cardinality(box) BY <1>2, <1>3, FS_Subset
<1> QED BY <1>1, <1>2, <1>4 DEF OnePerAddress

LEMMA RemovedLeads ==
  ASSUME NEW box \in SUBSET Clean, OnePerAddress(box), NEW off \in SUBSET Clean, NEW f \in off,
         NEW clear \in BOOLEAN, NEW on
  PROVE  FinalOf(Removed(box, f), off \ {f}, clear, on) = FinalOf(box, off, clear, on)
<1>1. Removed(box, f) = {g \in box : ~SameAddress(g, f)} BY RemovedHolds
<1>2. ASSUME NEW g \in box PROVE Keyed(off, g) <=> SameAddress(g, f) \/ Keyed(off \ {f}, g)
  BY AddressIsEquality DEF Keyed
<1>3. {g \in Removed(box, f) : ~Keyed(off \ {f}, g) /\ ~Keyed(on, g)}
        = {g \in box : ~Keyed(off, g) /\ ~Keyed(on, g)}
  BY <1>1, <1>2
<1> QED BY <1>3 DEF FinalOf

\* An entry's frame that finds room.
LEMMA AddedHolds ==
  ASSUME NEW box \in SUBSET Clean, OnePerAddress(box), Cardinality(box) <= CatchLimit,
         NEW f \in Clean, Room(box, f)
  PROVE  /\ Added(box, f) = {g \in box : ~SameAddress(g, f)} \cup {f}
         /\ Added(box, f) \in SUBSET Clean /\ OnePerAddress(Added(box, f))
         /\ Cardinality(Added(box, f)) <= CatchLimit
<1> DEFINE rest == {g \in box : ~SameAddress(g, f)}
<1>1. OnWire(f) = f BY CleanOnWire
<1>2. Added(box, f) = rest \cup {f} BY <1>1, RemovedHolds DEF Added
<1>3. Added(box, f) \in SUBSET Clean BY <1>2
<1>4. OnePerAddress(Added(box, f)) BY <1>2, AddressIsEquality DEF OnePerAddress
<1>5. IsFiniteSet(box) /\ Cardinality(box) \in Nat BY TablesFinite, CleanIsFilter
<1>6. IsFiniteSet(rest) /\ Cardinality(rest) \in Nat BY TablesFinite, CleanIsFilter
<1>7. f \notin rest BY AddressIsEquality
<1>8. Cardinality(rest \cup {f}) = Cardinality(rest) + 1
  <2> HIDE DEF rest
  <2> QED BY <1>6, <1>7, FS_AddElement
<1>9. Cardinality(rest) + 1 <= CatchLimit
  <2>1. CASE Keyed(box, f)
    <3>1. PICK g \in box : SameAddress(f, g) BY <2>1 DEF Keyed
    <3>2. g \notin rest BY <3>1, AddressIsEquality
    <3>3. rest \subseteq box \ {g} BY <3>2
    <3>4. IsFiniteSet(box \ {g}) /\ Cardinality(box \ {g}) = Cardinality(box) - 1
      BY <1>5, FS_RemoveElement
    <3>5. Cardinality(rest) <= Cardinality(box \ {g})
      <4> HIDE DEF rest
      <4> QED BY <3>3, <3>4, FS_Subset
    <3> HIDE DEF rest
    <3> QED BY ONLY <1>5, <1>6, <3>4, <3>5, CatchLimitAssumption, Cardinality(box) <= CatchLimit
  <2>2. CASE ~Keyed(box, f)
    <3>1. Cardinality(box) < CatchLimit BY <1>1, <2>2 DEF Room
    <3>2. rest \subseteq box OBVIOUS
    <3>3. Cardinality(rest) <= Cardinality(box)
      <4> HIDE DEF rest
      <4> QED BY <1>5, <3>2, FS_Subset
    <3> HIDE DEF rest
    <3> QED BY ONLY <1>5, <1>6, <3>1, <3>3, CatchLimitAssumption
  <2> QED BY <2>1, <2>2
<1> QED BY <1>2, <1>3, <1>4, <1>8, <1>9

LEMMA AddedLeads ==
  ASSUME NEW box \in SUBSET Clean, OnePerAddress(box), Cardinality(box) <= CatchLimit,
         NEW on \in SUBSET Clean, OnePerAddress(on), NEW f \in on, Room(box, f)
  PROVE  FinalOf(Added(box, f), {}, FALSE, on \ {f}) = FinalOf(box, {}, FALSE, on)
<1>1. Added(box, f) = {g \in box : ~SameAddress(g, f)} \cup {f} BY AddedHolds
<1>2. ASSUME NEW g PROVE Keyed(on, g) <=> SameAddress(g, f) \/ Keyed(on \ {f}, g)
  BY AddressIsEquality DEF Keyed
<1>3. ~Keyed(on \ {f}, f) BY DEF Keyed, OnePerAddress
<1>4. \A g : ~Keyed({}, g) BY DEF Keyed
<1>5. {g \in Added(box, f) : ~Keyed(on \ {f}, g)} \cup (on \ {f})
        = {g \in box : ~Keyed(on, g)} \cup on
  BY <1>1, <1>2, <1>3
<1> QED BY <1>4, <1>5 DEF FinalOf

\* A box that holds nothing outside a union of its size has room for all of it.
LEMMA RoomForUnion ==
  ASSUME NEW box \in SUBSET Clean, OnePerAddress(box),
         NEW union \in SUBSET Clean, \A g \in box : Keyed(union, g),
         NEW f \in union, Cardinality(union) <= CatchLimit
  PROVE  Room(box, f)
<1> SUFFICES ASSUME ~Keyed(box, f), ~(Cardinality(box) < CatchLimit) PROVE FALSE
  <2>1. OnWire(f) = f BY CleanOnWire
  <2> QED BY <2>1 DEF Room
<1> DEFINE twin == [g \in box |-> CHOOSE h \in union : SameAddress(g, h)]
<1>1. ASSUME NEW g \in box PROVE twin[g] \in union \ {f} /\ SameAddress(g, twin[g])
  <2>1. \E h \in union : SameAddress(g, h) BY DEF Keyed
  <2>2. twin[g] \in union /\ SameAddress(g, twin[g]) BY <2>1
  <2>3. twin[g] # f
    <3> SUFFICES ASSUME twin[g] = f PROVE FALSE OBVIOUS
    <3>1. SameAddress(f, g) BY <2>2, AddressIsEquality
    <3> QED BY <3>1 DEF Keyed
  <2> QED BY <2>2, <2>3
<1>2. twin \in [box -> union \ {f}] BY <1>1
<1>3. ASSUME NEW g \in box, NEW h \in box, twin[g] = twin[h] PROVE g = h
  <2>1. SameAddress(g, h) BY <1>1, <1>3, AddressIsEquality
  <2> QED BY <2>1 DEF OnePerAddress
<1>4. twin \in Injection(box, union \ {f})
  <2> HIDE DEF twin
  <2> QED BY <1>2, <1>3 DEF Injection, IsInjective
<1>5. IsFiniteSet(union) /\ Cardinality(union) \in Nat BY TablesFinite, CleanIsFilter
<1>6. IsFiniteSet(union \ {f}) /\ Cardinality(union \ {f}) = Cardinality(union) - 1
  BY <1>5, FS_RemoveElement
<1>7. Cardinality(box) <= Cardinality(union \ {f})
  <2> HIDE DEF twin
  <2> QED BY <1>4, <1>6, FS_Injection
<1>8. Cardinality(box) \in Nat BY TablesFinite, CleanIsFilter
<1> QED BY ONLY <1>5, <1>6, <1>7, <1>8, CatchLimitAssumption, ~(Cardinality(box) < CatchLimit),
           Cardinality(union) <= CatchLimit

-----------------------------------------------------------------------------
(* The invariant.                                                           *)

\* The union without the stream of the call.
Base == Union([subs EXCEPT ![job.sub] = {}])
\* What the box will hold when the rest of the job is written.
Final == FinalOf(catchBox, job.off, job.clear, job.on)
\* The box was at most released, or left without what it is owed.
AtMostOwed == rift \subseteq {"owed"}

Typed ==
  /\ subs \in [Subs -> SUBSET Clean]
  /\ desired = Union(subs)
  /\ catchBox \in SUBSET Clean /\ OnePerAddress(catchBox) /\ Cardinality(catchBox) <= CatchLimit
  /\ job \in Job /\ job.off \in SUBSET Clean /\ job.on \in SUBSET Clean
  /\ rift \in Rifts
  /\ catchCalls \in 0 .. MaxCatchCalls
  /\ catchFailures \in 0 .. MaxCatchFailures
  /\ catchReleases \in 0 .. MaxCatchReleases

\* What each call's frames are, of what the call changed.
Shape ==
  /\ LockFree => AllSent
  /\ job.op = "reset" => job.off = {} /\ job.on = {} /\ desired = {}
  /\ job.op = "resend" => job.off = {} /\ ~job.clear
  /\ job.on \subseteq desired /\ (job.clear => job.on = desired)
  /\ \A f \in job.off : ~Keyed(desired, f)
  /\ job.op = "subscribe" => job.off \subseteq Base /\ (job.clear => Clears(Base, desired))

\* The frames still to be written lead to the union.
Ahead == job.op # "reset" =>
  /\ rift = {} => Final = desired
  /\ AtMostOwed => Final \subseteq desired

\* A subscription that fails can be taken back: the box holds nothing that
\* neither union has, and all that both have unless they were cleared away.
WayBack == job.op = "subscribe" =>
  /\ AtMostOwed => catchBox \subseteq Base \cup desired
  /\ rift = {} /\ (job.clear \/ ~Clears(Base, desired)) => Base \cap desired \subseteq catchBox

\* A re-send adds to a table that needs it, and changes no other.
Again == job.op = "resend" =>
  /\ AtMostOwed => catchBox \subseteq desired
  /\ rift = {} => catchBox = desired
  /\ job.clean /\ AtMostOwed => desired \ job.on \subseteq catchBox

\* Unless a removal was lost, every entry of the box is of the union, or the
\* frame that removes it is still to be written.
NoneOdd == job.op # "reset" /\ "stale" \notin rift =>
  /\ ~job.clear => \A g \in catchBox : Keyed(desired, g) \/ Keyed(job.off, g)
  /\ job.op = "subscribe" /\ job.clear => \A g \in catchBox : Keyed(Base, g)

FullIsStale == "full" \in rift => "stale" \in rift

CatchInv == Typed /\ Shape /\ Ahead /\ WayBack /\ Again /\ NoneOdd /\ FullIsStale

LEMMA Tables ==
  ASSUME Typed
  PROVE  /\ desired \in SUBSET Clean /\ OnePerAddress(desired)
         /\ Base \in SUBSET Clean /\ OnePerAddress(Base)
<1>1. desired \in SUBSET Clean /\ OnePerAddress(desired) BY AskedIsClean DEF Typed
<1>2. [subs EXCEPT ![job.sub] = {}] \in [Subs -> SUBSET Clean] BY DEF Typed
<1>3. Base \in SUBSET Clean /\ OnePerAddress(Base) BY <1>2, AskedIsClean DEF Base
<1> QED BY <1>1, <1>3

LEMMA JobOf ==
  ASSUME NEW op \in Ops, NEW sub \in Subs, NEW off \in SUBSET Filter, NEW clear \in BOOLEAN,
         NEW on \in SUBSET Filter, NEW clean \in BOOLEAN
  PROVE  [op |-> op, sub |-> sub, off |-> off, clear |-> clear, on |-> on, clean |-> clean] \in Job
BY DEF Job

LEMMA SyncIs ==
  ASSUME NEW op \in Ops, NEW sub \in Subs, NEW prev \in SUBSET Clean, NEW next \in SUBSET Clean
  PROVE  /\ Sync(op, sub, prev, next) \in Job
         /\ SyncOff(prev, next) \in SUBSET Clean /\ SyncOff(prev, next) \subseteq prev
         /\ \A f \in SyncOff(prev, next) : ~Keyed(next, f)
         /\ SyncOn(prev, next) \in SUBSET Clean /\ SyncOn(prev, next) \subseteq next
         /\ Clears(prev, next) => SyncOn(prev, next) = next
<1>1. /\ SyncOff(prev, next) \in SUBSET Clean /\ SyncOff(prev, next) \subseteq prev
      /\ \A f \in SyncOff(prev, next) : ~Keyed(next, f)
      /\ SyncOn(prev, next) \in SUBSET Clean /\ SyncOn(prev, next) \subseteq next
      /\ Clears(prev, next) => SyncOn(prev, next) = next
  BY DEF SyncOff, SyncOn
<1>2. SyncOff(prev, next) \in SUBSET Filter /\ SyncOn(prev, next) \in SUBSET Filter
  BY <1>1, CleanIsFilter
<1>3. Clears(prev, next) \in BOOLEAN BY DEF Clears
<1>4. [op |-> op, sub |-> sub, off |-> SyncOff(prev, next), clear |-> Clears(prev, next),
       on |-> SyncOn(prev, next), clean |-> TRUE] \in Job
  BY ONLY <1>2, <1>3, TRUE \in BOOLEAN, op \in Ops, sub \in Subs, JobOf
<1>5. Sync(op, sub, prev, next) \in Job BY <1>4 DEF Sync, SyncOff, SyncOn
<1> QED BY <1>1, <1>5

LEMMA SyncFields ==
  ASSUME NEW op, NEW sub, NEW prev, NEW next
  PROVE  /\ Sync(op, sub, prev, next).op = op /\ Sync(op, sub, prev, next).sub = sub
         /\ Sync(op, sub, prev, next).off = SyncOff(prev, next)
         /\ Sync(op, sub, prev, next).clear = Clears(prev, next)
         /\ Sync(op, sub, prev, next).on = SyncOn(prev, next)
BY DEF Sync, SyncOff, SyncOn

LEMMA IdleIs ==
  ASSUME Typed
  PROVE  /\ Idle \in Job /\ Idle.op = "none" /\ Idle.sub = job.sub
         /\ Idle.off = {} /\ Idle.on = {} /\ Idle.clear = FALSE /\ Idle.clean = TRUE
BY DEF Typed, Job, Idle, Ops

\* With no call under way the job has nothing left.
LEMMA AtRest ==
  ASSUME CatchInv, AllSent
  PROVE  /\ Final = catchBox
         /\ job.op # "reset" /\ "stale" \notin rift => \A g \in catchBox : Keyed(desired, g)
<1>1. job.off = {} /\ ~job.clear /\ job.on = {} BY DEF AllSent
<1>2. \A g : ~Keyed({}, g) BY DEF Keyed
<1>3. job.clear = FALSE BY <1>1 DEF CatchInv, Typed, Job
<1>4. Final = catchBox BY <1>1, <1>2, <1>3 DEF Final, FinalOf
<1> QED BY <1>1, <1>2, <1>4 DEF CatchInv, NoneOdd

\* A state with no job under way is in the invariant when the box is the union,
\* or is known not to be.
LEMMA Resting ==
  ASSUME Typed, LockFree, AllSent,
         rift = {} => catchBox = desired,
         AtMostOwed => catchBox \subseteq desired,
         "stale" \notin rift => \A g \in catchBox : Keyed(desired, g),
         FullIsStale
  PROVE  CatchInv
<1>1. job.off = {} /\ job.clear = FALSE /\ job.on = {} /\ job.op = "none"
  BY DEF AllSent, LockFree, Typed, Job
<1>2. \A g : ~Keyed({}, g) BY DEF Keyed
<1>3. Final = catchBox BY <1>1, <1>2 DEF Final, FinalOf
<1>4. Shape BY <1>1 DEF Shape, AllSent
<1>5. Ahead BY <1>1, <1>3 DEF Ahead
<1>6. WayBack /\ Again BY <1>1 DEF WayBack, Again
<1>7. NoneOdd BY <1>1 DEF NoneOdd
<1> QED BY <1>4, <1>5, <1>6, <1>7 DEF CatchInv

LEMMA RestingNext ==
  ASSUME Typed', LockFree', AllSent',
         rift' = {} => catchBox' = desired',
         AtMostOwed' => catchBox' \subseteq desired',
         "stale" \notin rift' => \A g \in catchBox' : Keyed(desired', g),
         FullIsStale'
  PROVE  CatchInv'
<1>1. job'.off = {} /\ job'.clear = FALSE /\ job'.on = {} /\ job'.op = "none"
  BY DEF AllSent, LockFree, Typed, Job
<1>2. \A g : ~Keyed({}, g) BY DEF Keyed
<1>3. Final' = catchBox' BY <1>1, <1>2 DEF Final, FinalOf
<1>4. Shape' BY <1>1 DEF Shape, AllSent
<1>5. Ahead' BY <1>1, <1>3 DEF Ahead
<1>6. WayBack' /\ Again' BY <1>1 DEF WayBack, Again
<1>7. NoneOdd' BY <1>1 DEF NoneOdd
<1> QED BY <1>4, <1>5, <1>6, <1>7 DEF CatchInv

-----------------------------------------------------------------------------
(* The calls.                                                               *)

\* What a call that changes the table leaves, whatever the call is: everything
\* of the invariant but the way back.
LEMMA ChangeKeeps ==
  ASSUME CatchInv, LockFree, Typed', UNCHANGED <<catchBox, rift>>,
         NEW op \in {"subscribe", "unsubscribe"}, NEW s \in Subs,
         Sync(op, s, desired, desired') = job',
         op = "subscribe" => Base' = desired
  PROVE  CatchInv'
<1>1. AllSent BY DEF CatchInv, Shape
<1>2. Typed /\ OnePerAddress(desired) /\ desired \in SUBSET Clean
  BY Tables DEF CatchInv
<1>3. OnePerAddress(desired') /\ desired' \in SUBSET Clean
  <2>1. subs' \in [Subs -> SUBSET Clean] /\ desired' = Union(subs') BY DEF Typed
  <2> QED BY <2>1, AskedIsClean
<1>4. /\ job'.op = op /\ job'.clear = Clears(desired, desired')
      /\ job'.off = SyncOff(desired, desired') /\ job'.on = SyncOn(desired, desired')
      /\ SyncOff(desired, desired') \subseteq desired
      /\ \A f \in SyncOff(desired, desired') : ~Keyed(desired', f)
      /\ SyncOn(desired, desired') \subseteq desired'
      /\ Clears(desired, desired') => SyncOn(desired, desired') = desired'
  <2>1. op \in Ops BY DEF Ops
  <2>2. /\ SyncOff(desired, desired') \subseteq desired
        /\ \A f \in SyncOff(desired, desired') : ~Keyed(desired', f)
        /\ SyncOn(desired, desired') \subseteq desired'
        /\ Clears(desired, desired') => SyncOn(desired, desired') = desired'
    BY ONLY <1>2, <1>3, <2>1, s \in Subs, SyncIs
  <2> QED BY <2>2, SyncFields
<1>5. /\ rift = {} => catchBox = desired
      /\ AtMostOwed => catchBox \subseteq desired
      /\ "stale" \notin rift => \A g \in catchBox : Keyed(desired, g)
  <2>1. job.op # "reset" BY DEF LockFree
  <2>2. Final = catchBox BY <1>1, AtRest
  <2>3. "stale" \notin rift => \A g \in catchBox : Keyed(desired, g) BY <1>1, <2>1, AtRest
  <2> QED BY <2>1, <2>2, <2>3 DEF CatchInv, Ahead
<1>6. rift' = rift /\ catchBox' = catchBox /\ (AtMostOwed' <=> AtMostOwed) BY DEF AtMostOwed
<1>7. Shape'
  <2>1. op = "subscribe" => job'.off \subseteq Base' /\ (job'.clear => Clears(Base', desired'))
    BY <1>4
  <2>2. job'.op # "none" /\ job'.op # "reset" /\ job'.op # "resend" BY <1>4
  <2> QED BY <1>4, <2>1, <2>2 DEF Shape, LockFree
<1>8. Ahead'
  <2>1. ASSUME AtMostOwed
        PROVE  /\ FinalOf(catchBox, job'.off, job'.clear, job'.on) \subseteq desired'
               /\ desired \cap desired' \subseteq catchBox
                    => FinalOf(catchBox, job'.off, job'.clear, job'.on) = desired'
    <3>1. catchBox \subseteq desired \cup desired' BY <1>5, <2>1
    <3> QED BY ONLY <1>2, <1>3, <1>4, <3>1, SyncLeads
  <2>2. Final' = FinalOf(catchBox, job'.off, job'.clear, job'.on) BY <1>6 DEF Final
  <2>3. rift = {} => AtMostOwed /\ desired \cap desired' \subseteq catchBox
    BY <1>5 DEF AtMostOwed
  <2> QED BY <1>6, <2>1, <2>2, <2>3 DEF Ahead
<1>9. WayBack'
  <2> SUFFICES ASSUME op = "subscribe"
               PROVE  /\ AtMostOwed => catchBox \subseteq Base' \cup desired'
                      /\ rift = {} => Base' \cap desired' \subseteq catchBox
    BY <1>4, <1>6 DEF WayBack
  <2> QED BY <1>5
<1>10. Again' BY <1>4 DEF Again
<1>11. NoneOdd'
  <2> SUFFICES ASSUME "stale" \notin rift, NEW g \in catchBox
               PROVE  /\ ~job'.clear => Keyed(desired', g) \/ Keyed(job'.off, g)
                      /\ op = "subscribe" => Keyed(Base', g)
    BY <1>4, <1>6 DEF NoneOdd
  <2>1. Keyed(desired, g) BY <1>5
  <2>2. ~job'.clear => Keyed(desired', g) \/ Keyed(job'.off, g) BY <1>4, <2>1, SyncNames
  <2> QED BY <2>1, <2>2
<1>12. FullIsStale' BY <1>6 DEF CatchInv, FullIsStale
<1> QED BY <1>7, <1>8, <1>9, <1>10, <1>11, <1>12 DEF CatchInv

LEMMA CountsCalls == ASSUME Typed, Called PROVE catchCalls' \in 0 .. MaxCatchCalls
BY CatchBoundAssumption DEF Typed, Called

LEMMA SubscribeKeeps ==
  ASSUME CatchInv, NEW s \in Subs, NEW filters \in Asks, Subscribe(s, filters)
  PROVE  CatchInv'
<1> DEFINE registry == [subs EXCEPT ![s] = Collapse(filters)]
<1>1. /\ Called /\ subs[s] = {} /\ Prepared(filters) /\ catchBox' = catchBox /\ rift' = rift
      /\ \/ subs' = subs /\ desired' = desired /\ job' = job
         \/ /\ subs' = registry /\ desired' = Union(registry)
            /\ job' = Sync("subscribe", s, Union(subs), Union(registry))
  BY DEF Subscribe
<1>2. Typed BY DEF CatchInv
<1>3. LockFree /\ UNCHANGED <<catchFailures, catchReleases>> BY <1>1 DEF Called
<1>4. catchCalls' \in 0 .. MaxCatchCalls BY <1>1, <1>2, CountsCalls
<1>5. CASE subs' = subs /\ desired' = desired /\ job' = job
  <2>1. Typed' BY <1>1, <1>2, <1>3, <1>4, <1>5 DEF Typed
  <2> QED BY <1>1, <1>5, <2>1
       DEF CatchInv, Shape, Ahead, WayBack, Again, NoneOdd, FullIsStale, Base, Final, AtMostOwed,
           LockFree, AllSent
<1>6. CASE /\ subs' = registry /\ desired' = Union(registry)
           /\ job' = Sync("subscribe", s, Union(subs), Union(registry))
  <2>1. registry \in [Subs -> SUBSET Clean] BY <1>1, <1>2, PreparedIsClean DEF Typed
  <2>2. Union(registry) \in SUBSET Clean BY <2>1, AskedIsClean
  <2>3. Union(subs) = desired /\ desired \in SUBSET Clean BY <1>2, Tables DEF Typed
  <2>4. job' \in Job /\ job'.sub = s /\ job'.off \in SUBSET Clean /\ job'.on \in SUBSET Clean
    <3>1. "subscribe" \in Ops BY DEF Ops
    <3>2. Sync("subscribe", s, desired, desired') = job' BY <1>6, <2>3
    <3>3. desired \in SUBSET Clean /\ desired' \in SUBSET Clean BY <1>6, <2>2, <2>3
    <3>4. /\ Sync("subscribe", s, desired, desired') \in Job
          /\ SyncOff(desired, desired') \in SUBSET Clean /\ SyncOn(desired, desired') \in SUBSET Clean
      BY ONLY <3>1, <3>3, s \in Subs, SyncIs
    <3>5. job' \in Job BY ONLY <3>2, <3>4
    <3>6. /\ job'.sub = s
          /\ job'.off = SyncOff(desired, desired') /\ job'.on = SyncOn(desired, desired')
      BY ONLY <3>2, SyncFields
    <3> QED BY ONLY <3>4, <3>5, <3>6
  <2>5. Typed'
    <3> HIDE DEF registry
    <3> QED BY <1>1, <1>2, <1>3, <1>4, <1>6, <2>1, <2>4 DEF Typed
  <2>6. Base' = desired
    <3>1. [registry EXCEPT ![s] = {}] = subs BY <1>1, <1>2 DEF Typed
    <3>2. [subs' EXCEPT ![job'.sub] = {}] = subs BY <1>6, <2>4, <3>1
    <3>3. Base' = Union([subs' EXCEPT ![job'.sub] = {}]) BY DEF Base
    <3> QED BY <2>3, <3>2, <3>3
  <2>7. Sync("subscribe", s, desired, desired') = job' BY <1>6, <2>3
  <2> QED BY <1>1, <1>3, <2>5, <2>6, <2>7, ChangeKeeps
<1> HIDE DEF registry
<1> QED BY <1>1, <1>5, <1>6

LEMMA UnsubscribeKeeps ==
  ASSUME CatchInv, NEW s \in Subs, Unsubscribe(s)
  PROVE  CatchInv'
<1>1. /\ Called /\ subs' = [subs EXCEPT ![s] = {}] /\ desired' = Union(subs')
      /\ job' = Sync("unsubscribe", s, Union(subs), desired')
      /\ catchBox' = catchBox /\ rift' = rift
  BY DEF Unsubscribe, Detach
<1>2. Typed BY DEF CatchInv
<1>3. LockFree /\ UNCHANGED <<catchFailures, catchReleases>> BY <1>1 DEF Called
<1>4. catchCalls' \in 0 .. MaxCatchCalls BY <1>1, <1>2, CountsCalls
<1>5. subs' \in [Subs -> SUBSET Clean] BY <1>1, <1>2 DEF Typed
<1>6. desired' \in SUBSET Clean BY <1>1, <1>5, AskedIsClean
<1>7. Union(subs) = desired /\ desired \in SUBSET Clean BY <1>2, Tables DEF Typed
<1>8. job' \in Job /\ job'.off \in SUBSET Clean /\ job'.on \in SUBSET Clean
  <2>1. "unsubscribe" \in Ops BY DEF Ops
  <2>2. Sync("unsubscribe", s, desired, desired') = job' BY <1>1, <1>7
  <2>3. /\ Sync("unsubscribe", s, desired, desired') \in Job
        /\ SyncOff(desired, desired') \in SUBSET Clean /\ SyncOn(desired, desired') \in SUBSET Clean
    <3>1. desired \in SUBSET Clean BY <1>7
    <3> QED BY ONLY <1>6, <2>1, <3>1, s \in Subs, SyncIs
  <2>4. job' \in Job BY ONLY <2>2, <2>3
  <2>5. job'.off = SyncOff(desired, desired') /\ job'.on = SyncOn(desired, desired')
    BY ONLY <2>2, SyncFields
  <2> QED BY ONLY <2>3, <2>4, <2>5
<1>9. Typed' BY <1>1, <1>2, <1>3, <1>4, <1>5, <1>8 DEF Typed
<1>10. Sync("unsubscribe", s, desired, desired') = job' BY <1>1, <1>7
<1> QED BY <1>1, <1>3, <1>9, <1>10, ChangeKeeps

LEMMA ResetKeeps == ASSUME CatchInv, CatchReset PROVE CatchInv'
<1>1. /\ Called /\ subs' = [s \in Subs |-> {}] /\ desired' = {} /\ catchBox' = catchBox /\ rift' = rift
      /\ job' = [Idle EXCEPT !.op = "reset", !.clear = TRUE]
  BY DEF CatchReset
<1>2. Typed BY DEF CatchInv
<1>3. job' \in Job /\ job'.op = "reset" /\ job'.off = {} /\ job'.on = {} /\ job'.clear = TRUE
  <2>1. job' = [op |-> "reset", sub |-> job.sub, off |-> {}, clear |-> TRUE, on |-> {}, clean |-> TRUE]
    BY <1>1 DEF Idle
  <2>2. job.sub \in Subs BY <1>2 DEF Typed, Job
  <2>3. "reset" \in Ops BY DEF Ops
  <2> QED BY ONLY <2>1, <2>2, <2>3, TRUE \in BOOLEAN, JobOf
<1>4. Typed'
  <2>1. catchCalls' \in 0 .. MaxCatchCalls BY <1>1, <1>2, CountsCalls
  <2>2. UNCHANGED <<catchFailures, catchReleases>> BY <1>1 DEF Called
  <2>3. Asked(subs') = {} BY <1>1 DEF Asked
  <2>4. Union(subs') = {} BY <2>3, UnionOfNone DEF Union
  <2>5. subs' \in [Subs -> SUBSET Clean] BY <1>1
  <2> QED BY <1>1, <1>2, <1>3, <2>1, <2>2, <2>4, <2>5 DEF Typed
<1>5. Shape' BY <1>1, <1>3 DEF Shape, LockFree
<1>6. Ahead' /\ WayBack' /\ Again' /\ NoneOdd' BY <1>3 DEF Ahead, WayBack, Again, NoneOdd
<1>7. FullIsStale' BY <1>1 DEF CatchInv, FullIsStale
<1> QED BY <1>4, <1>5, <1>6, <1>7 DEF CatchInv

LEMMA ResendKeeps == ASSUME CatchInv, Resend PROVE CatchInv'
<1>1. /\ LockFree /\ job' = [Idle EXCEPT !.op = "resend", !.on = desired]
      /\ subs' = subs /\ desired' = desired /\ catchBox' = catchBox /\ rift' = rift
      /\ UNCHANGED catchBounds
  BY DEF Resend
<1>2. Typed /\ AllSent /\ desired \in SUBSET Clean /\ OnePerAddress(desired)
  BY <1>1, Tables DEF CatchInv, Shape
<1>3. /\ job' \in Job /\ job'.op = "resend" /\ job'.off = {} /\ job'.on = desired
      /\ job'.clear = FALSE
  <2>1. job' = [op |-> "resend", sub |-> job.sub, off |-> {}, clear |-> FALSE, on |-> desired,
                clean |-> TRUE]
    BY <1>1 DEF Idle
  <2>2. job.sub \in Subs BY <1>2 DEF Typed, Job
  <2>3. "resend" \in Ops BY DEF Ops
  <2>4. desired \in SUBSET Filter BY <1>2, CleanIsFilter
  <2> QED BY ONLY <2>1, <2>2, <2>3, <2>4, TRUE \in BOOLEAN, FALSE \in BOOLEAN, JobOf
<1>4. Typed' BY <1>1, <1>2, <1>3 DEF Typed, catchBounds
<1>5. /\ rift = {} => catchBox = desired
      /\ AtMostOwed => catchBox \subseteq desired
      /\ "stale" \notin rift => \A g \in catchBox : Keyed(desired, g)
  <2>1. job.op # "reset" BY <1>1 DEF LockFree
  <2>2. Final = catchBox BY <1>2, AtRest
  <2>3. "stale" \notin rift => \A g \in catchBox : Keyed(desired, g) BY <1>2, <2>1, AtRest
  <2> QED BY <2>1, <2>2, <2>3 DEF CatchInv, Ahead
<1>6. AtMostOwed' <=> AtMostOwed BY <1>1 DEF AtMostOwed
<1>7. Shape' BY <1>1, <1>3 DEF Shape, LockFree
<1>8. Ahead'
  <2>1. Final' = {g \in catchBox : ~Keyed({}, g) /\ ~Keyed(desired, g)} \cup desired
    BY <1>1, <1>3 DEF Final, FinalOf
  <2>2. \A g \in desired : Keyed(desired, g) BY AddressIsEquality DEF Keyed
  <2>3. AtMostOwed => Final' = desired BY <1>5, <2>1, <2>2
  <2>4. rift = {} => AtMostOwed BY DEF AtMostOwed
  <2> QED BY <1>1, <1>6, <2>3, <2>4 DEF Ahead
<1>9. WayBack' BY <1>3 DEF WayBack
<1>10. Again' BY <1>1, <1>3, <1>5, <1>6 DEF Again
<1>11. NoneOdd' BY <1>1, <1>3, <1>5 DEF NoneOdd
<1>12. FullIsStale' BY <1>1 DEF CatchInv, FullIsStale
<1> QED BY <1>4, <1>7, <1>8, <1>9, <1>10, <1>11, <1>12 DEF CatchInv

-----------------------------------------------------------------------------
(* The frames.                                                              *)

LEMMA SendOffKeeps == ASSUME CatchInv, SendOff PROVE CatchInv'
<1>1. PICK f \in job.off :
        /\ catchBox' = Removed(catchBox, f)
        /\ job' = [job EXCEPT !.off = @ \ {f}]
        /\ subs' = subs /\ desired' = desired /\ rift' = rift /\ UNCHANGED catchBounds
  BY DEF SendOff
<1>2. Typed /\ f \in Clean /\ catchBox \in SUBSET Clean /\ OnePerAddress(catchBox)
  BY <1>1 DEF CatchInv, Typed
<1>3. /\ job' \in Job /\ job'.op = job.op /\ job'.sub = job.sub /\ job'.off = job.off \ {f}
      /\ job'.clear = job.clear /\ job'.on = job.on /\ job'.clean = job.clean
  <2>1. job \in Job BY <1>2 DEF Typed
  <2> QED BY ONLY <1>1, <2>1 DEF Job
<1>4. catchBox' = {g \in catchBox : ~SameAddress(g, f)} BY <1>1, <1>2, RemovedHolds
<1>5. Typed'
  <2>1. catchBox' \in SUBSET Clean /\ OnePerAddress(catchBox')
    BY <1>1, <1>2, RemovedHolds
  <2>2. Cardinality(catchBox') <= CatchLimit
    <3>1. Cardinality(catchBox') <= Cardinality(catchBox) BY <1>1, <1>2, RemovedHolds
    <3>2. Cardinality(catchBox) \in Nat /\ Cardinality(catchBox') \in Nat
      BY <1>2, <2>1, TablesFinite, CleanIsFilter
    <3>3. Cardinality(catchBox) <= CatchLimit BY <1>2 DEF Typed
    <3> QED BY ONLY <3>1, <3>2, <3>3, CatchLimitAssumption
  <2> QED BY <1>1, <1>2, <1>3, <2>1, <2>2 DEF Typed, catchBounds
<1>6. Base' = Base /\ (AtMostOwed' <=> AtMostOwed) BY <1>1, <1>3 DEF Base, AtMostOwed
<1>7. Final' = Final
  <2>1. FinalOf(Removed(catchBox, f), job.off \ {f}, job.clear, job.on)
          = FinalOf(catchBox, job.off, job.clear, job.on)
    <3>1. job.off \in SUBSET Clean /\ job.clear \in BOOLEAN BY <1>2 DEF Typed, Job
    <3> QED BY ONLY <1>1, <1>2, <3>1, RemovedLeads
  <2> QED BY <1>1, <1>3, <2>1 DEF Final
<1>8. /\ job.op # "none" /\ job.op # "reset" /\ job.op # "resend" /\ ~Keyed(desired, f)
  BY <1>1 DEF CatchInv, Shape, LockFree, AllSent
<1>9. Shape' BY <1>1, <1>3, <1>6, <1>8 DEF CatchInv, Shape, LockFree
<1>10. Ahead' BY <1>1, <1>3, <1>6, <1>7 DEF CatchInv, Ahead
<1>11. WayBack'
  <2>1. \A g \in desired : ~SameAddress(g, f) BY <1>8, AddressIsEquality DEF Keyed
  <2> QED BY <1>1, <1>3, <1>4, <1>6, <2>1 DEF CatchInv, WayBack
<1>12. Again' BY <1>3, <1>8 DEF Again
<1>13. NoneOdd'
  <2>1. ASSUME NEW g \in catchBox', Keyed(job.off, g) PROVE Keyed(job'.off, g)
    BY <1>3, <1>4, <2>1, AddressIsEquality DEF Keyed
  <2> QED BY <1>1, <1>3, <1>4, <1>6, <2>1 DEF CatchInv, NoneOdd
<1>14. FullIsStale' BY <1>1 DEF CatchInv, FullIsStale
<1> QED BY <1>5, <1>9, <1>10, <1>11, <1>12, <1>13, <1>14 DEF CatchInv

LEMMA SendClearKeeps == ASSUME CatchInv, SendClear PROVE CatchInv'
<1>1. /\ job.off = {} /\ job.clear /\ catchBox' = {} /\ job' = [job EXCEPT !.clear = FALSE]
      /\ rift' = rift \ {"stale", "full", "over"}
      /\ subs' = subs /\ desired' = desired /\ UNCHANGED catchBounds
  BY DEF SendClear
<1>2. Typed /\ job \in Job BY DEF CatchInv, Typed
<1>3. /\ job' \in Job /\ job'.op = job.op /\ job'.sub = job.sub /\ job'.off = {}
      /\ job'.clear = FALSE /\ job'.on = job.on /\ job'.clean = job.clean
  BY ONLY <1>1, <1>2 DEF Job
<1>4. Typed'
  <2>1. rift' \in Rifts BY <1>1, <1>2 DEF Typed, Rifts
  <2>2. OnePerAddress({}) BY DEF OnePerAddress
  <2>3. Cardinality({}) = 0 /\ 0 <= CatchLimit BY FS_EmptySet, CatchLimitAssumption
  <2> QED BY <1>1, <1>2, <1>3, <2>1, <2>2, <2>3 DEF Typed, catchBounds
<1>5. Base' = Base BY <1>1, <1>3 DEF Base
<1>6. job.op # "none" /\ job.op # "resend" /\ job.on = desired
  BY <1>1 DEF CatchInv, Shape, LockFree, AllSent
<1>7. Shape' BY <1>1, <1>3, <1>5, <1>6 DEF CatchInv, Shape, LockFree
<1>8. Ahead'
  <2>1. Final' = desired BY <1>1, <1>3, <1>6 DEF Final, FinalOf
  <2> QED BY <1>1, <2>1 DEF Ahead
<1>9. WayBack'
  <2>1. job.op = "subscribe" => Clears(Base, desired) BY <1>1 DEF CatchInv, Shape
  <2> QED BY <1>1, <1>3, <1>5, <2>1 DEF WayBack
<1>10. Again' BY <1>3, <1>6 DEF Again
<1>11. NoneOdd' BY <1>1 DEF NoneOdd
<1>12. FullIsStale' BY <1>1 DEF FullIsStale
<1> QED BY <1>4, <1>7, <1>8, <1>9, <1>10, <1>11, <1>12 DEF CatchInv

LEMMA SendOnKeeps == ASSUME CatchInv, SendOn PROVE CatchInv'
<1>1. PICK f \in job.on :
        /\ job.off = {} /\ ~job.clear
        /\ catchBox' = Added(catchBox, f)
        /\ rift' = IF Room(catchBox, f) THEN rift
                   ELSE rift \cup {IF Cardinality(desired) > CatchLimit THEN "over" ELSE "full"}
        /\ job' = [job EXCEPT !.on = @ \ {f}]
        /\ subs' = subs /\ desired' = desired /\ UNCHANGED catchBounds
  BY DEF SendOn
<1>2. /\ Typed /\ job \in Job /\ f \in Clean /\ catchBox \in SUBSET Clean /\ OnePerAddress(catchBox)
      /\ Cardinality(catchBox) <= CatchLimit /\ job.on \in SUBSET Clean /\ job.clear = FALSE
  BY <1>1 DEF CatchInv, Typed, Job
<1>3. /\ job' \in Job /\ job'.op = job.op /\ job'.sub = job.sub /\ job'.off = {}
      /\ job'.clear = FALSE /\ job'.on = job.on \ {f} /\ job'.clean = job.clean
  BY ONLY <1>1, <1>2 DEF Job
<1>4. /\ desired \in SUBSET Clean /\ OnePerAddress(desired) /\ job.on \subseteq desired
      /\ f \in desired /\ OnePerAddress(job.on)
  <2>1. desired \in SUBSET Clean /\ OnePerAddress(desired) BY <1>2, Tables
  <2>2. job.on \subseteq desired BY DEF CatchInv, Shape
  <2> QED BY <1>1, <2>1, <2>2 DEF OnePerAddress
<1>5. job.op # "none" /\ job.op # "reset" BY <1>1 DEF CatchInv, Shape, LockFree, AllSent
<1>6. Base' = Base BY <1>1, <1>3 DEF Base
<1>7. Shape' BY <1>1, <1>3, <1>4, <1>5, <1>6 DEF CatchInv, Shape, LockFree
<1>8. CASE Room(catchBox, f)
  <2>1. /\ catchBox' = {g \in catchBox : ~SameAddress(g, f)} \cup {f}
        /\ catchBox' \in SUBSET Clean /\ OnePerAddress(catchBox')
        /\ Cardinality(catchBox') <= CatchLimit
    BY <1>1, <1>2, <1>8, AddedHolds
  <2>2. rift' = rift /\ (AtMostOwed' <=> AtMostOwed) BY <1>1, <1>8 DEF AtMostOwed
  <2>3. Typed' BY <1>1, <1>2, <1>3, <2>1, <2>2 DEF Typed, catchBounds
  <2>4. Final' = Final
    <3>1. FinalOf(Added(catchBox, f), {}, FALSE, job.on \ {f}) = FinalOf(catchBox, {}, FALSE, job.on)
      BY ONLY <1>1, <1>2, <1>4, <1>8, AddedLeads
    <3> QED BY <1>1, <1>2, <1>3, <3>1 DEF Final
  <2>5. Ahead' BY <1>1, <1>3, <2>2, <2>4 DEF CatchInv, Ahead
  <2>6. \A d \in desired : d \in catchBox => d \in catchBox'
    BY <1>4, <2>1 DEF OnePerAddress
  <2>7. WayBack' BY <1>1, <1>3, <1>4, <1>6, <2>1, <2>2, <2>6, <1>2 DEF CatchInv, WayBack
  <2>8. Again'
    <3> SUFFICES ASSUME job.op = "resend"
                 PROVE  /\ AtMostOwed => catchBox' \subseteq desired
                        /\ rift = {} => catchBox' = desired
                        /\ job.clean /\ AtMostOwed => desired \ (job.on \ {f}) \subseteq catchBox'
      BY <1>1, <1>3, <2>2 DEF Again
    <3>1. /\ AtMostOwed => catchBox \subseteq desired
          /\ rift = {} => catchBox = desired
          /\ job.clean /\ AtMostOwed => desired \ job.on \subseteq catchBox
      BY DEF CatchInv, Again
    <3>2. AtMostOwed => catchBox' \subseteq desired BY <1>4, <2>1, <3>1
    <3>3. rift = {} => AtMostOwed BY DEF AtMostOwed
    <3> QED BY <2>1, <2>6, <3>1, <3>2, <3>3
  <2>9. NoneOdd'
    <3>1. Keyed(desired, f) BY <1>4, AddressIsEquality DEF Keyed
    <3>2. "stale" \notin rift => \A g \in catchBox : Keyed(desired, g) \/ Keyed({}, g)
      BY <1>1, <1>2, <1>5 DEF CatchInv, NoneOdd
    <3> QED BY <1>1, <1>3, <2>1, <2>2, <3>1, <3>2 DEF NoneOdd
  <2>10. FullIsStale' BY <2>2 DEF CatchInv, FullIsStale
  <2> QED BY <1>7, <2>3, <2>5, <2>7, <2>8, <2>9, <2>10 DEF CatchInv
<1>9. CASE ~Room(catchBox, f)
  <2>1. catchBox' = catchBox BY <1>1, <1>9 DEF Added
  <2>2. /\ rift' = rift \cup {IF Cardinality(desired) > CatchLimit THEN "over" ELSE "full"}
        /\ rift' # {} /\ ~AtMostOwed' /\ rift' \in Rifts
    <3>1. rift \in Rifts BY <1>2 DEF Typed
    <3>2. rift' = rift \cup {IF Cardinality(desired) > CatchLimit THEN "over" ELSE "full"}
      BY <1>1, <1>9
    <3>3. "over" \in rift' \/ "full" \in rift' BY <3>2
    <3> QED BY <3>1, <3>2, <3>3 DEF AtMostOwed, Rifts
  <2>3. Typed' BY <1>1, <1>2, <1>3, <2>1, <2>2 DEF Typed, catchBounds
  <2>4. Ahead' /\ WayBack' /\ Again' BY <2>2 DEF Ahead, WayBack, Again
  <2>5. "stale" \in rift' <=> "stale" \in rift BY <2>2
  <2>6. "stale" \notin rift => \A g \in catchBox : Keyed(desired, g)
    <3>1. \A g : ~Keyed({}, g) BY DEF Keyed
    <3> QED BY <1>1, <1>5, <3>1 DEF CatchInv, NoneOdd
  <2>7. NoneOdd' BY <1>1, <1>3, <2>1, <2>5, <2>6 DEF NoneOdd
  <2>8. FullIsStale'
    <3>1. ASSUME "stale" \notin rift, ~(Cardinality(desired) > CatchLimit) PROVE FALSE
      <4>1. Cardinality(desired) \in Nat BY <1>4, TablesFinite, CleanIsFilter
      <4>2. Cardinality(desired) <= CatchLimit BY <3>1, <4>1, CatchLimitAssumption
      <4>3. Room(catchBox, f) BY ONLY <1>2, <1>4, <2>6, <3>1, <4>2, RoomForUnion
      <4> QED BY <1>9, <4>3
    <3>2. "full" \in rift => "stale" \in rift BY DEF CatchInv, FullIsStale
    <3> QED BY <2>2, <2>5, <3>1, <3>2 DEF FullIsStale
  <2> QED BY <1>7, <2>3, <2>4, <2>7, <2>8 DEF CatchInv
<1> QED BY <1>8, <1>9

\* What is known of the box when nothing is left to write.
LEMMA AtRestHolds ==
  ASSUME CatchInv, AllSent, job.op # "reset"
  PROVE  /\ rift = {} => catchBox = desired
         /\ AtMostOwed => catchBox \subseteq desired
         /\ "stale" \notin rift => \A g \in catchBox : Keyed(desired, g)
<1>1. Final = catchBox BY AtRest
<1>2. "stale" \notin rift => \A g \in catchBox : Keyed(desired, g) BY AtRest
<1> QED BY <1>1, <1>2 DEF CatchInv, Ahead

LEMMA IdleTyped ==
  ASSUME Typed, job' = Idle, subs' = subs, desired' = desired,
         catchBox' \in SUBSET Clean, OnePerAddress(catchBox'), Cardinality(catchBox') <= CatchLimit,
         rift' \in Rifts, UNCHANGED catchBounds \/ Failed
  PROVE  Typed' /\ LockFree' /\ AllSent'
<1>1. /\ job' \in Job /\ job'.op = "none" /\ job'.off = {} /\ job'.on = {} /\ job'.clear = FALSE
  BY IdleIs
<1>2. /\ catchCalls' \in 0 .. MaxCatchCalls /\ catchFailures' \in 0 .. MaxCatchFailures
      /\ catchReleases' \in 0 .. MaxCatchReleases
  BY CatchBoundAssumption DEF Typed, catchBounds, Failed
<1>3. Typed' BY <1>1, <1>2 DEF Typed
<1>4. LockFree' /\ AllSent' BY <1>1 DEF LockFree, AllSent
<1> QED BY <1>3, <1>4

LEMMA SendResetKeeps == ASSUME CatchInv, SendReset PROVE CatchInv'
<1>1. /\ job.op = "reset" /\ job' = Idle /\ subs' = subs /\ desired' = desired
      /\ \/ catchBox' = {} /\ rift' = {} /\ UNCHANGED catchBounds
         \/ Failed /\ catchBox' = catchBox /\ rift' = IF catchBox = {} THEN rift ELSE rift \cup {"stale"}
  BY DEF SendReset
<1>2. Typed /\ rift \in Rifts /\ desired = {} BY <1>1 DEF CatchInv, Typed, Shape
<1>3. CASE catchBox' = {} /\ rift' = {} /\ UNCHANGED catchBounds
  <2>1. OnePerAddress({}) BY DEF OnePerAddress
  <2>2. Cardinality({}) <= CatchLimit BY FS_EmptySet, CatchLimitAssumption
  <2>3. Typed' /\ LockFree' /\ AllSent'
    BY <1>1, <1>2, <1>3, <2>1, <2>2, IdleTyped DEF Rifts
  <2>4. FullIsStale' BY <1>3 DEF FullIsStale
  <2> QED BY <1>1, <1>2, <1>3, <2>3, <2>4, RestingNext
<1>4. CASE Failed /\ catchBox' = catchBox /\ rift' = IF catchBox = {} THEN rift ELSE rift \cup {"stale"}
  <2>1. rift' \in Rifts BY <1>2, <1>4 DEF Rifts
  <2>2. Typed' /\ LockFree' /\ AllSent'
    <3>1. catchBox \in SUBSET Clean /\ OnePerAddress(catchBox) /\ Cardinality(catchBox) <= CatchLimit
      BY <1>2 DEF Typed
    <3> QED BY <1>1, <1>2, <1>4, <2>1, <3>1, IdleTyped
  <2>3. FullIsStale' BY <1>4 DEF CatchInv, FullIsStale
  <2>4. CASE catchBox = {} BY <1>1, <1>2, <1>4, <2>2, <2>3, <2>4, RestingNext
  <2>5. CASE catchBox # {}
    <3>1. "stale" \in rift' /\ rift' # {} /\ ~AtMostOwed' BY <1>4, <2>5 DEF AtMostOwed
    <3> QED BY <2>2, <2>3, <3>1, RestingNext
  <2> QED BY <2>4, <2>5
<1> QED BY <1>1, <1>3, <1>4

LEMMA ReturnKeeps == ASSUME CatchInv, Return PROVE CatchInv'
<1>1. /\ job.op # "reset" /\ AllSent /\ job' = Idle
      /\ rift' = IF job.op = "resend" /\ job.clean THEN rift \ {"owed"} ELSE rift
      /\ subs' = subs /\ desired' = desired /\ catchBox' = catchBox /\ UNCHANGED catchBounds
  BY DEF Return, Ops
<1>2. Typed /\ rift \in Rifts BY DEF CatchInv, Typed
<1>3. /\ rift = {} => catchBox = desired
      /\ AtMostOwed => catchBox \subseteq desired
      /\ "stale" \notin rift => \A g \in catchBox : Keyed(desired, g)
  BY <1>1, AtRestHolds
<1>4. Typed' /\ LockFree' /\ AllSent'
  <2>1. rift' \in Rifts BY <1>1, <1>2 DEF Rifts
  <2>2. catchBox \in SUBSET Clean /\ OnePerAddress(catchBox) /\ Cardinality(catchBox) <= CatchLimit
    BY <1>2 DEF Typed
  <2> QED BY <1>1, <1>2, <2>1, <2>2, IdleTyped
<1>5. FullIsStale' BY <1>1 DEF CatchInv, FullIsStale
<1>6. /\ AtMostOwed' => AtMostOwed
      /\ "stale" \in rift' <=> "stale" \in rift
      /\ rift' = {} => rift = {} \/ (rift \subseteq {"owed"} /\ job.op = "resend" /\ job.clean)
  BY <1>1 DEF AtMostOwed
<1>7. AtMostOwed /\ job.op = "resend" /\ job.clean => desired \subseteq catchBox
  <2>1. job.on = {} BY <1>1 DEF AllSent
  <2> QED BY <2>1 DEF CatchInv, Again
<1>8. rift' = {} => catchBox = desired BY <1>3, <1>6, <1>7 DEF AtMostOwed
<1> QED BY <1>1, <1>3, <1>4, <1>5, <1>6, <1>8, RestingNext

LEMMA NarrowFailsKeeps == ASSUME CatchInv, NarrowFails PROVE CatchInv'
<1>1. /\ Failed /\ job' = Idle /\ rift' = rift \cup {"stale"}
      /\ subs' = subs /\ desired' = desired /\ catchBox' = catchBox
  BY DEF NarrowFails
<1>2. Typed /\ rift \in Rifts BY DEF CatchInv, Typed
<1>3. Typed' /\ LockFree' /\ AllSent'
  <2>1. rift' \in Rifts BY <1>1, <1>2 DEF Rifts
  <2>2. catchBox \in SUBSET Clean /\ OnePerAddress(catchBox) /\ Cardinality(catchBox) <= CatchLimit
    BY <1>2 DEF Typed
  <2> QED BY <1>1, <1>2, <2>1, <2>2, IdleTyped
<1>4. "stale" \in rift' /\ rift' # {} /\ ~AtMostOwed' BY <1>1 DEF AtMostOwed
<1>5. FullIsStale' BY <1>4 DEF FullIsStale
<1> QED BY <1>3, <1>4, <1>5, RestingNext

LEMMA ResendFailsKeeps == ASSUME CatchInv, ResendFails PROVE CatchInv'
<1>1. PICK f \in job.on : job' = [job EXCEPT !.on = @ \ {f}, !.clean = FALSE]
  BY DEF ResendFails
<1>2. job.op = "resend" /\ Failed /\ subs' = subs /\ desired' = desired /\ catchBox' = catchBox /\ rift' = rift
  BY DEF ResendFails
<1>3. /\ Typed /\ job \in Job /\ job.on \in SUBSET Clean /\ job.off = {} /\ job.clear = FALSE
      /\ job.on \subseteq desired
  BY <1>2 DEF CatchInv, Typed, Shape, Job
<1>4. OnePerAddress(desired) BY <1>3, Tables
<1>5. /\ job' \in Job /\ job'.op = "resend" /\ job'.sub = job.sub /\ job'.off = {}
      /\ job'.clear = FALSE /\ job'.on = job.on \ {f} /\ job'.clean = FALSE
  BY ONLY <1>1, <1>2, <1>3 DEF Job
<1>6. Typed'
  <2>1. /\ catchCalls' \in 0 .. MaxCatchCalls /\ catchFailures' \in 0 .. MaxCatchFailures
        /\ catchReleases' \in 0 .. MaxCatchReleases
    BY <1>2, <1>3, CatchBoundAssumption DEF Typed, Failed
  <2> QED BY <1>2, <1>3, <1>5, <2>1 DEF Typed
<1>7. AtMostOwed' <=> AtMostOwed BY <1>2 DEF AtMostOwed
<1>8. /\ AtMostOwed => catchBox \subseteq desired
      /\ rift = {} => catchBox = desired
  BY <1>2 DEF CatchInv, Again
<1>9. Shape' BY <1>2, <1>3, <1>5 DEF Shape, LockFree
<1>10. Ahead'
  <2>1. \A g : ~Keyed({}, g) BY DEF Keyed
  <2>2. Final' = {g \in catchBox : ~Keyed(job.on \ {f}, g)} \cup (job.on \ {f})
    BY <1>2, <1>5, <2>1 DEF Final, FinalOf
  <2>3. \A g \in desired : g \in job.on \ {f} \/ ~Keyed(job.on \ {f}, g)
    BY <1>3, <1>4 DEF Keyed, OnePerAddress
  <2> QED BY <1>2, <1>3, <1>7, <1>8, <2>2, <2>3 DEF Ahead
<1>11. WayBack' BY <1>5 DEF WayBack
<1>12. Again' BY <1>2, <1>5, <1>7, <1>8 DEF Again
<1>13. NoneOdd' BY <1>2, <1>3, <1>5 DEF CatchInv, NoneOdd
<1>14. FullIsStale' BY <1>2 DEF CatchInv, FullIsStale
<1> QED BY <1>6, <1>9, <1>10, <1>11, <1>12, <1>13, <1>14 DEF CatchInv

LEMMA ClearFailsKeeps == ASSUME CatchInv, ClearFails PROVE CatchInv'
<1>1. /\ job.op = "reset" /\ job' = [job EXCEPT !.clear = FALSE] /\ Failed
      /\ subs' = subs /\ desired' = desired /\ catchBox' = catchBox /\ rift' = rift
  BY DEF ClearFails
<1>2. Typed /\ job \in Job /\ job.off = {} /\ job.on = {} /\ desired = {}
  BY <1>1 DEF CatchInv, Typed, Shape
<1>3. /\ job' \in Job /\ job'.op = "reset" /\ job'.off = {} /\ job'.clear = FALSE /\ job'.on = {}
  BY ONLY <1>1, <1>2 DEF Job
<1>4. Typed'
  <2>1. /\ catchCalls' \in 0 .. MaxCatchCalls /\ catchFailures' \in 0 .. MaxCatchFailures
        /\ catchReleases' \in 0 .. MaxCatchReleases
    BY <1>1, <1>2, CatchBoundAssumption DEF Typed, Failed
  <2> QED BY <1>1, <1>2, <1>3, <2>1 DEF Typed
<1>5. Shape' BY <1>1, <1>2, <1>3 DEF Shape, LockFree
<1>6. Ahead' /\ WayBack' /\ Again' /\ NoneOdd' BY <1>3 DEF Ahead, WayBack, Again, NoneOdd
<1>7. FullIsStale' BY <1>1 DEF CatchInv, FullIsStale
<1> QED BY <1>4, <1>5, <1>6, <1>7 DEF CatchInv

LEMMA ReleasedKeeps == ASSUME CatchInv, CatchReleased PROVE CatchInv'
<1>1. /\ catchReleases < MaxCatchReleases /\ catchReleases' = catchReleases + 1
      /\ catchBox' = {} /\ rift' = {"owed"} /\ job' = [job EXCEPT !.clean = FALSE]
      /\ subs' = subs /\ desired' = desired /\ UNCHANGED <<catchCalls, catchFailures>>
  BY DEF CatchReleased
<1>2. Typed /\ job \in Job BY DEF CatchInv, Typed
<1>3. /\ job' \in Job /\ job'.op = job.op /\ job'.sub = job.sub /\ job'.off = job.off
      /\ job'.clear = job.clear /\ job'.on = job.on /\ job'.clean = FALSE
  BY ONLY <1>1, <1>2 DEF Job
<1>4. Typed'
  <2>1. OnePerAddress({}) BY DEF OnePerAddress
  <2>2. Cardinality({}) <= CatchLimit BY FS_EmptySet, CatchLimitAssumption
  <2>3. catchReleases' \in 0 .. MaxCatchReleases BY <1>1, <1>2, CatchBoundAssumption DEF Typed
  <2>4. rift' \in Rifts BY <1>1 DEF Rifts
  <2> QED BY <1>1, <1>2, <1>3, <2>1, <2>2, <2>3, <2>4 DEF Typed
<1>5. Base' = Base BY <1>1, <1>3 DEF Base
<1>6. Shape' BY <1>1, <1>3, <1>5 DEF CatchInv, Shape, LockFree, AllSent
<1>7. Ahead'
  <2>1. Final' = job.on BY <1>1, <1>3 DEF Final, FinalOf
  <2>2. job.on \subseteq desired BY DEF CatchInv, Shape
  <2> QED BY <1>1, <2>1, <2>2 DEF Ahead
<1>8. WayBack' BY <1>1 DEF WayBack
<1>9. Again' BY <1>1, <1>3 DEF Again
<1>10. NoneOdd' BY <1>1 DEF NoneOdd
<1>11. FullIsStale' BY <1>1 DEF FullIsStale
<1> QED BY <1>4, <1>6, <1>7, <1>8, <1>9, <1>10, <1>11 DEF CatchInv

\* The way back of a subscription: what was sent is taken off again, or cleared.
LEMMA SubscribeFailsKeeps == ASSUME CatchInv, SubscribeFails PROVE CatchInv'
<1>1. /\ job.op = "subscribe" /\ Failed /\ subs' = [subs EXCEPT ![job.sub] = {}]
      /\ desired' = Union(subs') /\ job' = Sync("narrow", job.sub, desired, desired')
      /\ rift' = IF ClearedForGood THEN rift \cup {"owed"} ELSE rift
      /\ catchBox' = catchBox
  BY DEF SubscribeFails, Detach
<1>2. Typed /\ rift \in Rifts /\ job.sub \in Subs BY DEF CatchInv, Typed, Job
<1>3. desired' = Base BY <1>1 DEF Base
<1>4. /\ desired \in SUBSET Clean /\ OnePerAddress(desired)
      /\ desired' \in SUBSET Clean /\ OnePerAddress(desired')
  BY <1>2, <1>3, Tables
<1>5. /\ SyncOff(desired, desired') \in SUBSET Clean
      /\ \A f \in SyncOff(desired, desired') : ~Keyed(desired', f)
      /\ SyncOn(desired, desired') \in SUBSET Clean /\ SyncOn(desired, desired') \subseteq desired'
      /\ Clears(desired, desired') => SyncOn(desired, desired') = desired'
      /\ Sync("narrow", job.sub, desired, desired') \in Job
  <2>1. "narrow" \in Ops BY DEF Ops
  <2> QED BY ONLY <1>2, <1>4, <2>1, SyncIs
<1>6. /\ job' \in Job /\ job'.op = "narrow" /\ job'.clear = Clears(desired, desired')
      /\ job'.off = SyncOff(desired, desired') /\ job'.on = SyncOn(desired, desired')
  <2>1. job' = Sync("narrow", job.sub, desired, desired') BY <1>1
  <2>2. job' \in Job BY <1>5, <2>1
  <2> QED BY ONLY <2>1, <2>2 DEF Sync, SyncOff, SyncOn
<1>7. Typed'
  <2>1. /\ catchCalls' \in 0 .. MaxCatchCalls /\ catchFailures' \in 0 .. MaxCatchFailures
        /\ catchReleases' \in 0 .. MaxCatchReleases
    BY <1>1, <1>2, CatchBoundAssumption DEF Typed, Failed
  <2>2. rift' \in Rifts BY <1>1, <1>2 DEF Rifts
  <2>3. subs' \in [Subs -> SUBSET Clean] BY <1>1, <1>2 DEF Typed
  <2> QED BY <1>1, <1>2, <1>5, <1>6, <2>1, <2>2, <2>3 DEF Typed
<1>8. /\ AtMostOwed' => AtMostOwed
      /\ "stale" \in rift' <=> "stale" \in rift
      /\ "full" \in rift' <=> "full" \in rift
      /\ rift' = {} => rift = {} /\ ~ClearedForGood
  BY <1>1 DEF AtMostOwed
<1>9. Shape' BY <1>5, <1>6 DEF Shape, LockFree
<1>10. Ahead'
  <2>1. Final' = FinalOf(catchBox, SyncOff(desired, desired'), Clears(desired, desired'),
                         SyncOn(desired, desired'))
    BY <1>1, <1>6 DEF Final
  <2>2. ASSUME AtMostOwed
        PROVE  /\ Final' \subseteq desired'
               /\ Clears(desired, desired') \/ desired \cap desired' \subseteq catchBox
                    => Final' = desired'
    <3>1. catchBox \subseteq desired \cup desired' BY <1>1, <1>3, <2>2 DEF CatchInv, WayBack
    <3> QED BY ONLY <1>4, <2>1, <3>1, SyncLeads
  <2>3. rift' = {} => Clears(desired, desired') \/ desired \cap desired' \subseteq catchBox
    <3> SUFFICES ASSUME rift' = {}, ~Clears(desired, desired')
                 PROVE  desired \cap desired' \subseteq catchBox
      OBVIOUS
    <3>1. job.clear \/ ~Clears(desired', desired) BY <1>8 DEF ClearedForGood
    <3> QED BY <1>1, <1>3, <1>8, <3>1 DEF CatchInv, WayBack
  <2>4. rift' = {} => AtMostOwed' BY DEF AtMostOwed
  <2> QED BY <1>8, <2>2, <2>3, <2>4 DEF Ahead
<1>11. WayBack' /\ Again' BY <1>6 DEF WayBack, Again
<1>12. NoneOdd'
  <2> SUFFICES ASSUME "stale" \notin rift, ~Clears(desired, desired'), NEW g \in catchBox
               PROVE  Keyed(desired', g) \/ Keyed(SyncOff(desired, desired'), g)
    BY <1>1, <1>6, <1>8 DEF NoneOdd
  <2>1. CASE job.clear BY <1>1, <1>3, <2>1 DEF CatchInv, NoneOdd
  <2>2. CASE ~job.clear
    <3>1. Keyed(desired, g) \/ Keyed(job.off, g) BY <1>1, <2>2 DEF CatchInv, NoneOdd
    <3>2. CASE Keyed(desired, g) BY <3>2, SyncNames
    <3>3. CASE Keyed(job.off, g)
      <4>1. job.off \subseteq desired' BY <1>1, <1>3 DEF CatchInv, Shape
      <4> QED BY <3>3, <4>1 DEF Keyed
    <3> QED BY <3>1, <3>2, <3>3
  <2> QED BY <2>1, <2>2
<1>13. FullIsStale' BY <1>8 DEF CatchInv, FullIsStale
<1> QED BY <1>7, <1>9, <1>10, <1>11, <1>12, <1>13 DEF CatchInv

-----------------------------------------------------------------------------
(* The theorems.                                                            *)

LEMMA InitHolds == ASSUME CatchInit PROVE CatchInv
<1>1. /\ subs = [s \in Subs |-> {}] /\ desired = {} /\ catchBox = {} /\ rift = {}
      /\ catchCalls = 0 /\ catchFailures = 0 /\ catchReleases = 0
      /\ job = [op |-> "none", sub |-> CHOOSE s \in Subs : TRUE,
                off |-> {}, clear |-> FALSE, on |-> {}, clean |-> TRUE]
  BY DEF CatchInit
<1>2. job \in Job /\ job.op = "none" /\ job.off = {} /\ job.on = {} /\ job.clear = FALSE
  <2>1. (CHOOSE s \in Subs : TRUE) \in Subs BY SubsAssumption
  <2>2. "none" \in Ops BY DEF Ops
  <2> QED BY ONLY <1>1, <2>1, <2>2, TRUE \in BOOLEAN, FALSE \in BOOLEAN, JobOf
<1>3. Typed
  <2>1. Asked(subs) = {} BY <1>1 DEF Asked
  <2>2. Union(subs) = {} BY <2>1, UnionOfNone DEF Union
  <2>3. OnePerAddress({}) BY DEF OnePerAddress
  <2>4. Cardinality({}) <= CatchLimit BY FS_EmptySet, CatchLimitAssumption
  <2>5. subs \in [Subs -> SUBSET Clean] BY <1>1
  <2>6. job \in Job /\ job.off \in SUBSET Clean /\ job.on \in SUBSET Clean BY ONLY <1>2
  <2>7. rift \in Rifts BY ONLY <1>1 DEF Rifts
  <2>8. /\ catchCalls \in 0 .. MaxCatchCalls /\ catchFailures \in 0 .. MaxCatchFailures
        /\ catchReleases \in 0 .. MaxCatchReleases
    BY <1>1, CatchBoundAssumption
  <2>9. /\ desired = Union(subs)
        /\ catchBox \in SUBSET Clean /\ OnePerAddress(catchBox) /\ Cardinality(catchBox) <= CatchLimit
    BY <1>1, <2>2, <2>3, <2>4
  <2> QED BY <2>5, <2>6, <2>7, <2>8, <2>9 DEF Typed
<1>4. LockFree /\ AllSent BY <1>2 DEF LockFree, AllSent
<1>5. FullIsStale BY <1>1 DEF FullIsStale
<1> QED BY <1>1, <1>3, <1>4, <1>5, Resting

LEMMA StepKeeps == ASSUME CatchInv, [CatchNext]_catchVars PROVE CatchInv'
<1>1. CASE CatchNext
  <2>1. CASE \E s \in Subs : Unsubscribe(s) \/ \E filters \in Asks : Subscribe(s, filters)
    BY <2>1, UnsubscribeKeeps, SubscribeKeeps
  <2>2. CASE CatchReset BY <2>2, ResetKeeps
  <2>3. CASE Resend BY <2>3, ResendKeeps
  <2>4. CASE Step
    BY <2>4, SendOffKeeps, SendClearKeeps, SendOnKeeps, SendResetKeeps, ReturnKeeps DEF Step
  <2>5. CASE SubscribeFails BY <2>5, SubscribeFailsKeeps
  <2>6. CASE NarrowFails BY <2>6, NarrowFailsKeeps
  <2>7. CASE ResendFails BY <2>7, ResendFailsKeeps
  <2>8. CASE ClearFails BY <2>8, ClearFailsKeeps
  <2>9. CASE CatchReleased BY <2>9, ReleasedKeeps
  <2> QED BY <1>1, <2>1, <2>2, <2>3, <2>4, <2>5, <2>6, <2>7, <2>8, <2>9 DEF CatchNext
<1>2. CASE UNCHANGED catchVars
  <2>1. /\ subs' = subs /\ desired' = desired /\ catchBox' = catchBox /\ job' = job /\ rift' = rift
        /\ catchCalls' = catchCalls /\ catchFailures' = catchFailures
        /\ catchReleases' = catchReleases
    BY <1>2 DEF catchVars
  <2>2. Typed' BY <2>1 DEF CatchInv, Typed
  <2> QED BY <2>1, <2>2
       DEF CatchInv, Shape, Ahead, WayBack, Again, NoneOdd, FullIsStale, Base, Final, AtMostOwed,
           LockFree, AllSent
<1> QED BY <1>1, <1>2

\* The invariant holds in every reachable state: what the box holds and the
\* frames still to be written make up the union of what is subscribed.
THEOREM Invariance == CatchSpec => []CatchInv
BY InitHolds, StepKeeps, PTL DEF CatchSpec

\* The types: what is subscribed, what the crate re-sends and what the box
\* holds are filters, the box's one for each address and never more than it has
\* room for, whatever is asked for, fails or is released.
THEOREM TypeCorrect == CatchSpec => []CatchTypeOK
<1>1. CatchInv => CatchTypeOK
  <2> SUFFICES ASSUME Typed PROVE CatchTypeOK BY DEF CatchInv
  <2>1. desired \in SUBSET Filter BY Tables, CleanIsFilter
  <2>2. subs \in [Subs -> SUBSET Filter] BY CleanIsFilter DEF Typed
  <2>3. catchBox \in SUBSET Filter BY CleanIsFilter DEF Typed
  <2> QED BY <2>1, <2>2, <2>3 DEF Typed, CatchTypeOK, OnePerAddress
<1> QED BY <1>1, Invariance, PTL

\* The box's table follows the registry (catch_subscribe, catch_unsubscribe and
\* the re-sends): with no call under way the crate re-sends the union of what
\* is subscribed and the box holds exactly that, unless it was released, a
\* removal was lost, or a subscription failed past its clear; and the box is
\* never asked for more than it has room for, unless a removal was lost or the
\* union itself outgrew it.
THEOREM CatchInStepCorrect == CatchSpec => []CatchInStep
<1>1. CatchInv => CatchInStep
  <2> SUFFICES ASSUME CatchInv PROVE CatchInStep OBVIOUS
  <2>1. ASSUME LockFree
        PROVE  /\ desired = Union(subs)
               /\ rift = {} => catchBox = desired
               /\ rift = {"owed"} => catchBox \subseteq desired
    <3>1. AllSent /\ job.op # "reset" BY <2>1 DEF CatchInv, Shape, LockFree
    <3>2. /\ rift = {} => catchBox = desired
          /\ AtMostOwed => catchBox \subseteq desired
      BY <3>1, AtRestHolds
    <3>3. rift = {"owed"} => AtMostOwed BY DEF AtMostOwed
    <3> QED BY <3>2, <3>3 DEF CatchInv, Typed
  <2>2. "full" \in rift => "stale" \in rift BY DEF CatchInv, FullIsStale
  <2> QED BY <2>1, <2>2 DEF CatchInStep
<1> QED BY <1>1, Invariance, PTL

-----------------------------------------------------------------------------
(* What the union takes, and how much it keeps of it.                       *)

LEMMA KeepsOrders ==
  ASSUME NEW a \in Captures, NEW b \in Captures, NEW c \in Captures
  PROVE  Keeps(a, a) /\ (Keeps(a, b) /\ Keeps(b, c) => Keeps(a, c))
<1>1. a \in 0 .. 255 /\ b \in 0 .. 255 /\ c \in 0 .. 255 BY CapturesAssumption
<1>2. a <= a /\ (c <= b /\ b <= a => c <= a) BY ONLY <1>1
<1> QED BY ONLY <1>2 DEF Keeps

LEMMA CaptureOf == ASSUME NEW f \in Clean PROVE f.capture \in Captures
BY DEF Clean, Filter

\* Collapse drops no address, adds none, and narrows nothing.
LEMMA CollapseServes ==
  ASSUME NEW X \in SUBSET Clean
  PROVE  /\ \A c \in Collapse(X) : \E f \in X : SameAddress(c, f)
         /\ \A f \in X : \E c \in Collapse(X) : SameAddress(c, f)
         /\ \A f \in X, c \in Collapse(X) : SameAddress(c, f) => Keeps(c.capture, f.capture)
<1> DEFINE caps(f) == {g.capture : g \in {h \in X : SameAddress(h, f)}}
           of(f) == [f EXCEPT !.capture = Widest(caps(f))]
<1>1. ASSUME NEW f \in X
      PROVE  /\ Widest(caps(f)) \in Captures
             /\ \A g \in X : SameAddress(g, f) => Keeps(Widest(caps(f)), g.capture)
  <2>1. f \in {h \in X : SameAddress(h, f)} BY DEF SameAddress
  <2>2. {h \in X : SameAddress(h, f)} \in SUBSET Clean OBVIOUS
  <2>3. caps(f) \in SUBSET Captures BY <2>2, CapturesOf
  <2>4. caps(f) # {} BY <2>1
  <2>5. \A g \in X : SameAddress(g, f) => g.capture \in caps(f) OBVIOUS
  <2> HIDE DEF caps
  <2> QED BY <2>3, <2>4, <2>5, WidestOfAll
<1>2. Collapse(X) = {of(f) : f \in X} BY DEF Collapse
<1>3. ASSUME NEW f \in X PROVE SameAddress(of(f), f) /\ of(f).capture = Widest(caps(f))
  <2> HIDE DEF caps
  <2> QED BY <1>1, Recaptured
<1> HIDE DEF caps, of
<1>4. ASSUME NEW f \in X, NEW c \in Collapse(X), SameAddress(c, f)
      PROVE  Keeps(c.capture, f.capture)
  <2>1. PICK g \in X : c = of(g) BY <1>2
  <2>2. SameAddress(f, g) BY <1>3, <1>4, <2>1, AddressIsEquality
  <2> QED BY <1>1, <1>3, <2>1, <2>2
<1> QED BY <1>2, <1>3, <1>4

\* The widening: each entry keeps what every filter that covers it asked for.
LEMMA WidenedServes ==
  ASSUME NEW X \in SUBSET Clean
  PROVE  /\ \A w \in Widened(X) : \E f \in X : SameAddress(w, f)
         /\ \A f \in X : \E w \in Widened(X) : SameAddress(w, f)
         /\ \A f \in X, w \in Widened(X) :
              SameAddress(w, f) \/ Covers(f, w) => Keeps(w.capture, f.capture)
<1> DEFINE C == Collapse(X)
           caps(c) == {c.capture} \cup {o.capture : o \in {g \in X : Covers(g, c)}}
           of(c) == [c EXCEPT !.capture = Widest(caps(c))]
<1>0. C \in SUBSET Clean BY CollapseIsTable
<1>1. ASSUME NEW c \in C
      PROVE  /\ Widest(caps(c)) \in Captures /\ Keeps(Widest(caps(c)), c.capture)
             /\ \A g \in X : Covers(g, c) => Keeps(Widest(caps(c)), g.capture)
  <2>1. {o.capture : o \in {g \in X : Covers(g, c)}} \in SUBSET Captures BY CapturesOf
  <2>2. c.capture \in Captures BY <1>0, CaptureOf
  <2>3. caps(c) \in SUBSET Captures /\ c.capture \in caps(c) BY <2>1, <2>2
  <2>4. \A g \in X : Covers(g, c) => g.capture \in caps(c) OBVIOUS
  <2> HIDE DEF caps
  <2> QED BY <2>3, <2>4, WidestOfAll
<1>2. Widened(X) = {of(c) : c \in C} BY DEF Widened
<1>3. ASSUME NEW c \in C PROVE SameAddress(of(c), c) /\ of(c).capture = Widest(caps(c))
  <2> HIDE DEF caps, C
  <2> QED BY <1>0, <1>1, Recaptured
<1>4. /\ \A c \in C : \E f \in X : SameAddress(c, f)
      /\ \A f \in X : \E c \in C : SameAddress(c, f)
      /\ \A f \in X, c \in C : SameAddress(c, f) => Keeps(c.capture, f.capture)
  BY CollapseServes
<1> HIDE DEF caps, of, C
<1>5. ASSUME NEW w \in Widened(X) PROVE \E f \in X : SameAddress(w, f)
  <2>1. PICK c \in C : w = of(c) BY <1>2
  <2>2. PICK f \in X : SameAddress(c, f) BY <1>4
  <2> QED BY <1>3, <2>1, <2>2, AddressIsEquality
<1>6. ASSUME NEW f \in X PROVE \E w \in Widened(X) : SameAddress(w, f)
  <2>1. PICK c \in C : SameAddress(c, f) BY <1>4
  <2> QED BY <1>2, <1>3, <2>1, AddressIsEquality
<1>7. ASSUME NEW f \in X, NEW w \in Widened(X), SameAddress(w, f) \/ Covers(f, w)
      PROVE  Keeps(w.capture, f.capture)
  <2>1. PICK c \in C : w = of(c) BY <1>2
  <2>2. SameAddress(w, c) /\ w.capture = Widest(caps(c)) BY <1>3, <2>1
  <2>3. CASE SameAddress(w, f)
    <3>1. SameAddress(c, f) BY <2>2, <2>3, AddressIsEquality
    <3>2. Keeps(c.capture, f.capture) /\ Keeps(w.capture, c.capture) BY <1>1, <1>4, <2>2, <3>1
    <3>3. w.capture \in Captures /\ c.capture \in Captures /\ f.capture \in Captures
      BY <1>0, <1>1, <2>2, CaptureOf
    <3> QED BY <3>2, <3>3, KeepsOrders
  <2>4. CASE Covers(f, w)
    <3>1. Covers(f, c) BY <2>2, <2>4 DEF Covers, SameAddress, SamePlace
    <3> QED BY <1>1, <2>2, <3>1
  <2> QED BY <1>7, <2>3, <2>4
<1> QED BY <1>5, <1>6, <1>7

\* The merge of a positive and a negative entry into one that keeps both.
LEMMA SiblingsServe ==
  ASSUME NEW S \in SUBSET Clean
  PROVE  /\ \A r \in Siblings(S) :
              \/ r \in S
              \/ /\ r.direction = "both"
                 /\ \A d \in Edges : \E w \in S : SamePlace(w, r) /\ w.direction = d
                 /\ \A w \in S : SamePlace(w, r) => Keeps(r.capture, w.capture)
         /\ \A w \in S : \E r \in Siblings(S) :
              SamePlace(r, w) /\ r.direction \in {w.direction, "both"} /\ Keeps(r.capture, w.capture)
         /\ \A r \in Siblings(S) : r.direction # "both" => r \in S
<1> DEFINE caps(f) == {g.capture : g \in {h \in S : SamePlace(h, f)}}
           merged(f) == [f EXCEPT !.direction = "both", !.capture = Widest(caps(f))]
           Pairs == {f \in S : Split(S, f)}
<1>1. ASSUME NEW f \in S
      PROVE  /\ Widest(caps(f)) \in Captures
             /\ \A g \in S : SamePlace(g, f) => Keeps(Widest(caps(f)), g.capture)
  <2>1. f \in {h \in S : SamePlace(h, f)} BY DEF SamePlace
  <2>2. {h \in S : SamePlace(h, f)} \in SUBSET Clean OBVIOUS
  <2>3. caps(f) \in SUBSET Captures BY <2>2, CapturesOf
  <2>4. caps(f) # {} BY <2>1
  <2>5. \A g \in S : SamePlace(g, f) => g.capture \in caps(f) OBVIOUS
  <2> HIDE DEF caps
  <2> QED BY <2>3, <2>4, <2>5, WidestOfAll
<1>2. Siblings(S) = {f \in S : ~Split(S, f)} \cup {merged(f) : f \in Pairs} BY DEF Siblings
<1>3. ASSUME NEW f \in S
      PROVE  /\ SamePlace(merged(f), f) /\ merged(f).direction = "both"
             /\ merged(f).capture = Widest(caps(f))
  <2> HIDE DEF caps
  <2> QED BY <1>1, Recaptured
<1> HIDE DEF caps, merged
<1>4. ASSUME NEW f \in Pairs
      PROVE  /\ \A d \in Edges : \E w \in S : SamePlace(w, merged(f)) /\ w.direction = d
             /\ \A w \in S : SamePlace(w, merged(f)) => Keeps(merged(f).capture, w.capture)
  <2>1. SamePlace(merged(f), f) /\ merged(f).capture = Widest(caps(f)) BY <1>3
  <2>2. \A w \in S : SamePlace(w, merged(f)) <=> SamePlace(w, f) BY <2>1 DEF SamePlace
  <2>3. \A d \in Edges : \E w \in S : SamePlace(w, f) /\ w.direction = d BY DEF Split
  <2> QED BY <1>1, <2>1, <2>2, <2>3
<1>5. ASSUME NEW w \in S
      PROVE  \E r \in Siblings(S) :
               SamePlace(r, w) /\ r.direction \in {w.direction, "both"} /\ Keeps(r.capture, w.capture)
  <2>1. CASE ~Split(S, w)
    <3>1. w \in Siblings(S) /\ SamePlace(w, w) BY <1>2, <2>1 DEF SamePlace
    <3>2. Keeps(w.capture, w.capture) BY CaptureOf, KeepsOrders
    <3> QED BY <3>1, <3>2
  <2>2. CASE Split(S, w)
    <3>1. w \in Pairs /\ merged(w) \in Siblings(S) BY <1>2, <2>2
    <3>2. SamePlace(w, w) BY DEF SamePlace
    <3> QED BY <1>1, <1>3, <3>1, <3>2
  <2> QED BY <2>1, <2>2
<1> QED BY <1>2, <1>3, <1>4, <1>5

\* Every filter has its entry in the union, no narrower and at its place.
LEMMA UnionHas ==
  ASSUME NEW X \in SUBSET Clean, NEW f \in X
  PROVE  \E n \in Effective(X) :
           SamePlace(n, f) /\ n.direction \in {f.direction, "both"} /\ Keeps(n.capture, f.capture)
<1>1. Widened(X) \in SUBSET Clean /\ Effective(X) \in SUBSET Clean BY WidenedIsTable, UnionIsTable
<1>2. PICK w \in Widened(X) : SameAddress(w, f) BY WidenedServes
<1>3. Keeps(w.capture, f.capture) BY <1>2, WidenedServes
<1>4. PICK n \in Effective(X) :
        SamePlace(n, w) /\ n.direction \in {w.direction, "both"} /\ Keeps(n.capture, w.capture)
  BY <1>1, SiblingsServe DEF Effective
<1>5. SamePlace(n, f) /\ n.direction \in {f.direction, "both"}
  BY <1>2, <1>4 DEF SamePlace, SameAddress
<1>6. n.capture \in Captures /\ w.capture \in Captures /\ f.capture \in Captures
  BY <1>1, CaptureOf
<1>7. Keeps(n.capture, f.capture) BY ONLY <1>3, <1>4, <1>6, KeepsOrders
<1> QED BY <1>5, <1>7

\* Nothing in the union takes an event that no filter of it matches.
LEMMA UnionAsks ==
  ASSUME NEW X \in SUBSET Clean, NEW r \in Effective(X), NEW e \in Event, Matches(r, e)
  PROVE  \E f \in X : Matches(f, e)
<1>1. Widened(X) \in SUBSET Clean BY WidenedIsTable
<1>2. \E w \in Widened(X) : Matches(w, e)
  <2>1. CASE r \in Widened(X) BY <2>1
  <2>2. CASE /\ r.direction = "both"
             /\ \A d \in Edges : \E w \in Widened(X) : SamePlace(w, r) /\ w.direction = d
    <3>1. PICK d \in Edges : Admits(d, e.direction)
      <4>1. e.direction \in {"positive", "negative", "both"} BY DEF Event, Directions, Edges
      <4> QED BY <4>1 DEF Admits, Edges
    <3>2. PICK w \in Widened(X) : SamePlace(w, r) /\ w.direction = d BY <2>2
    <3> QED BY <3>1, <3>2 DEF Matches, SamePlace
  <2> QED BY <1>1, <2>1, <2>2, SiblingsServe DEF Effective
<1>3. PICK w \in Widened(X) : Matches(w, e) BY <1>2
<1>4. PICK f \in X : SameAddress(w, f) BY WidenedServes
<1> QED BY <1>3, <1>4 DEF Matches, SameAddress

\* An entry of a union that cuts a packet, with an entry at a filter's own place
\* in the same table, keeps what the filter asked for: if it names the packet
\* better than the filter does, it was widened for the filter.
LEMMA CutsWide ==
  ASSUME NEW X \in SUBSET Clean, NEW f \in X, NEW e \in EdgeEvents, Matches(f, e),
         NEW r \in Effective(X), Matches(r, e),
         NEW h \in Clean, SamePlace(h, f), h.direction \in {f.direction, "both"},
         Keeps(h.capture, f.capture), ~Outranks(h, r), SameAddress(h, r) => h = r
  PROVE  Keeps(r.capture, f.capture)
<1>1. Widened(X) \in SUBSET Clean /\ r \in Clean /\ f \in Clean BY WidenedIsTable, UnionIsTable
<1>2. e \in Event /\ e.direction \in Edges BY DEF EdgeEvents
<1>3. /\ \A g \in {f, h, r} : g.direction \in {e.direction, "both"}
      /\ \A g \in {f, h, r} : g.class = Every => g.id = Every
  <2>1. e.direction # "both" BY <1>2 DEF Edges
  <2>2. f.direction \in {e.direction, "both"} /\ r.direction \in {e.direction, "both"}
    BY <2>1 DEF Matches, Admits
  <2>3. \A g \in Clean : g.class = Every => g.id = Every BY DEF Clean, Filter
  <2> QED BY <1>1, <2>2, <2>3
\* What the widening shows of an entry at r's place.
<1>4. ASSUME NEW w \in Widened(X), SamePlace(w, r), w.direction \in {e.direction, "both"},
             SameAddress(w, f) \/ Covers(f, w)
      PROVE  Keeps(w.capture, f.capture)
  BY <1>4, WidenedServes
<1>5. CASE ~SamePlace(r, f)
  <2>1. f.class \in {Every, r.class} /\ f.id \in {Every, r.id}
    <3>1. /\ f.class \in {Every, e.class} /\ (f.class # Every => f.id \in {Every, e.id})
          /\ r.class \in {Every, e.class} /\ (r.class # Every => r.id \in {Every, e.id})
      BY DEF Matches
    <3>2. h.class = f.class /\ h.id = f.id BY DEF SamePlace
    <3>3. ~(r.class = Every /\ h.class # Every) /\ ~(h.class = r.class /\ r.id = Every /\ h.id # Every)
      BY DEF Outranks
    <3>4. ~(r.class = f.class /\ r.id = f.id) BY <1>5 DEF SamePlace
    <3> QED BY ONLY <1>3, <3>1, <3>2, <3>3, <3>4
  <2>2. ASSUME NEW w \in Widened(X), SamePlace(w, r), w.direction \in {e.direction, "both"}
        PROVE  Covers(f, w)
    <3>1. ~SamePlace(f, w) BY <1>5, <2>2 DEF SamePlace
    <3>2. Admits(f.direction, w.direction) BY <1>3, <2>2 DEF Admits
    <3> QED BY <2>1, <2>2, <3>1, <3>2 DEF Covers, SamePlace
  <2>3. CASE r \in Widened(X)
    <3>1. SamePlace(r, r) BY DEF SamePlace
    <3> QED BY <1>3, <1>4, <2>2, <2>3, <3>1
  <2>4. CASE /\ \A d \in Edges : \E w \in Widened(X) : SamePlace(w, r) /\ w.direction = d
             /\ \A w \in Widened(X) : SamePlace(w, r) => Keeps(r.capture, w.capture)
    <3>1. PICK w \in Widened(X) : SamePlace(w, r) /\ w.direction = e.direction BY <1>2, <2>4
    <3>2. Keeps(w.capture, f.capture) BY <1>4, <2>2, <3>1
    <3>3. Keeps(r.capture, w.capture) BY <2>4, <3>1
    <3>4. r.capture \in Captures /\ w.capture \in Captures /\ f.capture \in Captures
      BY <1>1, CaptureOf
    <3> QED BY ONLY <3>2, <3>3, <3>4, KeepsOrders
  <2> QED BY <1>1, <2>3, <2>4, SiblingsServe DEF Effective
<1>6. CASE SamePlace(r, f)
  <2>1. SamePlace(h, r) BY <1>6 DEF SamePlace
  <2>2. CASE h.direction = r.direction
    <3>1. h = r BY <2>1, <2>2 DEF SameAddress, SamePlace
    <3> QED BY <3>1
  <2>3. CASE h.direction # r.direction
    <3>1. h.direction = "both" /\ r.direction = e.direction
      BY <1>3, <2>1, <2>3 DEF Outranks
    <3>2. r.direction # "both" BY <2>3, <3>1
    <3>3. r \in Widened(X) BY <1>1, <3>2, SiblingsServe DEF Effective
    <3>4. SameAddress(r, f) \/ Covers(f, r)
      <4>1. CASE f.direction = "both" BY <1>6, <4>1 DEF Covers, SamePlace
      <4>2. CASE f.direction = e.direction BY <1>6, <3>1, <4>2 DEF SameAddress, SamePlace
      <4> QED BY <1>3, <4>1, <4>2
    <3> QED BY <3>3, <3>4, WidenedServes
  <2> QED BY <2>2, <2>3
<1> QED BY <1>5, <1>6

\* Of the entries that match an event, some is outranked by none.
LEMMA SomeResolved ==
  ASSUME NEW table, NEW h \in table, NEW e, Matches(h, e)
  PROVE  Resolved(table, e) # {}
<1> DEFINE M == {g \in table : Matches(g, e)}
<1> SUFFICES \E g \in M : \A k \in M : ~Outranks(k, g) BY DEF Resolved
<1>0. h \in M OBVIOUS
<1> HIDE DEF M
\* The best of one place.
<1>1. ASSUME NEW g \in M
      PROVE  \E b \in M : SamePlace(b, g) /\ (b.direction # "both" \/ \A k \in M : SamePlace(k, g) => k.direction = "both")
  BY DEF SamePlace
<1>2. CASE \E g \in M : g.class # Every /\ g.id # Every
  <2>1. PICK g \in M : g.class # Every /\ g.id # Every BY <1>2
  <2>2. PICK b \in M : SamePlace(b, g) /\ (b.direction # "both" \/ \A k \in M : SamePlace(k, g) => k.direction = "both")
    BY <1>1
  <2>3. \A k \in M : ~Outranks(k, b) BY <2>1, <2>2 DEF Outranks, SamePlace
  <2> QED BY <2>3
<1>3. CASE \A g \in M : g.class # Every => g.id = Every
  <2>1. CASE \E g \in M : g.class # Every
    <3>1. PICK g \in M : g.class # Every BY <2>1
    <3>2. PICK b \in M : SamePlace(b, g) /\ (b.direction # "both" \/ \A k \in M : SamePlace(k, g) => k.direction = "both")
      BY <1>1
    <3>3. \A k \in M : ~Outranks(k, b) BY <1>3, <3>1, <3>2 DEF Outranks, SamePlace
    <3> QED BY <3>3
  <2>2. CASE \A g \in M : g.class = Every
    <3>1. CASE \E g \in M : g.id # Every
      <4>1. PICK g \in M : g.id # Every BY <3>1
      <4>2. PICK b \in M : SamePlace(b, g) /\ (b.direction # "both" \/ \A k \in M : SamePlace(k, g) => k.direction = "both")
        BY <1>1
      <4>3. \A k \in M : ~Outranks(k, b) BY <2>2, <4>1, <4>2 DEF Outranks, SamePlace
      <4> QED BY <4>3
    <3>2. CASE \A g \in M : g.id = Every
      <4>1. PICK b \in M : SamePlace(b, h) /\ (b.direction # "both" \/ \A k \in M : SamePlace(k, h) => k.direction = "both")
        BY <1>0, <1>1
      <4>2. \A k \in M : ~Outranks(k, b) BY <2>2, <3>2, <4>1 DEF Outranks, SamePlace
      <4> QED BY <4>2
    <3> QED BY <3>1, <3>2
  <2> QED BY <2>1, <2>2
<1> QED BY <1>2, <1>3

-----------------------------------------------------------------------------
(* While a table is being sent.                                             *)

\* A removal leaves the box with entries of the union there is, or of the one
\* before it, which asked for all that is asked for now.
Traced == rift = {} /\ job.op \in {"unsubscribe", "narrow"} =>
  \E X \in SUBSET Clean : Asked(subs) \subseteq X /\ catchBox \subseteq desired \cup Effective(X)

\* One entry of the union more, or some fewer.
LEMMA FramesKeepTraced ==
  ASSUME CatchInv, Traced, subs' = subs, desired' = desired, job'.op = job.op,
         catchBox' \subseteq catchBox \cup desired, rift' = {} => rift = {} \/ catchBox' = {}
  PROVE  Traced'
<1>1. Asked(subs') = Asked(subs) BY DEF Asked
<1> SUFFICES ASSUME rift' = {}, job.op \in {"unsubscribe", "narrow"}
             PROVE  \E X \in SUBSET Clean :
                      Asked(subs) \subseteq X /\ catchBox' \subseteq desired \cup Effective(X)
  BY <1>1 DEF Traced
<1>2. CASE rift = {}
  <2>1. PICK X \in SUBSET Clean : Asked(subs) \subseteq X /\ catchBox \subseteq desired \cup Effective(X)
    BY <1>2 DEF Traced
  <2> QED BY <2>1
<1>3. CASE catchBox' = {}
  <2>1. Asked(subs) \in SUBSET Clean BY DEF CatchInv, Typed, Asked
  <2> QED BY <1>3, <2>1
<1> QED BY <1>2, <1>3

LEMMA StepKeepsTraced == ASSUME CatchInv, Traced, [CatchNext]_catchVars PROVE Traced'
<1>0. Typed BY DEF CatchInv
<1>1. ASSUME NEW s \in Subs, Unsubscribe(s) PROVE Traced'
  <2>1. LockFree /\ subs' = [subs EXCEPT ![s] = {}] /\ catchBox' = catchBox /\ rift' = rift
    BY <1>1 DEF Unsubscribe, Detach, Called
  <2>2. AllSent /\ job.op # "reset" BY <2>1 DEF CatchInv, Shape, LockFree
  <2>3. rift = {} => catchBox = Effective(Asked(subs))
    BY <1>0, <2>2, AtRestHolds DEF Typed, Union
  <2>4. Asked(subs) \in SUBSET Clean /\ Asked(subs') \subseteq Asked(subs)
    BY <1>0, <2>1 DEF Typed, Asked
  <2> QED BY <2>1, <2>3, <2>4 DEF Traced
<1>2. ASSUME NEW s \in Subs, NEW filters \in Asks, Subscribe(s, filters) PROVE Traced'
  <2>1. job'.op \in {"none", "subscribe"} BY <1>2 DEF Subscribe, Called, LockFree, Sync
  <2> QED BY <2>1 DEF Traced
<1>3. CASE CatchReset
  <2>1. job'.op = "reset"
    <3>1. job' = [Idle EXCEPT !.op = "reset", !.clear = TRUE] BY <1>3 DEF CatchReset
    <3> QED BY <3>1 DEF Idle
  <2> QED BY <2>1 DEF Traced
<1>4. CASE Resend
  <2>1. job'.op = "resend"
    <3>1. job' = [Idle EXCEPT !.op = "resend", !.on = desired] BY <1>4 DEF Resend
    <3> QED BY <3>1 DEF Idle
  <2> QED BY <2>1 DEF Traced
<1>5. CASE SendOff
  <2>1. PICK f \in job.off : catchBox' = Removed(catchBox, f) /\ job' = [job EXCEPT !.off = @ \ {f}]
    BY <1>5 DEF SendOff
  <2>2. subs' = subs /\ desired' = desired /\ rift' = rift BY <1>5 DEF SendOff
  <2>3. job'.op = job.op BY <1>0, <2>1 DEF Typed, Job
  <2>4. catchBox' \subseteq catchBox BY <2>1 DEF Removed
  <2> QED BY <2>2, <2>3, <2>4, FramesKeepTraced
<1>6. CASE SendClear
  <2>1. catchBox' = {} /\ subs' = subs /\ desired' = desired /\ job' = [job EXCEPT !.clear = FALSE]
    BY <1>6 DEF SendClear
  <2>2. job'.op = job.op BY <1>0, <2>1 DEF Typed, Job
  <2> QED BY <2>1, <2>2, FramesKeepTraced
<1>7. CASE SendOn
  <2>1. PICK f \in job.on : catchBox' = Added(catchBox, f) /\ job' = [job EXCEPT !.on = @ \ {f}]
    BY <1>7 DEF SendOn
  <2>2. subs' = subs /\ desired' = desired /\ rift \subseteq rift' BY <1>7 DEF SendOn
  <2>3. job'.op = job.op BY <1>0, <2>1 DEF Typed, Job
  <2>4. f \in Clean /\ f \in desired BY DEF CatchInv, Typed, Shape
  <2>5. OnWire(f) = f BY <2>4, CleanOnWire
  <2>6. catchBox' \subseteq catchBox \cup desired BY <2>1, <2>4, <2>5 DEF Added, Removed
  <2> QED BY <2>2, <2>3, <2>6, FramesKeepTraced
<1>8. CASE SendReset \/ Return \/ NarrowFails
  <2>1. job'.op = "none" BY <1>8 DEF SendReset, Return, NarrowFails, Idle
  <2> QED BY <2>1 DEF Traced
<1>9. CASE SubscribeFails
  <2>1. /\ job.op = "subscribe" /\ subs' = [subs EXCEPT ![job.sub] = {}] /\ desired' = Union(subs')
        /\ rift' = IF ClearedForGood THEN rift \cup {"owed"} ELSE rift
        /\ catchBox' = catchBox
    BY <1>9 DEF SubscribeFails, Detach
  <2>2. rift' = {} => AtMostOwed BY <2>1 DEF AtMostOwed
  <2>3. desired' = Base /\ desired = Effective(Asked(subs)) BY <1>0, <2>1 DEF Base, Typed, Union
  <2>4. rift' = {} => catchBox \subseteq desired' \cup Effective(Asked(subs))
    BY <2>1, <2>2, <2>3 DEF CatchInv, WayBack
  <2>5. Asked(subs) \in SUBSET Clean /\ Asked(subs') \subseteq Asked(subs)
    <3>1. job.sub \in Subs BY <1>0 DEF Typed, Job
    <3> QED BY <1>0, <2>1, <3>1 DEF Typed, Asked
  <2> QED BY <2>1, <2>4, <2>5 DEF Traced
<1>10. CASE ResendFails
  <2>1. job.op = "resend" BY <1>10 DEF ResendFails
  <2>2. PICK f \in job.on : job' = [job EXCEPT !.on = @ \ {f}, !.clean = FALSE]
    BY <1>10 DEF ResendFails
  <2>3. job'.op = "resend" BY <1>0, <2>1, <2>2 DEF Typed, Job
  <2> QED BY <2>3 DEF Traced
<1>11. CASE ClearFails
  <2>1. job.op = "reset" /\ job' = [job EXCEPT !.clear = FALSE] BY <1>11 DEF ClearFails
  <2>2. job'.op = "reset" BY <1>0, <2>1 DEF Typed, Job
  <2> QED BY <2>2 DEF Traced
<1>12. CASE CatchReleased
  <2>1. rift' # {} BY <1>12 DEF CatchReleased
  <2> QED BY <2>1 DEF Traced
<1>13. CASE UNCHANGED catchVars
  <2>1. subs' = subs /\ desired' = desired /\ catchBox' = catchBox /\ job' = job /\ rift' = rift
    BY <1>13 DEF catchVars
  <2>2. Asked(subs') = Asked(subs) BY <2>1 DEF Asked
  <2> QED BY <2>1, <2>2 DEF Traced
<1> QED BY <1>1, <1>2, <1>3, <1>4, <1>5, <1>6, <1>7, <1>8, <1>9, <1>10, <1>11, <1>12, <1>13
    DEF CatchNext, Step

\* An entry of a union the filter was of never cuts short what the filter asked
\* for, where the filter's own entry is in the table.
LEMMA TableServes ==
  ASSUME NEW table \in SUBSET Clean, OnePerAddress(table),
         NEW f \in Clean, NEW e \in EdgeEvents, Matches(f, e),
         NEW h \in table, SamePlace(h, f), h.direction \in {f.direction, "both"},
         Keeps(h.capture, f.capture),
         \A r \in table : \E X \in SUBSET Clean : f \in X /\ r \in Effective(X)
  PROVE  Takes(table, f, e)
<1>1. Matches(h, e) BY DEF Matches, SamePlace, Admits
<1>2. Resolved(table, e) # {} BY <1>1, SomeResolved
<1>3. ASSUME NEW r \in Resolved(table, e) PROVE Keeps(r.capture, f.capture)
  <2>1. r \in table /\ Matches(r, e) /\ ~Outranks(h, r) BY <1>1 DEF Resolved
  <2>2. PICK X \in SUBSET Clean : f \in X /\ r \in Effective(X) BY <2>1
  <2>3. SameAddress(h, r) => h = r BY <2>1 DEF OnePerAddress
  <2> QED BY <2>1, <2>2, <2>3, CutsWide
<1> QED BY <1>2, <1>3 DEF Takes

LEMMA ServedNow ==
  ASSUME CatchInv, Traced, rift = {}, job.op # "reset",
         NEW s \in Subs, ~(job.op = "subscribe" /\ s = job.sub),
         NEW f \in subs[s], NEW e \in EdgeEvents, Matches(f, e)
  PROVE  \/ Takes(catchBox, f, e)
         \/ \E g \in job.on : Matches(g, e) /\ Keeps(g.capture, f.capture)
<1>1. /\ subs \in [Subs -> SUBSET Clean] /\ desired = Effective(Asked(subs))
      /\ catchBox \in SUBSET Clean /\ OnePerAddress(catchBox) /\ job.op \in Ops
  BY DEF CatchInv, Typed, Job, Union
<1>2. Asked(subs) \in SUBSET Clean /\ f \in Asked(subs) /\ f \in Clean BY <1>1 DEF Asked
<1>3. PICK n \in desired :
        SamePlace(n, f) /\ n.direction \in {f.direction, "both"} /\ Keeps(n.capture, f.capture)
  BY <1>1, <1>2, UnionHas
<1>4. Matches(n, e) BY <1>3 DEF Matches, SamePlace, Admits
<1>5. n \in catchBox \/ n \in job.on BY DEF CatchInv, Ahead, Final, FinalOf
<1>6. CASE n \in job.on BY <1>3, <1>4, <1>6
<1>7. CASE n \in catchBox
  <2> SUFFICES ASSUME NEW r \in catchBox
               PROVE  \E X \in SUBSET Clean : f \in X /\ r \in Effective(X)
    BY <1>1, <1>2, <1>3, <1>7, TableServes
  <2>1. CASE r \in desired BY <1>1, <1>2, <2>1
  <2>2. CASE job.op \in {"none", "resend"}
    <3>1. AtMostOwed BY DEF AtMostOwed
    <3>2. job.op = "none" => AllSent BY DEF CatchInv, Shape, LockFree
    <3>3. catchBox = desired BY <2>2, <3>1, <3>2, AtRestHolds DEF CatchInv, Again
    <3> QED BY <2>1, <3>3
  <2>3. CASE job.op = "subscribe"
    <3> DEFINE others == [subs EXCEPT ![job.sub] = {}]
    <3>1. catchBox \subseteq Effective(Asked(others)) \cup desired
      BY <2>3 DEF CatchInv, WayBack, AtMostOwed, Base, Union
    <3>2. Asked(others) \in SUBSET Clean /\ f \in Asked(others)
      <4>1. s # job.sub BY <2>3
      <4> QED BY <1>1, <4>1 DEF Asked
    <3> HIDE DEF others
    <3> QED BY <2>1, <3>1, <3>2
  <2>4. CASE job.op \in {"unsubscribe", "narrow"}
    <3>1. PICK X \in SUBSET Clean : Asked(subs) \subseteq X /\ catchBox \subseteq desired \cup Effective(X)
      BY <2>4 DEF Traced
    <3> QED BY <1>2, <2>1, <3>1
  <2> QED BY <1>1, <2>2, <2>3, <2>4 DEF Ops
<1> QED BY <1>5, <1>6, <1>7

\* Each subscriber is served as if it were alone (the widening and the merge of
\* CatchReg::effective, the order of catch_sync's frames): however the filters
\* of the streams overlap, the entry of the box that cuts a packet keeps what
\* every stream whose filter matches it asked for, nothing is streamed that
\* nobody asked for, and while a table is being sent a stream that stays misses
\* no more than the entries still to be sent in the same call.
THEOREM EachServedCorrect == CatchSpec => []EachServed
<1>1. CatchInit => Traced BY DEF CatchInit, Traced
<1>2. CatchInv /\ Traced => EachServed
  <2> SUFFICES ASSUME CatchInv, Traced, rift = {} PROVE EachServed BY DEF EachServed
  <2>1. ASSUME LockFree
        PROVE  /\ \A s \in Subs : Serves(catchBox, subs[s])
               /\ \A e \in Event : Resolved(catchBox, e) # {} => \E f \in Asked(subs) : Matches(f, e)
    <3>1. job.op = "none" /\ job.on = {} /\ AllSent
      BY <2>1 DEF CatchInv, Shape, LockFree, AllSent
    <3>2. \A s \in Subs : Serves(catchBox, subs[s]) BY <3>1, ServedNow DEF Serves
    <3>3. catchBox = Effective(Asked(subs)) /\ Asked(subs) \in SUBSET Clean
      <4>1. catchBox = desired BY <3>1, AtRestHolds
      <4> QED BY <4>1 DEF CatchInv, Typed, Union, Asked
    <3>4. ASSUME NEW e \in Event, Resolved(catchBox, e) # {} PROVE \E f \in Asked(subs) : Matches(f, e)
      <4>1. PICK r \in catchBox : Matches(r, e) BY <3>4 DEF Resolved
      <4> QED BY <3>3, <4>1, UnionAsks
    <3> QED BY <3>2, <3>4
  <2>2. ASSUME job.op # "reset",
               NEW s \in Subs \ (IF job.op = "subscribe" THEN {job.sub} ELSE {}),
               NEW f \in subs[s], NEW e \in EdgeEvents, Matches(f, e)
        PROVE  \/ Takes(catchBox, f, e)
               \/ \E g \in job.on : Matches(g, e) /\ Keeps(g.capture, f.capture)
    <3>1. s \in Subs /\ ~(job.op = "subscribe" /\ s = job.sub) BY <2>2
    <3> QED BY <2>2, <3>1, ServedNow
  <2> QED BY <2>1, <2>2 DEF EachServed
<1>3. CatchInv /\ Traced /\ [CatchNext]_catchVars => Traced' BY StepKeepsTraced
<1> QED BY <1>1, <1>2, <1>3, Invariance, PTL DEF CatchSpec

-----------------------------------------------------------------------------
(* The lock table.  First what a sequence of writes leaves.                 *)

LEMMA Greatest ==
  ASSUME NEW n \in Nat, NEW S \in SUBSET (1 .. n), S # {}
  PROVE  \E i \in S : \A j \in S : j <= i
<1> DEFINE T == {n - i : i \in S}
<1>1. \A i \in S : i \in 1 .. n /\ n - i \in Nat OBVIOUS
<1>2. T \in SUBSET Nat /\ T # {} BY <1>1
<1>3. PICK t \in T : \A u \in T : t <= u
  <2> HIDE DEF T
  <2> QED BY <1>2, Least
<1>4. PICK i \in S : t = n - i BY <1>3
<1>5. ASSUME NEW j \in S PROVE j <= i
  <2>1. n - i <= n - j BY <1>3, <1>4
  <2>2. i \in 1 .. n /\ j \in 1 .. n BY <1>1
  <2> QED BY ONLY <2>1, <2>2
<1> QED BY <1>5

LEMMA LastIs ==
  ASSUME NEW ws, NEW n \in Nat, DOMAIN ws = 1 .. n, NEW k, \E i \in 1 .. n : ws[i][1] = k
  PROVE  /\ LastWrite(ws, k) \in 1 .. n /\ ws[LastWrite(ws, k)][1] = k
         /\ \A j \in 1 .. n : ws[j][1] = k => j <= LastWrite(ws, k)
<1> DEFINE S == {i \in 1 .. n : ws[i][1] = k}
<1>1. S \in SUBSET (1 .. n) /\ S # {} OBVIOUS
<1>2. PICK i \in S : \A j \in S : j <= i
  <2> HIDE DEF S
  <2> QED BY <1>1, Greatest
<1>3. i \in DOMAIN ws /\ ws[i][1] = k /\ \A j \in DOMAIN ws : ws[j][1] = k => j <= i BY <1>2
<1> QED BY <1>3 DEF LastWrite

\* Undone newest first, writes leave the rows they found, whatever was written
\* twice.
LEMMA UndoneExactly ==
  ASSUME NEW R, rows \in [RowKeys -> R], NEW W, NEW ws \in Seq(W)
  PROVE  LockRestored(Apply(ws).rows, Apply(ws).undo) = rows
<1> DEFINE n == Len(ws)
           after == After(rows, ws)
           found(i) == After(rows, SubSeq(ws, 1, i - 1))
           undo == [i \in 1 .. n |-> <<ws[i][1], found(i)[ws[i][1]]>>]
           back == [i \in 1 .. n |-> undo[n - i + 1]]
<1>1. n \in Nat /\ DOMAIN ws = 1 .. n OBVIOUS
<1>2. Apply(ws).rows = after /\ Apply(ws).undo = undo BY <1>1 DEF Apply
<1>3. Reverse(undo) = back
  <2>1. Len(undo) = n BY <1>1
  <2> QED BY <2>1 DEF Reverse
<1>4. \A i \in 1 .. n : n - i + 1 \in 1 .. n BY <1>1
<1>5. \A i \in 1 .. n : back[i][1] = ws[n - i + 1][1] /\ back[i][2] = found(n - i + 1)[ws[n - i + 1][1]]
  BY <1>4
<1>6. DOMAIN back = 1 .. n OBVIOUS
<1>7. after \in [RowKeys -> {after[k] : k \in RowKeys}]
      /\ \A k \in RowKeys : (\A i \in 1 .. n : ws[i][1] # k) => after[k] = rows[k]
  BY <1>1 DEF After
<1> HIDE DEF after, back, undo, n
<1>8. ASSUME NEW k \in RowKeys PROVE After(after, back)[k] = rows[k]
  <2>1. CASE \A i \in 1 .. n : ws[i][1] # k
    <3>1. ~ \E i \in DOMAIN back : back[i][1] = k BY <1>4, <1>5, <1>6, <2>1
    <3> QED BY <1>7, <2>1, <3>1 DEF After
  <2>2. CASE \E i \in 1 .. n : ws[i][1] = k
    <3> DEFINE S == {i \in 1 .. n : ws[i][1] = k}
    <3>1. PICK p \in S : \A i \in S : p <= i
      <4>1. S \in SUBSET Nat /\ S # {} BY <1>1, <2>2
      <4> HIDE DEF S
      <4> QED BY <4>1, Least
    <3>2. p \in 1 .. n /\ n - p + 1 \in 1 .. n /\ n - (n - p + 1) + 1 = p BY ONLY <1>1, <3>1
    <3>3. back[n - p + 1][1] = k BY <1>5, <3>1, <3>2
    <3>4. \E i \in 1 .. n : back[i][1] = k BY <3>2, <3>3
    <3>5. /\ LastWrite(back, k) \in 1 .. n /\ back[LastWrite(back, k)][1] = k
          /\ n - p + 1 <= LastWrite(back, k)
      BY <1>1, <1>6, <3>2, <3>3, <3>4, LastIs
    <3>6. ws[n - LastWrite(back, k) + 1][1] = k /\ n - LastWrite(back, k) + 1 \in 1 .. n
      BY <1>4, <1>5, <3>5
    <3>7. p <= n - LastWrite(back, k) + 1 BY <3>1, <3>6
    <3>8. n - LastWrite(back, k) + 1 = p BY ONLY <1>1, <3>2, <3>5, <3>7
    <3>9. back[LastWrite(back, k)][2] = found(p)[k] BY <1>5, <3>5, <3>6, <3>8
    <3>10. found(p)[k] = rows[k]
      <4>1. DOMAIN SubSeq(ws, 1, p - 1) = 1 .. (p - 1)
            /\ \A i \in 1 .. (p - 1) : SubSeq(ws, 1, p - 1)[i] = ws[i] /\ i \in 1 .. n
        BY <1>1, <3>2 DEF n
      <4>2. \A i \in 1 .. (p - 1) : ws[i][1] # k
        <5>1. \A i \in 1 .. (p - 1) : i \in 1 .. n /\ ~(p <= i) BY ONLY <1>1, <3>2
        <5> QED BY <3>1, <5>1
      <4> QED BY <4>1, <4>2 DEF After
    <3>11. After(after, back)[k] = back[LastWrite(back, k)][2]
      BY <1>6, <3>4 DEF After
    <3> QED BY <3>9, <3>10, <3>11
  <2> QED BY <2>1, <2>2
<1>9. After(after, back) = rows
  <2>1. After(after, back) = [k \in RowKeys |-> After(after, back)[k]] BY DEF After
  <2>2. rows = [k \in RowKeys |-> rows[k]] OBVIOUS
  <2> QED BY <1>8, <2>1, <2>2
<1> QED BY <1>2, <1>3, <1>9 DEF LockRestored

\* One write more.
LEMMA AfterMore ==
  ASSUME NEW rs, NEW ws, NEW W, ws \in Seq(W), NEW k \in RowKeys, NEW row, <<k, row>> \in W
  PROVE  After(rs, ws \o <<<<k, row>>>>) = [After(rs, ws) EXCEPT ![k] = row]
<1> DEFINE more == ws \o <<<<k, row>>>>
           n == Len(ws)
<1>1. n \in Nat /\ DOMAIN ws = 1 .. n OBVIOUS
<1>2. /\ DOMAIN more = 1 .. (n + 1) /\ more[n + 1] = <<k, row>>
      /\ \A i \in 1 .. n : more[i] = ws[i]
  <2>1. more = Append(ws, <<k, row>>) OBVIOUS
  <2> HIDE DEF more
  <2> QED BY <2>1
<1> HIDE DEF more, n
<1>3. ASSUME NEW j \in RowKeys PROVE After(rs, more)[j] = IF j = k THEN row ELSE After(rs, ws)[j]
  <2>1. /\ n + 1 \in Nat /\ n + 1 \in 1 .. (n + 1)
        /\ \A i \in 1 .. (n + 1) : i = n + 1 \/ i \in 1 .. n
        /\ \A i \in 1 .. n : i \in 1 .. (n + 1)
    BY ONLY <1>1
  <2>2. CASE j = k
    <3>1. \E i \in 1 .. (n + 1) : more[i][1] = j BY <1>2, <2>1, <2>2
    <3>2. LastWrite(more, j) \in 1 .. (n + 1) /\ n + 1 <= LastWrite(more, j)
      BY <1>2, <2>1, <2>2, <3>1, LastIs
    <3>3. LastWrite(more, j) = n + 1 BY ONLY <1>1, <3>2
    <3>4. After(rs, more)[j] = more[n + 1][2] BY <1>2, <3>1, <3>3 DEF After
    <3> QED BY <1>2, <2>2, <3>4
  <2>3. CASE j # k /\ \E i \in 1 .. n : ws[i][1] = j
    <3>1. \E i \in 1 .. (n + 1) : more[i][1] = j BY <1>2, <2>1, <2>3
    <3>2. /\ LastWrite(more, j) \in 1 .. (n + 1) /\ more[LastWrite(more, j)][1] = j
          /\ \A i \in 1 .. (n + 1) : more[i][1] = j => i <= LastWrite(more, j)
      BY <1>2, <2>1, <3>1, LastIs
    <3>3. /\ LastWrite(ws, j) \in 1 .. n /\ ws[LastWrite(ws, j)][1] = j
          /\ \A i \in 1 .. n : ws[i][1] = j => i <= LastWrite(ws, j)
      BY <1>1, <2>3, LastIs
    <3>4. LastWrite(more, j) \in 1 .. n BY <1>2, <2>1, <2>3, <3>2
    <3>5. LastWrite(more, j) <= LastWrite(ws, j) BY <1>2, <3>2, <3>3, <3>4
    <3>6. LastWrite(ws, j) <= LastWrite(more, j) BY <1>2, <2>1, <3>2, <3>3
    <3>7. LastWrite(ws, j) = LastWrite(more, j) BY ONLY <1>1, <3>3, <3>4, <3>5, <3>6
    <3>8. After(rs, more)[j] = more[LastWrite(more, j)][2] BY <1>2, <3>1 DEF After
    <3>9. After(rs, ws)[j] = ws[LastWrite(ws, j)][2] BY <1>1, <2>3 DEF After
    <3> QED BY <1>2, <2>3, <3>4, <3>7, <3>8, <3>9
  <2>4. CASE j # k /\ ~ \E i \in 1 .. n : ws[i][1] = j
    <3>1. ~ \E i \in 1 .. (n + 1) : more[i][1] = j BY <1>2, <2>1, <2>4
    <3> QED BY <1>1, <1>2, <2>4, <3>1 DEF After
  <2> QED BY <2>2, <2>3, <2>4
<1>4. After(rs, more) = [j \in RowKeys |-> After(rs, more)[j]] BY DEF After
<1>5. [After(rs, ws) EXCEPT ![k] = row] = [j \in RowKeys |-> IF j = k THEN row ELSE After(rs, ws)[j]]
  BY DEF After
<1> QED BY <1>3, <1>4, <1>5 DEF more

LEMMA SeqOfSet ==
  ASSUME NEW S, IsFiniteSet(S)
  PROVE  SetToSeq(S) \in Seq(S) /\ \A x \in S : \E i \in DOMAIN SetToSeq(S) : SetToSeq(S)[i] = x
<1> DEFINE n == Cardinality(S)
           f == SetToSeq(S)
<1>1. n \in Nat /\ ExistsBijection(1 .. n, S) BY FS_CardinalityType
<1>2. \E g \in [1 .. n -> S] : IsInjective(g)
  BY <1>1 DEF ExistsBijection, Bijection, Injection
<1>3. f \in [1 .. n -> S] /\ IsInjective(f) BY <1>2 DEF SetToSeq
<1> HIDE DEF f
<1>4. f \in Injection(1 .. n, S) BY <1>3 DEF Injection
<1>5. Cardinality(1 .. n) = n
  <2>1. 1 \in Int /\ n \in Int /\ (IF 1 > n THEN 0 ELSE n - 1 + 1) = n BY <1>1
  <2>2. Cardinality(1 .. n) = IF 1 > n THEN 0 ELSE n - 1 + 1 BY ONLY <2>1, FS_Interval
  <2> QED BY <2>1, <2>2
<1>6. f \in Surjection(1 .. n, S) BY <1>4, <1>5, FS_Injection
<1>7. \A x \in S : \E i \in 1 .. n : f[i] = x BY <1>6 DEF Surjection
<1>8. f \in Seq(S) /\ DOMAIN f = 1 .. n BY <1>1, <1>3
<1> QED BY <1>7, <1>8 DEF f

\* The same write to each of a set of rows.
Same(K, row) == K \X {row}

LEMMA AfterSet ==
  ASSUME NEW rs, NEW K \in SUBSET RowKeys, IsFiniteSet(K), NEW row
  PROVE  /\ SetToSeq(Same(K, row)) \in Seq(Same(K, row))
         /\ \A k \in RowKeys : After(rs, SetToSeq(Same(K, row)))[k] = IF k \in K THEN row ELSE rs[k]
<1> DEFINE S == K \X {row}
           ws == SetToSeq(S)
           n == Len(ws)
<1>1. IsFiniteSet(S)
  <2> DEFINE f == [k \in K |-> <<k, row>>]
  <2>1. f \in Surjection(K, S) BY DEF Surjection
  <2> HIDE DEF f
  <2> QED BY <2>1, FS_Surjection
<1>3. ws \in Seq(S) /\ \A x \in S : \E i \in DOMAIN ws : ws[i] = x BY <1>1, SeqOfSet
<1> HIDE DEF ws
<1>4. n \in Nat /\ DOMAIN ws = 1 .. n /\ \A i \in 1 .. n : ws[i] \in S BY <1>3
<1>5. \A i \in 1 .. n : ws[i][1] \in K /\ ws[i][2] = row BY <1>4
<1>6. \A k \in K : \E i \in 1 .. n : ws[i][1] = k
  <2> TAKE k \in K
  <2>1. <<k, row>> \in S OBVIOUS
  <2>2. PICK i \in 1 .. n : ws[i] = <<k, row>> BY <1>3, <1>4, <2>1
  <2> QED BY <2>2
<1> HIDE DEF n
<1>7. ASSUME NEW k \in RowKeys PROVE After(rs, ws)[k] = IF k \in K THEN row ELSE rs[k]
  <2>1. CASE k \in K
    <3>1. \E i \in 1 .. n : ws[i][1] = k BY <1>6, <2>1
    <3>2. LastWrite(ws, k) \in 1 .. n BY <1>4, <3>1, LastIs
    <3> QED BY <1>4, <1>5, <2>1, <3>1, <3>2 DEF After
  <2>2. CASE k \notin K
    <3>1. ~ \E i \in DOMAIN ws : ws[i][1] = k BY <1>4, <1>5, <2>2
    <3> QED BY <2>2, <3>1 DEF After
  <2> QED BY <2>1, <2>2
<1>8. S = Same(K, row) BY DEF Same
<1> QED BY <1>3, <1>7, <1>8 DEF ws

-----------------------------------------------------------------------------
(* The invariant.                                                           *)

\* One slot for each usage, however many are locked at once: without it the
\* box drops what the crate goes on holding.
MediaFits == IsFiniteSet(MediaUsages) /\ Cardinality(MediaUsages) <= MediaSlots

Rows == [SlotDirs -> Scales]
InUse(slots) == {slots[i] : i \in 1 .. MediaSlots} \ {FreeSlot}
OneSlot(slots) ==
  \A i, j \in 1 .. MediaSlots : slots[i] = slots[j] /\ slots[i] # FreeSlot => i = j

\* What a device with n buttons has.
Reached(n, k) == k \in ButtonRows => k[2] < n

Slotted == [1 .. MediaSlots -> MediaUsages \cup {FreeSlot}]
Boxes == [up : BOOLEAN, buttons : ButtonCounts, rows : [Shared -> Rows], media : Slotted]

RowsTyped == rows \in [RowKeys -> Rows]
LocksTyped ==
  /\ RowsTyped
  /\ mediaOrder \in Seq(MediaUsages)
  /\ declared \in Nat
  /\ lockBox \in Boxes
  /\ synced \in {"yes", "behind", "orphaned"}

\* A held blanket is whole, and no button has a row beside it.
OneBlanket(rs) ==
  /\ rs[AllButtons] \in {PassRow, BothRow(Block)}
  /\ rs[AllButtons] # PassRow => \A k \in ButtonRows : rs[k] = PassRow

\* Without a clone the box holds nothing, and only a reset leaves the crate nothing
\* to send.
Down ==
  ~lockBox.up =>
    /\ lockBox.rows = EmptyTable.rows /\ lockBox.media = EmptyTable.media
    /\ synced = "yes" => rows = [k \in RowKeys |-> PassRow] /\ mediaOrder = <<>>

\* Of what the crate holds the box that is behind has some, and nothing else: as the
\* device that is there has it, however many buttons the crate counts.
CopyIn(rs, order, b, sync) ==
  /\ sync = "yes" =>
       /\ \A k \in Shared : Reached(b.buttons, k) => b.rows[k] = RowIn(rs, b.buttons, k)
       /\ InUse(b.media) = ToSet(order)
  /\ sync = "behind" =>
       /\ \A k \in Shared : Reached(b.buttons, k) =>
            \A e \in SlotDirs : b.rows[k][e] \in {Pass, RowIn(rs, b.buttons, k)[e]}
       /\ InUse(b.media) \subseteq ToSet(order)

LockInv ==
  /\ LocksTyped /\ OneBlanket(rows) /\ Down /\ OneSlot(lockBox.media)
  /\ CopyIn(rows, mediaOrder, lockBox, synced)

-----------------------------------------------------------------------------
(* One row.                                                                 *)

LEMMA ScalesAre == Pass \in Scales /\ Block \in Scales /\ Pass # Block
BY ScaleAssumption DEF Pass, Block

LEMMA RowsAre ==
  /\ PassRow \in Rows
  /\ \A s \in Scales : BothRow(s) \in Rows
  /\ BothRow(Pass) = PassRow
BY ScalesAre DEF Rows, PassRow, BothRow

LEMMA WritesRow ==
  ASSUME NEW row \in Rows, NEW d \in Dirs, NEW s \in Scales
  PROVE  /\ Written(row, d, s) \in Rows /\ Written(row, d, s) = SlotsSet(row, d, s)
         /\ d = "both" => Written(row, d, s) = BothRow(s)
<1>1. "both" \notin SlotDirs BY DEF SlotDirs, LockEdges, Bearings
<1>2. CASE d = "both"
  <2>1. Written(row, d, s) = BothRow(s) BY <1>2 DEF Written
  <2>2. SlotsSet(row, d, s) = BothRow(s) BY <1>2 DEF SlotsSet, BothRow
  <2> QED BY <2>1, <2>2, RowsAre
<1>3. CASE d # "both"
  <2>1. d \in SlotDirs BY <1>3 DEF Dirs
  <2>2. Written(row, d, s) = [row EXCEPT ![d] = s] BY <1>3 DEF Written
  <2>3. SlotsSet(row, d, s) = [e \in SlotDirs |-> IF e = d THEN s ELSE row[e]] BY <1>3 DEF SlotsSet
  <2>4. row = [e \in SlotDirs |-> row[e]] /\ \A e \in SlotDirs : row[e] \in Scales BY DEF Rows
  <2>5. [row EXCEPT ![d] = s] = [e \in SlotDirs |-> IF e = d THEN s ELSE row[e]] BY <2>4
  <2> QED BY <1>3, <2>2, <2>3, <2>4, <2>5 DEF Rows
<1> QED BY <1>2, <1>3

\* The commands of a row bring it back where nothing else is set.
LEMMA CommandsBring ==
  ASSUME NEW row \in Rows, NEW was \in Rows, \A e \in SlotDirs : was[e] \in {Pass, row[e]}
  PROVE  Commanded(was, Commands(row)) = row
<1>1. "both" \notin SlotDirs BY DEF SlotDirs, LockEdges, Bearings
<1>2. row = [e \in SlotDirs |-> row[e]] /\ was = [e \in SlotDirs |-> was[e]] BY DEF Rows
<1>3. CASE row = PassRow
  <2>1. Commands(row) = {}
    <3>1. row["pos"] = Pass BY <1>3 DEF PassRow, SlotDirs, LockEdges
    <3> QED BY <1>3, <3>1, RowsAre DEF Commands
  <2>2. Commanded(was, {}) = was BY <1>2 DEF Commanded
  <2>3. \A e \in SlotDirs : was[e] = row[e] BY <1>3 DEF PassRow
  <2> QED BY <1>2, <2>1, <2>2, <2>3
<1>4. CASE row # PassRow /\ row = BothRow(row["pos"])
  <2>1. Commands(row) = {<<"both", row["pos"]>>} BY <1>4 DEF Commands
  <2>2. Commanded(was, Commands(row)) = SlotsSet(was, "both", row["pos"])
    <3> DEFINE cs == {<<"both", row["pos"]>>}
    <3>1. \E c \in cs : c[1] = "both" OBVIOUS
    <3>2. \A c \in cs : c[2] = row["pos"] OBVIOUS
    <3> HIDE DEF cs
    <3>3. Commanded(was, cs) = SlotsSet(was, "both", row["pos"]) BY <3>1, <3>2 DEF Commanded
    <3> QED BY <2>1, <3>3 DEF cs
  <2>3. SlotsSet(was, "both", row["pos"]) = BothRow(row["pos"]) BY DEF SlotsSet, BothRow
  <2> QED BY <1>4, <2>2, <2>3
<1>5. CASE row # BothRow(row["pos"])
  <2> DEFINE cs == {<<d, row[d]>> : d \in {d \in SlotDirs : row[d] # Pass}}
  <2>1. Commands(row) = cs BY <1>5 DEF Commands
  <2>2. ~ \E c \in cs : c[1] = "both" BY <1>1
  <2>3. Commanded(was, cs)
          = [e \in SlotDirs |-> IF \E c \in cs : c[1] = e THEN (CHOOSE c \in cs : c[1] = e)[2] ELSE was[e]]
    BY <2>2 DEF Commanded
  <2>4. ASSUME NEW e \in SlotDirs
        PROVE  (IF \E c \in cs : c[1] = e THEN (CHOOSE c \in cs : c[1] = e)[2] ELSE was[e]) = row[e]
    <3>1. CASE row[e] # Pass
      <4>1. <<e, row[e]>> \in cs /\ \A c \in cs : c[1] = e => c[2] = row[e] BY <3>1
      <4> HIDE DEF cs
      <4> QED BY <4>1
    <3>2. CASE row[e] = Pass
      <4>1. ~ \E c \in cs : c[1] = e BY <3>2
      <4> HIDE DEF cs
      <4> QED BY <3>2, <4>1
    <3> QED BY <3>1, <3>2
  <2> HIDE DEF cs
  <2> QED BY <1>2, <2>1, <2>3, <2>4
<1> QED BY <1>3, <1>4, <1>5

-----------------------------------------------------------------------------
(* One write of the crate.                                                  *)

LEMMA KeysAre ==
  /\ AllButtons \in RowKeys /\ AllButtons \notin Shared /\ ButtonRows \subseteq RowKeys
  /\ Shared \subseteq RowKeys /\ AllButtons \notin ButtonRows
  /\ \A k \in RowKeys : k \in Shared \/ k = AllButtons \/ IsMediaSlot(k)
  /\ \A k \in Shared : ~IsMediaSlot(k)
  /\ \A k \in RowKeys : IsMediaSlot(k) => k[2] \in MediaUsages /\ k \notin ButtonRows
  /\ \A k \in ButtonRows : k[2] \in Buttons /\ k = <<"btn", k[2]>>
  /\ IsFiniteSet(ButtonRows) /\ Buttons \subseteq Nat
<1>1. AllButtons \notin Shared /\ AllButtons \notin ButtonRows
  BY AllAssumption DEF AllButtons, Shared, AxisRows, ButtonRows, KeyRows, AllMedia
<1>2. \A k \in RowKeys : k \in Shared \/ k = AllButtons \/ IsMediaSlot(k)
  BY DEF RowKeys, IsMediaSlot, Shared
<1>3. \A k \in Shared : ~IsMediaSlot(k)
  BY DEF Shared, IsMediaSlot, MediaRows, AxisRows, ButtonRows, KeyRows, AllMedia
<1>4. \A k \in RowKeys : IsMediaSlot(k) => k[2] \in MediaUsages /\ k \notin ButtonRows
  BY DEF IsMediaSlot, MediaRows, AllMedia, ButtonRows
<1>5. IsFiniteSet(ButtonRows)
  <2>1. IsFiniteSet(Buttons)
    <3>1. MaxButtons \in Nat /\ Buttons \in SUBSET Nat /\ \A b \in Buttons : b <= MaxButtons
      BY DEF Buttons, MaxButtons
    <3> QED BY ONLY <3>1, FS_BoundedSetOfNaturals
  <2>2. IsFiniteSet({"btn"}) BY FS_Singleton
  <2> QED BY <2>1, <2>2, FS_Product DEF ButtonRows
<1>6. Buttons \subseteq Nat BY DEF Buttons, MaxButtons
<1>7. \A k \in ButtonRows : k[2] \in Buttons /\ k = <<"btn", k[2]>> BY DEF ButtonRows
<1> QED BY <1>1, <1>2, <1>3, <1>4, <1>5, <1>6, <1>7 DEF RowKeys, Shared

\* The rows a write changes: its own, and all buttons' for their blanket.
Hits(k, j) == j = k \/ (k = AllButtons /\ j \in ButtonRows)

LEMMA StoredIs ==
  ASSUME NEW k, NEW s \in Scales, k \notin AxisRows => s \in {Pass, Block}
  PROVE  Stored(k, s) = s
BY DEF Stored, Pass, Block

RowsAfter(k, d, s) ==
  [j \in RowKeys |->
    IF j = k THEN Written(RowBefore(k), d, s)
    ELSE IF k = AllButtons /\ j \in ButtonRows THEN PassRow
    ELSE IF Bursts(k) /\ j = AllButtons THEN PassRow
    ELSE IF Bursts(k) /\ j \in ButtonRows /\ j[2] < declared THEN rows[AllButtons]
    ELSE rows[j]]

LEMMA WritesLead ==
  ASSUME RowsTyped, NEW k \in RowKeys, NEW d \in Dirs, NEW s \in Scales
  PROVE  /\ Writes(k, d, s) \in Seq(RowKeys \X Rows)
         /\ OneBlanket(rows) => After(rows, Writes(k, d, s)) = RowsAfter(k, d, s)
<1> DEFINE row == Written(RowBefore(k), d, s)
           W == RowKeys \X Rows
<1>0. rows \in [RowKeys -> Rows] BY DEF RowsTyped
<1>1. row \in Rows
  <2>1. RowBefore(k) \in Rows BY <1>0, KeysAre DEF RowBefore
  <2> QED BY <2>1, WritesRow
<1> HIDE DEF row
<1>2. <<k, row>> \in W /\ <<<<k, row>>>> \in Seq(W) BY <1>1
<1>3. rows = [j \in RowKeys |-> rows[j]] BY <1>0
<1> HIDE DEF W
<1>4. CASE k = AllButtons
  <2> DEFINE K == {j \in ButtonRows : rows[j] # PassRow}
             clear == SetToSeq(Same(K, PassRow))
  <2>1. K \in SUBSET RowKeys /\ IsFiniteSet(K) /\ K \subseteq ButtonRows BY KeysAre, FS_Subset
  <2>2. clear = ClearButtons
    <3>1. Same(K, PassRow) = {<<j, PassRow>> : j \in K} BY DEF Same
    <3> QED BY <3>1 DEF ClearButtons
  <2>3. \A j \in ButtonRows : j \notin K => rows[j] = PassRow OBVIOUS
  <2> HIDE DEF K
  <2>4. clear \in Seq(Same(K, PassRow))
        /\ \A j \in RowKeys : After(rows, clear)[j] = IF j \in K THEN PassRow ELSE rows[j]
    <3>0. K \in SUBSET RowKeys /\ IsFiniteSet(K) BY ONLY <2>1
    <3>1. clear \in Seq(Same(K, PassRow)) BY ONLY <3>0, AfterSet
    <3>2. \A j \in RowKeys : After(rows, clear)[j] = IF j \in K THEN PassRow ELSE rows[j]
      BY ONLY <3>0, AfterSet
    <3> QED BY <3>1, <3>2
  <2>5. Same(K, PassRow) \subseteq W BY <2>1, RowsAre DEF W, Same
  <2> HIDE DEF clear
  <2>6. clear \in Seq(W) BY <2>4, <2>5, SeqMonotonic
  <2>7. Writes(k, d, s) = clear \o <<<<k, row>>>> BY <1>4, <2>2 DEF Writes, row
  <2>8. Writes(k, d, s) \in Seq(W) BY ONLY <1>2, <2>6, <2>7, ConcatProperties
  <2>9. After(rows, Writes(k, d, s)) = [After(rows, clear) EXCEPT ![k] = row]
    BY <1>2, <2>6, <2>7, AfterMore
  <2>10. ~Bursts(k) BY <1>4, KeysAre DEF Bursts
  <2>11. ASSUME NEW j \in RowKeys
         PROVE  [After(rows, clear) EXCEPT ![k] = row][j] = RowsAfter(k, d, s)[j]
    <3>1. After(rows, clear)[j] = IF j \in ButtonRows THEN PassRow ELSE rows[j]
      BY <2>1, <2>3, <2>4
    <3>2. RowsAfter(k, d, s)[j] = IF j = k THEN row ELSE IF j \in ButtonRows THEN PassRow ELSE rows[j]
      BY <1>4, <2>10 DEF RowsAfter, row
    <3>3. [After(rows, clear) EXCEPT ![k] = row][j] = IF j = k THEN row ELSE After(rows, clear)[j]
      BY DEF After
    <3> QED BY <3>1, <3>2, <3>3
  <2>12. [After(rows, clear) EXCEPT ![k] = row] = [j \in RowKeys |-> [After(rows, clear) EXCEPT ![k] = row][j]]
    BY DEF After
  <2>13. RowsAfter(k, d, s) = [j \in RowKeys |-> RowsAfter(k, d, s)[j]] BY DEF RowsAfter
  <2>14. After(rows, Writes(k, d, s)) = RowsAfter(k, d, s) BY <2>9, <2>11, <2>12, <2>13
  <2> QED BY <2>8, <2>14 DEF W
<1>5. CASE k # AllButtons /\ Bursts(k)
  <2> DEFINE K == {j \in ButtonRows : j[2] < declared /\ rows[j] = PassRow}
             blanket == rows[AllButtons]
             all == SetToSeq(Same(K, blanket))
  <2>0. blanket # PassRow /\ k \in ButtonRows /\ blanket \in Rows BY <1>0, <1>5, KeysAre DEF Bursts
  <2>1. K \in SUBSET RowKeys /\ IsFiniteSet(K) /\ K \subseteq ButtonRows BY KeysAre, FS_Subset
  <2>2. {<<"btn", n>> : n \in {n \in Buttons : n < declared}} \cap {j \in ButtonRows : rows[j] = PassRow} = K
    <3>1. \A j \in ButtonRows : j \in {<<"btn", n>> : n \in {n \in Buttons : n < declared}} <=> j[2] < declared
      BY DEF ButtonRows
    <3> QED BY <3>1
  <2>3. Burst = all \o <<<<AllButtons, PassRow>>>>
    <3>1. Same(K, blanket) = {<<j, blanket>> : j \in K} BY DEF Same
    <3> HIDE DEF K
    <3> QED BY <2>2, <3>1 DEF Burst
  <2>4. OneBlanket(rows) => \A j \in ButtonRows : j \in K <=> j[2] < declared BY <2>0 DEF OneBlanket
  <2> HIDE DEF K, blanket
  <2>5. all \in Seq(Same(K, blanket))
        /\ \A j \in RowKeys : After(rows, all)[j] = IF j \in K THEN blanket ELSE rows[j]
    <3>0. K \in SUBSET RowKeys /\ IsFiniteSet(K) BY ONLY <2>1
    <3>1. all \in Seq(Same(K, blanket)) BY ONLY <3>0, AfterSet
    <3>2. \A j \in RowKeys : After(rows, all)[j] = IF j \in K THEN blanket ELSE rows[j]
      BY ONLY <3>0, AfterSet
    <3> QED BY <3>1, <3>2
  <2>6. Same(K, blanket) \subseteq W BY <2>0, <2>1 DEF W, Same
  <2> HIDE DEF all
  <2>7. all \in Seq(W) BY <2>5, <2>6, SeqMonotonic
  <2>8. <<AllButtons, PassRow>> \in W BY KeysAre, RowsAre DEF W
  <2>9. <<<<AllButtons, PassRow>>>> \in Seq(W) BY <2>8
  <2>10. Burst \in Seq(W) BY ONLY <2>3, <2>7, <2>9, ConcatProperties
  <2>11. After(rows, Burst) = [After(rows, all) EXCEPT ![AllButtons] = PassRow]
    BY <2>3, <2>7, <2>8, KeysAre, AfterMore
  <2>12. Writes(k, d, s) = Burst \o <<<<k, row>>>> BY <1>5 DEF Writes, row
  <2>13. Writes(k, d, s) \in Seq(W) BY ONLY <1>2, <2>10, <2>12, ConcatProperties
  <2>14. After(rows, Writes(k, d, s)) = [After(rows, Burst) EXCEPT ![k] = row]
    BY <1>2, <2>10, <2>12, AfterMore
  <2>15. ASSUME OneBlanket(rows), NEW j \in RowKeys PROVE After(rows, Writes(k, d, s))[j] = RowsAfter(k, d, s)[j]
    <3>1. After(rows, all)[j] = IF j \in ButtonRows /\ j[2] < declared THEN blanket ELSE rows[j]
      BY <2>1, <2>4, <2>5, <2>15
    <3>2. After(rows, Burst)[j] = IF j = AllButtons THEN PassRow ELSE After(rows, all)[j]
      BY <2>11 DEF After
    <3>3. After(rows, Writes(k, d, s))[j] = IF j = k THEN row ELSE After(rows, Burst)[j]
      BY <2>14 DEF After
    <3>4. RowsAfter(k, d, s)[j] =
            IF j = k THEN row ELSE IF j = AllButtons THEN PassRow
            ELSE IF j \in ButtonRows /\ j[2] < declared THEN blanket ELSE rows[j]
      BY <1>5 DEF RowsAfter, row, blanket
    <3> QED BY ONLY <3>1, <3>2, <3>3, <3>4
  <2>16. /\ After(rows, Writes(k, d, s)) = [j \in RowKeys |-> After(rows, Writes(k, d, s))[j]]
         /\ RowsAfter(k, d, s) = [j \in RowKeys |-> RowsAfter(k, d, s)[j]]
    BY DEF After, RowsAfter
  <2>17. OneBlanket(rows) => After(rows, Writes(k, d, s)) = RowsAfter(k, d, s) BY <2>15, <2>16
  <2> QED BY <2>13, <2>17 DEF W
<1>6. CASE k # AllButtons /\ ~Bursts(k)
  <2> DEFINE none == <<>>
  <2>1. Writes(k, d, s) = none \o <<<<k, row>>>> BY <1>6 DEF Writes, row
  <2>2. none \in Seq(W) /\ After(rows, none) = rows BY <1>3 DEF After
  <2> HIDE DEF none
  <2>3. Writes(k, d, s) \in Seq(W) BY ONLY <1>2, <2>1, <2>2, ConcatProperties
  <2>4. After(rows, Writes(k, d, s)) = [rows EXCEPT ![k] = row]
    BY <1>2, <2>1, <2>2, AfterMore
  <2>5. RowsAfter(k, d, s) = [j \in RowKeys |-> IF j = k THEN row ELSE rows[j]]
    BY <1>6 DEF RowsAfter, row
  <2>6. [rows EXCEPT ![k] = row] = [j \in RowKeys |-> IF j = k THEN row ELSE rows[j]] BY <1>0
  <2> QED BY <2>3, <2>4, <2>5, <2>6 DEF W
<1> QED BY <1>4, <1>5, <1>6

LEMMA DirsAre ==
  ASSUME NEW k \in RowKeys, ~EdgeBlankets, NEW d \in DirsOf(k)
  PROVE  /\ d \in Dirs /\ (k = AllButtons \/ IsMediaSlot(k) => d = "both")
<1>1. d \in Dirs BY DEF DirsOf, Dirs, SlotDirs
<1>2. AllButtons \notin AxisRows BY DEF AllButtons, AxisRows
<1>3. k = AllButtons => d = "both" BY <1>2 DEF DirsOf
<1>4. IsMediaSlot(k) => k \in MediaRows /\ k \notin AxisRows BY DEF IsMediaSlot, MediaRows, AxisRows
<1> QED BY <1>1, <1>3, <1>4 DEF DirsOf

LEMMA RowsFollow ==
  ASSUME RowsTyped, OneBlanket(rows), ~EdgeBlankets, NEW k \in RowKeys, NEW d \in DirsOf(k), NEW s \in Scales,
         k \notin AxisRows => s \in {Pass, Block}, NEW R, R = RowsAfter(k, d, s), declared \in Int,
         NEW n \in Int
  PROVE  /\ R \in [RowKeys -> Rows] /\ OneBlanket(R)
         /\ ~(Bursts(k) /\ declared < n) =>
              \A j \in Shared : Reached(n, j) =>
                RowIn(R, n, j) = IF Hits(k, j) THEN SlotsSet(RowIn(rows, n, j), d, s) ELSE RowIn(rows, n, j)
         /\ IsMediaSlot(k) => R[k] = BothRow(s)
<1> DEFINE row == Written(RowBefore(k), d, s)
           blanket == rows[AllButtons]
<1>1. rows \in [RowKeys -> Rows] /\ blanket \in Rows /\ OneBlanket(rows)
  BY KeysAre DEF RowsTyped
<1>2. d \in Dirs /\ (k = AllButtons \/ IsMediaSlot(k) => d = "both") BY DirsAre
<1>3. RowBefore(k) \in Rows /\ row \in Rows /\ row = SlotsSet(RowBefore(k), d, s)
      /\ (d = "both" => row = BothRow(s))
  <2>1. RowBefore(k) \in Rows BY <1>1 DEF RowBefore
  <2> QED BY <1>2, <2>1, WritesRow
<1>4. \A j \in RowKeys :
        R[j] = IF j = k THEN row
               ELSE IF k = AllButtons /\ j \in ButtonRows THEN PassRow
               ELSE IF Bursts(k) /\ j = AllButtons THEN PassRow
               ELSE IF Bursts(k) /\ j \in ButtonRows /\ j[2] < declared THEN blanket
               ELSE rows[j]
  BY DEF RowsAfter
<1>5. R = [j \in RowKeys |-> R[j]] BY DEF RowsAfter
<1> HIDE DEF row, blanket
<1>6. PassRow \in Rows BY RowsAre
<1>7. R \in [RowKeys -> Rows]
  <2>1. \A j \in RowKeys : R[j] \in Rows BY <1>1, <1>3, <1>4, <1>6
  <2> QED BY ONLY <1>5, <2>1
<1>8. k = AllButtons => s \in {Pass, Block} BY DEF AllButtons, AxisRows
<1>9. BothRow(Pass) = PassRow BY RowsAre
<1>13. ASSUME NEW j \in ButtonRows PROVE j[2] \in Int
  <2>1. j[2] \in Buttons /\ \A x \in Buttons : x \in Int BY KeysAre
  <2> QED BY <2>1
<1>10. CASE k = AllButtons
  <2>1. R[AllButtons] = BothRow(s) /\ row = BothRow(s) BY <1>2, <1>3, <1>4, <1>10
  <2>2. \A j \in ButtonRows : R[j] = PassRow BY <1>4, <1>10, KeysAre
  <2>3. OneBlanket(R) BY <1>8, <1>9, <1>10, <2>1, <2>2 DEF OneBlanket
  <2>4. ASSUME NEW j \in Shared, Reached(n, j)
        PROVE  RowIn(R, n, j) = IF Hits(k, j) THEN SlotsSet(RowIn(rows, n, j), d, s) ELSE RowIn(rows, n, j)
    <3>1. CASE j \in ButtonRows
      <4>1. Hits(k, j) /\ j[2] < n BY <1>10, <2>4, <3>1 DEF Hits, Reached
      <4>2. SlotsSet(RowIn(rows, n, j), d, s) = BothRow(s) BY <1>2, <1>10 DEF SlotsSet, BothRow
      <4>3. RowIn(R, n, j) = BothRow(s) BY <2>1, <2>2, <3>1, <4>1 DEF RowIn
      <4> QED BY <4>1, <4>2, <4>3
    <3>2. CASE j \notin ButtonRows
      <4>1. ~Hits(k, j) /\ R[j] = rows[j] BY <1>4, <1>10, <3>2, KeysAre DEF Hits, Bursts
      <4> QED BY <3>2, <4>1 DEF RowIn
    <3> QED BY <3>1, <3>2
  <2>5. ~IsMediaSlot(k) BY <1>10 DEF IsMediaSlot, MediaRows, AllButtons
  <2> QED BY <1>7, <2>3, <2>4, <2>5
<1>11. CASE k # AllButtons /\ Bursts(k)
  <2>0. k \in ButtonRows /\ blanket # PassRow BY <1>11 DEF Bursts, blanket
  <2>1. R[AllButtons] = PassRow BY <1>4, <1>11, KeysAre
  <2>2. OneBlanket(R) BY <2>1 DEF OneBlanket
  <2>3. \A j \in ButtonRows : rows[j] = PassRow BY <1>1, <2>0 DEF OneBlanket, blanket
  <2>4. ASSUME ~(declared < n), NEW j \in Shared, Reached(n, j)
        PROVE  RowIn(R, n, j) = IF Hits(k, j) THEN SlotsSet(RowIn(rows, n, j), d, s) ELSE RowIn(rows, n, j)
    <3>0. RowIn(R, n, j) = R[j] BY <2>1 DEF RowIn
    <3>1. CASE j = k
      <4>0. k[2] < n BY <2>0, <2>4, <3>1 DEF Reached
      <4>1. k[2] < declared BY <1>13, <2>0, <2>4, <4>0
      <4>2. RowBefore(k) = blanket BY <1>11, <2>0, <2>3, <4>1 DEF RowBefore, blanket
      <4>3. RowIn(rows, n, k) = blanket BY <2>0, <4>0 DEF RowIn, blanket
      <4>4. R[j] = row BY <1>4, <3>1
      <4>5. Hits(k, j) BY <3>1 DEF Hits
      <4> QED BY <1>3, <3>0, <3>1, <4>2, <4>3, <4>4, <4>5
    <3>2. CASE j # k /\ j \in ButtonRows
      <4>0. j[2] < n BY <2>4, <3>2 DEF Reached
      <4>1. j[2] < declared BY <1>13, <2>4, <3>2, <4>0
      <4>2. R[j] = blanket BY <1>4, <1>11, <3>2, <4>1, KeysAre
      <4>3. RowIn(rows, n, j) = blanket BY <2>0, <3>2, <4>0 DEF RowIn, blanket
      <4>4. ~Hits(k, j) BY <1>11, <3>2 DEF Hits
      <4> QED BY <3>0, <4>2, <4>3, <4>4
    <3>3. CASE j \notin ButtonRows
      <4>1. j # k /\ j # AllButtons /\ j \in RowKeys BY <2>0, <3>3, KeysAre
      <4>2. R[j] = rows[j] BY <1>4, <1>11, <3>3, <4>1
      <4>3. ~Hits(k, j) BY <1>11, <4>1 DEF Hits
      <4>4. RowIn(rows, n, j) = rows[j] BY <3>3 DEF RowIn
      <4> QED BY <3>0, <4>2, <4>3, <4>4
    <3> QED BY <3>1, <3>2, <3>3
  <2>5. ~IsMediaSlot(k) BY <2>0, KeysAre
  <2> QED BY <1>7, <1>11, <2>2, <2>4, <2>5
<1>12. CASE k # AllButtons /\ ~Bursts(k)
  <2>1. \A j \in RowKeys : R[j] = IF j = k THEN row ELSE rows[j] BY <1>4, <1>12
  <2>2. R[AllButtons] = blanket BY <1>12, <2>1, KeysAre DEF blanket
  <2>3. k \in ButtonRows => blanket = PassRow BY <1>12 DEF Bursts, blanket
  <2>4. OneBlanket(R)
    <3>1. blanket # PassRow => \A j \in ButtonRows : R[j] = PassRow
      BY <1>1, <2>1, <2>3, KeysAre DEF OneBlanket, blanket
    <3> QED BY <1>1, <2>2, <3>1 DEF OneBlanket, blanket
  <2>5. RowBefore(k) = rows[k] BY <1>12 DEF RowBefore
  <2>6. ASSUME NEW j \in Shared, Reached(n, j)
        PROVE  RowIn(R, n, j) = IF Hits(k, j) THEN SlotsSet(RowIn(rows, n, j), d, s) ELSE RowIn(rows, n, j)
    <3>0. Hits(k, j) <=> j = k BY <1>12 DEF Hits
    <3>1. CASE j = k
      <4>1. RowIn(rows, n, j) = rows[j] BY <2>3, <3>1 DEF RowIn, blanket
      <4>2. RowIn(R, n, j) = row BY <2>1, <2>2, <2>3, <3>1 DEF RowIn
      <4> QED BY <1>3, <2>5, <3>0, <3>1, <4>1, <4>2
    <3>2. CASE j # k
      <4>1. R[j] = rows[j] BY <2>1, <3>2, KeysAre
      <4>2. RowIn(R, n, j) = RowIn(rows, n, j) BY <2>2, <4>1 DEF RowIn, blanket
      <4> QED BY <3>0, <3>2, <4>2
    <3> QED BY <3>1, <3>2
  <2>7. IsMediaSlot(k) => R[k] = BothRow(s) BY <1>2, <1>3, <2>1
  <2> QED BY <1>7, <2>4, <2>6, <2>7
<1> QED BY <1>10, <1>11, <1>12

-----------------------------------------------------------------------------
(* The media slots.                                                         *)

\* Fewer usages than slots, and one to a slot: there is always one free.
LEMMA SlotLeft ==
  ASSUME MediaFits, NEW slots \in Slotted, OneSlot(slots), NEW m \in MediaUsages,
         \A i \in 1 .. MediaSlots : slots[i] # m
  PROVE  \E i \in 1 .. MediaSlots : slots[i] = FreeSlot
<1> DEFINE others == MediaUsages \ {m}
<1> SUFFICES ASSUME \A i \in 1 .. MediaSlots : slots[i] # FreeSlot PROVE FALSE OBVIOUS
<1>1. slots \in [1 .. MediaSlots -> others] BY DEF Slotted
<1>2. slots \in Injection(1 .. MediaSlots, others)
  <2>1. \A i, j \in 1 .. MediaSlots : slots[i] = slots[j] => i = j BY DEF OneSlot
  <2> HIDE DEF others
  <2> QED BY <1>1, <2>1 DEF Injection, IsInjective
<1>3. IsFiniteSet(others) /\ Cardinality(others) = Cardinality(MediaUsages) - 1
  BY FS_RemoveElement DEF MediaFits
<1> HIDE DEF others
<1>4. Cardinality(1 .. MediaSlots) <= Cardinality(others) BY <1>2, <1>3, FS_Injection
<1>5. MediaSlots \in Nat BY LockBoundAssumption
<1>6. Cardinality(1 .. MediaSlots) = MediaSlots
  <2>1. 1 \in Int /\ MediaSlots \in Int /\ (IF 1 > MediaSlots THEN 0 ELSE MediaSlots - 1 + 1) = MediaSlots
    BY ONLY <1>5
  <2>2. Cardinality(1 .. MediaSlots) = IF 1 > MediaSlots THEN 0 ELSE MediaSlots - 1 + 1
    BY ONLY <2>1, FS_Interval
  <2> QED BY ONLY <2>1, <2>2
<1>7. Cardinality(MediaUsages) \in Nat /\ Cardinality(MediaUsages) <= MediaSlots
  BY FS_CardinalityType DEF MediaFits
<1> QED BY ONLY <1>3, <1>4, <1>5, <1>6, <1>7

LEMMA SlotTaken ==
  ASSUME MediaFits, NEW slots \in Slotted, OneSlot(slots), NEW m \in MediaUsages
  PROVE  /\ MediaTaken(slots, m) \in Slotted /\ OneSlot(MediaTaken(slots, m))
         /\ InUse(MediaTaken(slots, m)) = InUse(slots) \cup {m}
         /\ m \in InUse(slots) => MediaTaken(slots, m) = slots
<1>0. DOMAIN slots = 1 .. MediaSlots /\ m # FreeSlot BY AllAssumption DEF Slotted, FreeSlot
<1>1. CASE \E i \in 1 .. MediaSlots : slots[i] = m
  <2>1. MediaTaken(slots, m) = slots BY <1>0, <1>1 DEF MediaTaken
  <2>2. m \in InUse(slots) BY <1>0, <1>1 DEF InUse
  <2> QED BY <2>1, <2>2
<1>2. CASE \A i \in 1 .. MediaSlots : slots[i] # m
  <2> DEFINE Free == {i \in 1 .. MediaSlots : slots[i] = FreeSlot}
             First(i) == slots[i] = FreeSlot /\ \A j \in DOMAIN slots : slots[j] = FreeSlot => i <= j
             i0 == CHOOSE i \in DOMAIN slots : First(i)
             next == [slots EXCEPT ![i0] = m]
  <2>1. \E i \in DOMAIN slots : First(i)
    <3>1. Free \in SUBSET Nat /\ Free # {} BY <1>2, SlotLeft
    <3>2. PICK i \in Free : \A j \in Free : i <= j
      <4> HIDE DEF Free
      <4> QED BY <3>1, Least
    <3> QED BY <1>0, <3>2
  <2>2. i0 \in DOMAIN slots /\ First(i0) BY <2>1
  <2>3. ~ \E i \in DOMAIN slots : slots[i] = m \/ \A j \in DOMAIN slots : slots[j] # FreeSlot
    BY <1>0, <1>2, <2>1
  <2>4. MediaTaken(slots, m) = next BY <2>3 DEF MediaTaken
  <2>5. i0 \in 1 .. MediaSlots /\ slots[i0] = FreeSlot BY <1>0, <2>2
  <2> HIDE DEF i0
  <2>6. next \in Slotted BY <2>5 DEF Slotted
  <2>7. \A i \in 1 .. MediaSlots : next[i] = IF i = i0 THEN m ELSE slots[i] BY <1>0, <2>5
  <2> HIDE DEF next
  <2>8. OneSlot(next) BY <1>2, <2>7 DEF OneSlot
  <2>9. InUse(next) = InUse(slots) \cup {m}
    <3>1. ASSUME NEW x \in InUse(next) PROVE x \in InUse(slots) \cup {m}
      <4>1. PICK i \in 1 .. MediaSlots : x = next[i] /\ x # FreeSlot BY <3>1 DEF InUse
      <4> QED BY <2>7, <4>1 DEF InUse
    <3>2. ASSUME NEW x \in InUse(slots) PROVE x \in InUse(next)
      <4>1. PICK i \in 1 .. MediaSlots : x = slots[i] /\ x # FreeSlot BY <3>2 DEF InUse
      <4>2. i # i0 /\ next[i] = x BY <2>5, <2>7, <4>1
      <4> QED BY <4>1, <4>2 DEF InUse
    <3>3. m \in InUse(next) BY <1>0, <2>5, <2>7 DEF InUse
    <3> QED BY <3>1, <3>2, <3>3
  <2>10. m \notin InUse(slots) BY <1>2 DEF InUse
  <2> QED BY <2>4, <2>6, <2>8, <2>9, <2>10
<1> QED BY <1>1, <1>2

LEMMA SlotFreed ==
  ASSUME NEW slots \in Slotted, OneSlot(slots), NEW m \in MediaUsages
  PROVE  /\ MediaFreed(slots, m) \in Slotted /\ OneSlot(MediaFreed(slots, m))
         /\ InUse(MediaFreed(slots, m)) = InUse(slots) \ {m}
<1> DEFINE next == MediaFreed(slots, m)
<1>0. DOMAIN slots = 1 .. MediaSlots /\ m # FreeSlot BY AllAssumption DEF Slotted, FreeSlot
<1>1. next = [i \in 1 .. MediaSlots |-> IF slots[i] = m THEN FreeSlot ELSE slots[i]]
  BY <1>0 DEF MediaFreed
<1>2. next \in Slotted BY <1>1 DEF Slotted
<1>3. \A i \in 1 .. MediaSlots : next[i] = IF slots[i] = m THEN FreeSlot ELSE slots[i] BY <1>1
<1> HIDE DEF next
<1>4. OneSlot(next) BY <1>3 DEF OneSlot
<1>5. ASSUME NEW x PROVE x \in InUse(next) <=> x \in InUse(slots) \ {m}
  <2>1. x \in InUse(next) <=> \E i \in 1 .. MediaSlots : x = next[i] /\ x # FreeSlot BY DEF InUse
  <2>2. x \in InUse(slots) <=> \E i \in 1 .. MediaSlots : x = slots[i] /\ x # FreeSlot BY DEF InUse
  <2>3. x \in InUse(next) => x \in InUse(slots) \ {m} BY <1>3, <2>1, <2>2
  <2>4. x \in InUse(slots) \ {m} => x \in InUse(next) BY <1>3, <2>1, <2>2
  <2> QED BY <2>3, <2>4
<1> QED BY <1>2, <1>4, <1>5 DEF next

\* A reconnect's replay of the first media usages in the order.
TakenTo(slots, n, f) ==
  f = [i \in 0 .. n |-> IF i = 0 THEN slots ELSE MediaTaken(f[i - 1], mediaOrder[i])]

LEMMA TakenUpTo ==
  ASSUME mediaOrder \in Seq(MediaUsages), NEW slots
  PROVE  \A n \in 0 .. Len(mediaOrder) : \E f : TakenTo(slots, n, f)
<1> DEFINE Bad == {n \in 0 .. Len(mediaOrder) : ~ \E f : TakenTo(slots, n, f)}
<1>1. Len(mediaOrder) \in Nat OBVIOUS
<1> SUFFICES ASSUME Bad # {} PROVE FALSE OBVIOUS
<1>2. Bad \in SUBSET Nat BY <1>1
<1>3. PICK n \in Bad : \A m \in Bad : n <= m
  <2> HIDE DEF Bad
  <2> QED BY <1>2, Least
<1>4. n \in Nat /\ n <= Len(mediaOrder) BY <1>1
<1>5. n # 0
  <2>1. TakenTo(slots, 0, [i \in 0 .. 0 |-> slots]) BY DEF TakenTo
  <2> QED BY <2>1
<1>6. n - 1 \in 0 .. Len(mediaOrder) /\ n - 1 \notin Bad
  <2>1. n - 1 \in Nat /\ ~(n <= n - 1) /\ n - 1 \in 0 .. Len(mediaOrder) BY ONLY <1>1, <1>4, <1>5
  <2> HIDE DEF Bad
  <2> QED BY <1>3, <2>1
<1>7. PICK f : TakenTo(slots, n - 1, f) BY <1>6
<1> DEFINE newest == MediaTaken(f[n - 1], mediaOrder[n])
           g == [i \in 0 .. n |-> IF i = n THEN newest ELSE f[i]]
<1>8. TakenTo(slots, n, g)
  <2> HIDE DEF newest
  <2>1. \A i \in 0 .. (n - 1) : g[i] = f[i] BY <1>4, <1>5
  <2>2. \A i \in 0 .. (n - 1) : f[i] = IF i = 0 THEN slots ELSE MediaTaken(f[i - 1], mediaOrder[i])
    BY <1>7 DEF TakenTo
  <2>3. g[n] = newest BY <1>4
  <2>4. ASSUME NEW i \in 0 .. n
        PROVE  g[i] = IF i = 0 THEN slots ELSE MediaTaken(g[i - 1], mediaOrder[i])
    <3>1. CASE i = n
      <4>1. n - 1 \in 0 .. (n - 1) BY <1>4, <1>5
      <4>2. g[n - 1] = f[n - 1] BY <2>1, <4>1
      <4> QED BY <1>5, <2>3, <3>1, <4>2 DEF newest
    <3>2. CASE i # n
      <4>1. i \in 0 .. (n - 1) /\ (i # 0 => i - 1 \in 0 .. (n - 1)) BY <1>4, <3>2
      <4> HIDE DEF g
      <4> QED BY <2>1, <2>2, <4>1
    <3> QED BY <3>1, <3>2
  <2>5. g = [i \in 0 .. n |-> g[i]] OBVIOUS
  <2> HIDE DEF g
  <2> QED BY <2>4, <2>5 DEF TakenTo
<1> QED BY <1>3, <1>8

LEMMA SlotsReplayed ==
  ASSUME MediaFits, mediaOrder \in Seq(MediaUsages), NEW slots \in Slotted, OneSlot(slots)
  PROVE  /\ MediaReplayed(slots) \in Slotted /\ OneSlot(MediaReplayed(slots))
         /\ InUse(MediaReplayed(slots)) = InUse(slots) \cup ToSet(mediaOrder)
         /\ ToSet(mediaOrder) \subseteq InUse(slots) => MediaReplayed(slots) = slots
<1> DEFINE len == Len(mediaOrder)
           First(n) == {mediaOrder[i] : i \in 1 .. n}
<1>1. len \in Nat /\ len \in 0 .. len /\ DOMAIN mediaOrder = 1 .. len
      /\ \A i \in 1 .. len : mediaOrder[i] \in MediaUsages
  OBVIOUS
<1>2. PICK g : TakenTo(slots, len, g) BY <1>1, TakenUpTo
<1>3. PICK f : TakenTo(slots, len, f) /\ MediaReplayed(slots) = f[len]
  BY <1>2 DEF TakenTo, MediaReplayed
<1> HIDE DEF len
<1>4. \A n \in 0 .. len : f[n] = IF n = 0 THEN slots ELSE MediaTaken(f[n - 1], mediaOrder[n])
  BY <1>3 DEF TakenTo
<1> DEFINE Fine(n) ==
             /\ f[n] \in Slotted /\ OneSlot(f[n])
             /\ InUse(f[n]) = InUse(slots) \cup First(n)
             /\ ToSet(mediaOrder) \subseteq InUse(slots) => f[n] = slots
           Bad == {n \in 0 .. len : ~Fine(n)}
<1>5. Bad = {}
  <2> SUFFICES ASSUME Bad # {} PROVE FALSE OBVIOUS
  <2>1. Bad \in SUBSET Nat BY <1>1
  <2>2. PICK n \in Bad : \A m \in Bad : n <= m
    <3> HIDE DEF Bad
    <3> QED BY <2>1, Least
  <2>3. n \in Nat /\ n <= len /\ n \in 0 .. len /\ ~Fine(n) BY <1>1
  <2>4. n # 0
    <3>1. f[0] = slots BY <1>1, <1>4
    <3>2. First(0) = {} OBVIOUS
    <3> HIDE DEF First
    <3>3. Fine(0) BY <3>1, <3>2
    <3> QED BY ONLY <2>3, <3>3
  <2>5. n - 1 \in 0 .. len /\ n - 1 \notin Bad
    <3>1. n - 1 \in Nat /\ ~(n <= n - 1) /\ n - 1 \in 0 .. len BY ONLY <1>1, <2>3, <2>4
    <3> HIDE DEF Bad
    <3> QED BY <2>2, <3>1
  <2>6. Fine(n - 1) BY <2>5
  <2>7. n \in 1 .. len /\ mediaOrder[n] \in MediaUsages
    <3>1. n \in 1 .. len BY ONLY <1>1, <2>3, <2>4
    <3> QED BY <1>1, <3>1
  <2>8. f[n] = MediaTaken(f[n - 1], mediaOrder[n]) BY <1>4, <2>3, <2>4
  <2>9. First(n) = First(n - 1) \cup {mediaOrder[n]}
    <3>1. 1 .. n = (1 .. (n - 1)) \cup {n} BY ONLY <2>3, <2>4
    <3> QED BY <3>1
  <2>10. mediaOrder[n] \in ToSet(mediaOrder) BY <1>1, <2>7 DEF ToSet
  <2> HIDE DEF First
  <2>11. f[n] \in Slotted /\ OneSlot(f[n]) BY <2>6, <2>7, <2>8, SlotTaken
  <2>12. InUse(f[n]) = InUse(f[n - 1]) \cup {mediaOrder[n]} BY <2>6, <2>7, <2>8, SlotTaken
  <2>13. InUse(f[n]) = InUse(slots) \cup First(n) BY <2>6, <2>9, <2>12
  <2>14. ToSet(mediaOrder) \subseteq InUse(slots) => f[n] = slots
    <3>1. SUFFICES ASSUME ToSet(mediaOrder) \subseteq InUse(slots) PROVE f[n] = slots OBVIOUS
    <3>2. f[n - 1] = slots /\ mediaOrder[n] \in InUse(slots) BY <2>6, <2>10, <3>1
    <3> QED BY <2>7, <2>8, <3>2, SlotTaken
  <2> QED BY ONLY <2>3, <2>11, <2>13, <2>14
<1>6. Fine(len) BY <1>1, <1>5
<1>7. First(len) = ToSet(mediaOrder) BY <1>1 DEF ToSet
<1> HIDE DEF First
<1> QED BY <1>3, <1>6, <1>7

-----------------------------------------------------------------------------
(* The order of the media usages.                                           *)

LEMMA Appended ==
  ASSUME NEW T, NEW q \in Seq(T), NEW e \in T
  PROVE  Append(q, e) \in Seq(T) /\ ToSet(Append(q, e)) = ToSet(q) \cup {e}
<1>1. /\ Append(q, e) \in Seq(T) /\ Len(Append(q, e)) = Len(q) + 1
      /\ \A i \in 1 .. Len(q) : Append(q, e)[i] = q[i]
      /\ Append(q, e)[Len(q) + 1] = e
  OBVIOUS
<1>2. DOMAIN Append(q, e) = 1 .. (Len(q) + 1) /\ DOMAIN q = 1 .. Len(q) /\ Len(q) \in Nat BY <1>1
<1>3. 1 .. (Len(q) + 1) = (1 .. Len(q)) \cup {Len(q) + 1} BY <1>2
<1>4. ToSet(Append(q, e)) = ToSet(q) \cup {e} BY <1>1, <1>2, <1>3 DEF ToSet
<1> QED BY <1>1, <1>4

\* What retain makes of the first elements.
RetainTo(q, kept, n, f) ==
  f = [i \in 0..n |->
         IF i = 0 THEN <<>>
         ELSE IF q[i] \in kept THEN Append(f[i - 1], q[i]) ELSE f[i - 1]]

LEMMA RetainUpTo ==
  ASSUME NEW T, NEW q \in Seq(T), NEW kept
  PROVE  \A n \in 0..Len(q) : \E f : RetainTo(q, kept, n, f)
<1> DEFINE Bad == {n \in 0..Len(q) : ~ \E f : RetainTo(q, kept, n, f)}
<1>1. Len(q) \in Nat OBVIOUS
<1> SUFFICES ASSUME Bad # {} PROVE FALSE OBVIOUS
<1>2. Bad \in SUBSET Nat BY <1>1
<1>3. PICK n \in Bad : \A m \in Bad : n <= m
  <2> HIDE DEF Bad
  <2> QED BY <1>2, Least
<1>4. n \in Nat /\ n <= Len(q) BY <1>1
<1>5. n # 0
  <2>1. RetainTo(q, kept, 0, [i \in 0..0 |-> <<>>]) BY DEF RetainTo
  <2> QED BY <2>1
<1>6. n - 1 \in 0..Len(q) /\ n - 1 \notin Bad
  <2>1. n - 1 \in Nat /\ ~(n <= n - 1) /\ n - 1 \in 0..Len(q) BY ONLY <1>1, <1>4, <1>5
  <2> HIDE DEF Bad
  <2> QED BY <1>3, <2>1
<1>7. PICK f : RetainTo(q, kept, n - 1, f) BY <1>6
<1> DEFINE newest == IF q[n] \in kept THEN Append(f[n - 1], q[n]) ELSE f[n - 1]
           g == [i \in 0..n |-> IF i = n THEN newest ELSE f[i]]
<1>8. RetainTo(q, kept, n, g)
  <2> HIDE DEF newest
  <2>1. \A i \in 0..(n - 1) : g[i] = f[i] BY <1>4, <1>5
  <2>2. \A i \in 0..(n - 1) : f[i] = IF i = 0 THEN <<>> ELSE IF q[i] \in kept THEN Append(f[i - 1], q[i]) ELSE f[i - 1]
    BY <1>7 DEF RetainTo
  <2>3. g[n] = newest BY <1>4
  <2>4. ASSUME NEW i \in 0..n
        PROVE  g[i] = IF i = 0 THEN <<>> ELSE IF q[i] \in kept THEN Append(g[i - 1], q[i]) ELSE g[i - 1]
    <3>1. CASE i = n
      <4>1. n - 1 \in 0..(n - 1) BY <1>4, <1>5
      <4>2. g[n - 1] = f[n - 1] BY <2>1, <4>1
      <4> QED BY <1>5, <2>3, <3>1, <4>2 DEF newest
    <3>2. CASE i # n
      <4>1. i \in 0..(n - 1) /\ (i # 0 => i - 1 \in 0..(n - 1)) BY <1>4, <3>2
      <4> HIDE DEF g
      <4> QED BY <2>1, <2>2, <4>1
    <3> QED BY <3>1, <3>2
  <2>5. g = [i \in 0..n |-> g[i]] OBVIOUS
  <2> HIDE DEF g
  <2> QED BY <2>4, <2>5 DEF RetainTo
<1> QED BY <1>3, <1>8

LEMMA Retained ==
  ASSUME NEW T, NEW q \in Seq(T), NEW kept
  PROVE  Retain(q, kept) \in Seq(T) /\ ToSet(Retain(q, kept)) = kept \cap ToSet(q)
<1> DEFINE len == Len(q)
           First(n) == {q[i] : i \in 1 .. n}
<1>1. len \in Nat /\ len \in 0 .. len /\ DOMAIN q = 1 .. len /\ \A i \in 1 .. len : q[i] \in T OBVIOUS
<1>2. PICK g : RetainTo(q, kept, len, g) BY <1>1, RetainUpTo
<1>3. PICK f : RetainTo(q, kept, len, f) /\ Retain(q, kept) = f[len]
  BY <1>2 DEF RetainTo, Retain
<1> HIDE DEF len
<1>4. \A n \in 0 .. len : f[n] = IF n = 0 THEN <<>> ELSE IF q[n] \in kept THEN Append(f[n - 1], q[n]) ELSE f[n - 1]
  BY <1>3 DEF RetainTo
<1> DEFINE Fine(n) == f[n] \in Seq(T) /\ ToSet(f[n]) = kept \cap First(n)
           Bad == {n \in 0 .. len : ~Fine(n)}
<1>5. Bad = {}
  <2> SUFFICES ASSUME Bad # {} PROVE FALSE OBVIOUS
  <2>1. Bad \in SUBSET Nat BY <1>1
  <2>2. PICK n \in Bad : \A m \in Bad : n <= m
    <3> HIDE DEF Bad
    <3> QED BY <2>1, Least
  <2>3. n \in Nat /\ n <= len /\ n \in 0 .. len /\ ~Fine(n) BY <1>1
  <2>4. n # 0
    <3>1. f[0] = <<>> BY <1>1, <1>4
    <3>2. First(0) = {} OBVIOUS
    <3>3. <<>> \in Seq(T) /\ ToSet(<<>>) = {} BY DEF ToSet
    <3> HIDE DEF First
    <3>4. Fine(0) BY <3>1, <3>2, <3>3
    <3> QED BY ONLY <2>3, <3>4
  <2>5. n - 1 \in 0 .. len /\ n - 1 \notin Bad
    <3>1. n - 1 \in Nat /\ ~(n <= n - 1) /\ n - 1 \in 0 .. len BY ONLY <1>1, <2>3, <2>4
    <3> HIDE DEF Bad
    <3> QED BY <2>2, <3>1
  <2>6. Fine(n - 1) BY <2>5
  <2>7. n \in 1 .. len /\ q[n] \in T
    <3>1. n \in 1 .. len BY ONLY <1>1, <2>3, <2>4
    <3> QED BY <1>1, <3>1
  <2>8. f[n] = IF q[n] \in kept THEN Append(f[n - 1], q[n]) ELSE f[n - 1] BY <1>4, <2>3, <2>4
  <2>9. First(n) = First(n - 1) \cup {q[n]}
    <3>1. 1 .. n = (1 .. (n - 1)) \cup {n} BY ONLY <2>3, <2>4
    <3> QED BY <3>1
  <2> HIDE DEF First
  <2>10. Fine(n)
    <3>1. CASE q[n] \in kept
      <4>1. f[n] \in Seq(T) /\ ToSet(f[n]) = ToSet(f[n - 1]) \cup {q[n]}
        BY <2>6, <2>7, <2>8, <3>1, Appended
      <4> QED BY <2>6, <2>9, <3>1, <4>1
    <3>2. CASE q[n] \notin kept BY <2>6, <2>8, <2>9, <3>2
    <3> QED BY <3>1, <3>2
  <2> QED BY ONLY <2>3, <2>10
<1>6. Fine(len) BY <1>1, <1>5
<1>7. First(len) = ToSet(q) BY <1>1 DEF ToSet
<1> HIDE DEF First
<1> QED BY <1>3, <1>6, <1>7

LEMMA OrderFollows ==
  ASSUME mediaOrder \in Seq(MediaUsages), NEW k \in RowKeys, IsMediaSlot(k), NEW row
  PROVE  /\ OrderAfter(k, row) \in Seq(MediaUsages)
         /\ ToSet(OrderAfter(k, row)) =
              IF row = PassRow THEN ToSet(mediaOrder) \ {k[2]} ELSE ToSet(mediaOrder) \cup {k[2]}
<1>1. k[2] \in MediaUsages BY KeysAre
<1>2. CASE row = PassRow
  <2> DEFINE kept == ToSet(mediaOrder) \ {k[2]}
  <2>1. OrderAfter(k, row) = Retain(mediaOrder, kept) BY <1>2 DEF OrderAfter
  <2>2. kept \cap ToSet(mediaOrder) = kept OBVIOUS
  <2> HIDE DEF kept
  <2>3. OrderAfter(k, row) \in Seq(MediaUsages) /\ ToSet(OrderAfter(k, row)) = kept
    BY <2>1, <2>2, Retained
  <2> QED BY <1>2, <2>3 DEF kept
<1>3. CASE row # PassRow /\ k[2] \in ToSet(mediaOrder) BY <1>3 DEF OrderAfter
<1>4. CASE row # PassRow /\ k[2] \notin ToSet(mediaOrder)
  <2>1. OrderAfter(k, row) = Append(mediaOrder, k[2]) BY <1>4 DEF OrderAfter
  <2> QED BY <1>1, <1>4, <2>1, Appended
<1> QED BY <1>2, <1>3, <1>4

-----------------------------------------------------------------------------
(* A lock that was not sent.                                                *)

LEMMA AfterTyped ==
  ASSUME NEW rs \in [RowKeys -> Rows], NEW ws \in Seq(RowKeys \X Rows)
  PROVE  After(rs, ws) \in [RowKeys -> Rows]
<1> DEFINE n == Len(ws)
<1>1. n \in Nat /\ DOMAIN ws = 1 .. n /\ \A i \in 1 .. n : ws[i] \in RowKeys \X Rows OBVIOUS
<1>2. \A i \in 1 .. n : ws[i][2] \in Rows BY <1>1
<1> HIDE DEF n
<1>3. ASSUME NEW k \in RowKeys PROVE After(rs, ws)[k] \in Rows
  <2>1. CASE \E i \in 1 .. n : ws[i][1] = k
    <3>1. LastWrite(ws, k) \in 1 .. n BY <1>1, <2>1, LastIs
    <3>2. After(rs, ws)[k] = ws[LastWrite(ws, k)][2] BY <1>1, <2>1 DEF After
    <3> QED BY <1>2, <3>1, <3>2
  <2>2. CASE ~ \E i \in 1 .. n : ws[i][1] = k
    <3>1. After(rs, ws)[k] = rs[k] BY <1>1, <2>2 DEF After
    <3> QED BY <3>1
  <2> QED BY <2>1, <2>2
<1>4. After(rs, ws) = [k \in RowKeys |-> After(rs, ws)[k]] BY DEF After
<1> QED BY <1>3, <1>4

\* What a user may ask for, and what the crate stores of it.
LEMMA AskedIs ==
  ASSUME NEW k \in RowKeys, NEW d \in DirsOf(k), NEW s \in Scales, k \notin AxisRows => s \in {Pass, Block}
  PROVE  d \in Dirs /\ Stored(k, s) = s
BY StoredIs DEF DirsOf, Dirs, SlotDirs

LEMMA FailsExactly ==
  ASSUME RowsTyped, NEW k \in RowKeys, NEW d \in DirsOf(k), NEW s \in Scales,
         k \notin AxisRows => s \in {Pass, Block}, LockFails(k, d, s)
  PROVE  UNCHANGED lockHeld
<1>1. d \in Dirs /\ Stored(k, s) = s BY AskedIs
<1> DEFINE ws == Writes(k, d, s)
           W == RowKeys \X Rows
<1>2. ws \in Seq(W) BY <1>1, WritesLead
<1>3. rows' = LockRestored(Apply(ws).rows, Apply(ws).undo) /\ mediaOrder' = mediaOrder
  BY <1>1 DEF LockFails
<1> HIDE DEF ws, W
<1>4. LockRestored(Apply(ws).rows, Apply(ws).undo) = rows BY <1>2, UndoneExactly DEF RowsTyped
<1> QED BY <1>3, <1>4 DEF lockHeld

LEMMA PassIsTyped == [k \in RowKeys |-> PassRow] \in [RowKeys -> Rows]
BY RowsAre

LEMMA RowsStay ==
  ASSUME RowsTyped, [LocksNext]_lockVars
  PROVE  RowsTyped'
<1>1. ASSUME NEW k \in RowKeys, NEW d \in DirsOf(k), NEW s \in Scales,
             k \notin AxisRows => s \in {Pass, Block}, Lock(k, d, s)
      PROVE  RowsTyped'
  <2>1. d \in Dirs /\ Stored(k, s) = s BY <1>1, AskedIs
  <2>2. Writes(k, d, s) \in Seq(RowKeys \X Rows) BY <1>1, <2>1, WritesLead
  <2>3. rows' = After(rows, Writes(k, d, s)) BY <1>1, <2>1 DEF Lock, Apply
  <2> QED BY <2>2, <2>3, AfterTyped DEF RowsTyped
<1>2. ASSUME NEW k \in RowKeys, NEW d \in DirsOf(k), NEW s \in Scales,
             k \notin AxisRows => s \in {Pass, Block}, LockFails(k, d, s)
      PROVE  RowsTyped'
  BY <1>2, FailsExactly DEF RowsTyped, lockHeld
<1>3. CASE LocksReset \/ LocksResetFails BY <1>3, PassIsTyped DEF LocksReset, LocksResetFails, RowsTyped
<1>4. CASE LocksReleased \/ LockCloneUp \/ CapsNoted \/ Reapply
  BY <1>4 DEF LocksReleased, LockCloneUp, CapsNoted, Reapply, lockHeld, RowsTyped
<1>5. CASE UNCHANGED lockVars BY <1>5 DEF lockVars, RowsTyped
<1> QED BY <1>1, <1>2, <1>3, <1>4, <1>5 DEF LocksNext

LEMMA RowsStart == LocksInit => RowsTyped
BY PassIsTyped DEF LocksInit, RowsTyped

(* A lock, of however many buttons its blanket stands for, whose frame was never
   sent is undone to the row (restore_lock, reconcile.rs:472-482): the writes of
   apply_lock, of which some found what others of the same call had written, are
   taken back newest first. *)
THEOREM UndoExact == LocksSpec => UndoIsExact
<1>1. LocksInit => RowsTyped BY RowsStart
<1>2. RowsTyped /\ [LocksNext]_lockVars => RowsTyped' BY RowsStay
<1>3. RowsTyped /\ [LocksNext]_lockVars => [lockFailures' # lockFailures => UNCHANGED lockHeld]_lockVars
  <2>1. SUFFICES ASSUME RowsTyped, LocksNext, lockFailures' # lockFailures PROVE UNCHANGED lockHeld
    OBVIOUS
  <2>2. ASSUME NEW k \in RowKeys, NEW d \in DirsOf(k), NEW s \in Scales, Lock(k, d, s) PROVE FALSE
    BY <2>1, <2>2 DEF Lock
  <2>3. ASSUME NEW k \in RowKeys, NEW d \in DirsOf(k), NEW s \in Scales,
               k \notin AxisRows => s \in {Pass, Block}, LockFails(k, d, s)
        PROVE  UNCHANGED lockHeld
    BY <2>1, <2>3, FailsExactly
  <2>4. ~(LocksReset \/ LocksResetFails \/ LocksReleased \/ LockCloneUp \/ CapsNoted \/ Reapply)
    BY <2>1 DEF LocksReset, LocksResetFails, LocksReleased, LockCloneUp, CapsNoted, Reapply
  <2> QED BY <2>1, <2>2, <2>3, <2>4 DEF LocksNext
<1> QED BY <1>1, <1>2, <1>3, PTL DEF LocksSpec, UndoIsExact

-----------------------------------------------------------------------------
(* The box's side of a step.                                                *)

LEMMA SlotsSetFit ==
  ASSUME NEW row \in Rows, NEW d \in Dirs, NEW s \in Scales
  PROVE  SlotsSet(row, d, s) \in Rows
BY ScalesAre DEF SlotsSet, Rows

LEMMA CommandsFit ==
  ASSUME NEW row \in Rows, NEW was \in Rows
  PROVE  Commanded(was, Commands(row)) \in Rows
<1>0. "both" \in Dirs /\ "both" \notin SlotDirs /\ "pos" \in SlotDirs
  BY DEF Dirs, SlotDirs, LockEdges, Bearings
<1>1. \A e \in SlotDirs : row[e] \in Scales /\ was[e] \in Scales BY DEF Rows
<1> DEFINE cs == Commands(row)
<1>2. ASSUME NEW c \in cs PROVE c[2] \in Scales
  <2>1. CASE row = BothRow(row["pos"]) BY <1>0, <1>1, <1>2, <2>1 DEF Commands
  <2>2. CASE row # BothRow(row["pos"]) BY <1>1, <1>2, <2>2 DEF Commands
  <2> QED BY <2>1, <2>2
<1> HIDE DEF cs
<1>3. CASE \E c \in cs : c[1] = "both"
  <2> DEFINE c0 == CHOOSE c \in cs : c[1] = "both"
  <2>1. c0 \in cs BY <1>3
  <2>2. Commanded(was, cs) = SlotsSet(was, "both", c0[2]) BY <1>3 DEF Commanded
  <2> HIDE DEF c0
  <2> QED BY <1>0, <1>2, <2>1, <2>2, SlotsSetFit DEF cs
<1>4. CASE ~ \E c \in cs : c[1] = "both"
  <2> DEFINE Value(e) == IF \E c \in cs : c[1] = e THEN (CHOOSE c \in cs : c[1] = e)[2] ELSE was[e]
  <2>1. Commanded(was, cs) = [e \in SlotDirs |-> Value(e)] BY <1>4 DEF Commanded
  <2>2. ASSUME NEW e \in SlotDirs PROVE Value(e) \in Scales
    <3>1. CASE \E c \in cs : c[1] = e
      <4>1. (CHOOSE c \in cs : c[1] = e) \in cs BY <3>1
      <4> QED BY <1>2, <3>1, <4>1
    <3>2. CASE ~ \E c \in cs : c[1] = e BY <1>1, <3>2
    <3> QED BY <3>1, <3>2
  <2> HIDE DEF Value
  <2> QED BY <2>1, <2>2 DEF Rows, cs
<1> QED BY <1>3, <1>4

\* The rows a LOCK writes are those the crate's write hits.
LEMMA BoxFollows ==
  ASSUME lockBox \in Boxes, lockBox.up, NEW k \in RowKeys, NEW d \in Dirs, NEW s \in Scales,
         NEW b, b = Locked(lockBox, k, d, s)
  PROVE  /\ b.up = lockBox.up /\ b.buttons = lockBox.buttons /\ b.rows \in [Shared -> Rows]
         /\ b.media \in Slotted => b \in Boxes
         /\ \A t \in Shared : Reached(lockBox.buttons, t) =>
              b.rows[t] = IF Hits(k, t) THEN SlotsSet(lockBox.rows[t], d, s) ELSE lockBox.rows[t]
         /\ b.media = IF ~IsMediaSlot(k) THEN lockBox.media
                      ELSE IF s < Pass THEN MediaTaken(lockBox.media, k[2]) ELSE MediaFreed(lockBox.media, k[2])
<1> DEFINE newRows == [t \in Shared |->
                        IF t \in Targets(lockBox, k) THEN SlotsSet(lockBox.rows[t], d, s) ELSE lockBox.rows[t]]
           newMedia == IF ~IsMediaSlot(k) THEN lockBox.media
                       ELSE IF s < Pass THEN MediaTaken(lockBox.media, k[2]) ELSE MediaFreed(lockBox.media, k[2])
<1>1. b = [lockBox EXCEPT !.rows = newRows, !.media = newMedia] BY DEF Locked
<1> HIDE DEF newRows, newMedia
<1>2. b = [up |-> lockBox.up, buttons |-> lockBox.buttons, rows |-> newRows, media |-> newMedia]
  BY <1>1 DEF Boxes
<1>3. b.up = lockBox.up /\ b.buttons = lockBox.buttons /\ b.rows = newRows /\ b.media = newMedia
  BY <1>2
<1>4. lockBox.rows \in [Shared -> Rows] BY DEF Boxes
<1>5. newRows \in [Shared -> Rows]
  <2>1. ASSUME NEW t \in Shared PROVE newRows[t] \in Rows BY <1>4, SlotsSetFit DEF newRows
  <2> QED BY <2>1 DEF newRows
<1>6. ASSUME NEW t \in Shared, Reached(lockBox.buttons, t) PROVE t \in Targets(lockBox, k) <=> Hits(k, t)
  <2>1. CASE k = AllButtons
    <3>1. Targets(lockBox, k) = {<<"btn", n>> : n \in {n \in Buttons : n < lockBox.buttons}}
      BY <2>1 DEF Targets
    <3>2. t # AllButtons /\ \A j \in ButtonRows : j[2] \in Buttons /\ j = <<"btn", j[2]>> BY KeysAre
    <3>3. t \in Targets(lockBox, k) => t \in ButtonRows BY <3>1 DEF ButtonRows
    <3>4. t \in ButtonRows => t \in Targets(lockBox, k) BY <1>6, <3>1, <3>2 DEF Reached
    <3> QED BY <2>1, <3>2, <3>3, <3>4 DEF Hits
  <2>2. CASE k # AllButtons /\ k \in ButtonRows /\ k[2] >= lockBox.buttons
    <3>1. Targets(lockBox, k) = {} BY <2>2 DEF Targets
    <3>2. lockBox.buttons \in Int /\ k[2] \in Int
      <4>1. lockBox.buttons \in ButtonCounts BY DEF Boxes
      <4>2. ButtonCounts \subseteq Int BY CountAssumption DEF MaxButtons
      <4>3. k[2] \in Buttons /\ Buttons \subseteq Nat BY <2>2, KeysAre
      <4>4. lockBox.buttons \in Int BY ONLY <4>1, <4>2
      <4>5. \A x \in Buttons : x \in Int BY ONLY <4>3
      <4>6. k[2] \in Int BY ONLY <4>3, <4>5, Zenon
      <4> QED BY <4>4, <4>6
    <3>3. t # k BY <1>6, <2>2, <3>2 DEF Reached
    <3> QED BY <2>2, <3>1, <3>3 DEF Hits
  <2>3. CASE k # AllButtons /\ ~(k \in ButtonRows /\ k[2] >= lockBox.buttons)
    <3>1. Targets(lockBox, k) = {k} \cap Shared BY <2>3 DEF Targets
    <3> QED BY <2>3, <3>1 DEF Hits
  <2> QED BY <2>1, <2>2, <2>3
<1>7. ASSUME NEW t \in Shared, Reached(lockBox.buttons, t)
      PROVE  newRows[t] = IF Hits(k, t) THEN SlotsSet(lockBox.rows[t], d, s) ELSE lockBox.rows[t]
  BY <1>6, <1>7 DEF newRows
<1>8. b.media \in Slotted => b \in Boxes
  <2>1. SUFFICES ASSUME newMedia \in Slotted PROVE b \in Boxes BY <1>3
  <2>2. lockBox.up \in BOOLEAN /\ lockBox.buttons \in ButtonCounts BY DEF Boxes
  <2> QED BY ONLY <1>2, <1>5, <2>1, <2>2 DEF Boxes
<1> QED BY <1>3, <1>5, <1>7, <1>8 DEF newMedia

\* Written alike, two rows stay as alike as they were.
LEMMA SetAlike ==
  ASSUME NEW was, NEW row, NEW d \in Dirs, NEW s, \A e \in SlotDirs : was[e] \in {Pass, row[e]}
  PROVE  \A e \in SlotDirs : SlotsSet(was, d, s)[e] \in {Pass, SlotsSet(row, d, s)[e]}
BY DEF SlotsSet

-----------------------------------------------------------------------------
(* Every step keeps the invariant.                                          *)

LEMMA LockKeeps ==
  ASSUME LockInv, MediaFits, ~EdgeBlankets, NEW k \in RowKeys, NEW d \in DirsOf(k), NEW s \in Scales,
         k \notin AxisRows => s \in {Pass, Block}, Lock(k, d, s)
  PROVE  LockInv'
<1> DEFINE R == RowsAfter(k, d, s)
           order == OrderAfter(k, R[k])
           b == Locked(lockBox, k, d, s)
           n == lockBox.buttons
<1>1. /\ RowsTyped /\ OneBlanket(rows) /\ mediaOrder \in Seq(MediaUsages) /\ declared \in Nat
      /\ lockBox \in Boxes /\ OneSlot(lockBox.media) /\ lockBox.media \in Slotted
  BY DEF LockInv, LocksTyped, Boxes
<1>2. d \in Dirs /\ Stored(k, s) = s /\ (IsMediaSlot(k) => d = "both") BY AskedIs, DirsAre
<1>3. After(rows, Writes(k, d, s)) = R BY <1>1, <1>2, WritesLead
<1>4. /\ rows' = R /\ mediaOrder' = order /\ declared' = declared /\ lockBox' = b
      /\ synced' = IF Bursts(k) /\ Short THEN "orphaned"
                   ELSE IF ~lockBox.up /\ synced = "yes" THEN "behind" ELSE synced
  BY <1>2, <1>3 DEF Lock, Apply
<1>5. /\ R \in [RowKeys -> Rows] /\ OneBlanket(R)
      /\ ~(Bursts(k) /\ declared < n) =>
           \A j \in Shared : Reached(n, j) =>
             RowIn(R, n, j) = IF Hits(k, j) THEN SlotsSet(RowIn(rows, n, j), d, s) ELSE RowIn(rows, n, j)
      /\ IsMediaSlot(k) => R[k] = BothRow(s)
  <2>1. n \in Int
    <3>1. n \in ButtonCounts /\ ButtonCounts \subseteq Int BY <1>1, CountAssumption DEF Boxes, MaxButtons
    <3> QED BY <3>1
  <2>2. declared \in Int BY <1>1
  <2> QED BY <1>1, <2>1, <2>2, RowsFollow
<1> HIDE DEF R
<1>6. /\ order \in Seq(MediaUsages)
      /\ ~IsMediaSlot(k) => order = mediaOrder
      /\ IsMediaSlot(k) => s \in {Pass, Block}
           /\ ToSet(order) = IF s = Pass THEN ToSet(mediaOrder) \ {k[2]} ELSE ToSet(mediaOrder) \cup {k[2]}
  <2>1. CASE ~IsMediaSlot(k) BY <1>1, <2>1 DEF OrderAfter
  <2>2. CASE IsMediaSlot(k)
    <3>1. k \notin AxisRows BY <2>2 DEF IsMediaSlot, MediaRows, AxisRows
    <3>2. s \in {Pass, Block} BY <3>1
    <3>3. R[k] = PassRow <=> s = Pass
      <4>1. BothRow(Block) # PassRow
        <5>1. BothRow(Block)["pos"] = Block /\ PassRow["pos"] = Pass
          BY DEF BothRow, PassRow, SlotDirs, LockEdges
        <5> QED BY <5>1, ScalesAre
      <4> QED BY <1>5, <2>2, <3>2, <4>1, RowsAre, ScalesAre
    <3>4. order \in Seq(MediaUsages)
          /\ ToSet(order) = IF R[k] = PassRow THEN ToSet(mediaOrder) \ {k[2]} ELSE ToSet(mediaOrder) \cup {k[2]}
      BY <1>1, <2>2, OrderFollows
    <3> QED BY <2>2, <3>2, <3>3, <3>4
  <2> QED BY <2>1, <2>2
<1> HIDE DEF order, b, n
<1>7. CASE ~lockBox.up
  <2>1. b = lockBox BY <1>7 DEF b, Locked
  <2>2. synced' \in {"behind", "orphaned"} BY <1>4, <1>7 DEF LockInv, LocksTyped, Short
  <2>3. lockBox.rows = EmptyTable.rows /\ lockBox.media = EmptyTable.media BY <1>7 DEF LockInv, Down
  <2>4. InUse(lockBox.media) = {} /\ \A t \in Shared, e \in SlotDirs : lockBox.rows[t][e] = Pass
    BY <2>3 DEF EmptyTable, PassRow, InUse
  <2>5. LocksTyped' BY <1>1, <1>4, <1>5, <1>6, <2>1, <2>2 DEF LocksTyped, RowsTyped
  <2>6. Down' /\ OneSlot(lockBox.media)' BY <1>1, <1>4, <1>7, <2>1, <2>2, <2>3 DEF Down
  <2>7. CopyIn(R, order, lockBox, synced') BY <2>2, <2>4 DEF CopyIn
  <2> QED BY <1>4, <1>5, <2>1, <2>5, <2>6, <2>7 DEF LockInv
<1>8. CASE lockBox.up
  <2>1. /\ b.up /\ b.buttons = n /\ b.rows \in [Shared -> Rows]
        /\ b.media \in Slotted => b \in Boxes
        /\ \A t \in Shared : Reached(n, t) =>
             b.rows[t] = IF Hits(k, t) THEN SlotsSet(lockBox.rows[t], d, s) ELSE lockBox.rows[t]
        /\ b.media = IF ~IsMediaSlot(k) THEN lockBox.media
                     ELSE IF s < Pass THEN MediaTaken(lockBox.media, k[2]) ELSE MediaFreed(lockBox.media, k[2])
    <3>1. b = Locked(lockBox, k, d, s) BY DEF b
    <3>2. lockBox \in Boxes BY <1>1
    <3>3. d \in Dirs BY <1>2
    <3>4. /\ b.up = lockBox.up /\ b.buttons = lockBox.buttons /\ b.rows \in [Shared -> Rows]
          /\ b.media \in Slotted => b \in Boxes
          /\ \A t \in Shared : Reached(lockBox.buttons, t) =>
               b.rows[t] = IF Hits(k, t) THEN SlotsSet(lockBox.rows[t], d, s) ELSE lockBox.rows[t]
          /\ b.media = IF ~IsMediaSlot(k) THEN lockBox.media
                       ELSE IF s < Pass THEN MediaTaken(lockBox.media, k[2]) ELSE MediaFreed(lockBox.media, k[2])
      BY ONLY <1>8, <3>1, <3>2, <3>3, k \in RowKeys, s \in Scales, BoxFollows, ZenonT(60)
    <3>5. n = lockBox.buttons BY DEF n
    <3> QED BY ONLY <1>8, <3>4, <3>5
  <2>2. /\ synced \in {"yes", "behind", "orphaned"} /\ synced' \in {synced, "orphaned"}
        /\ synced' # "orphaned" => ~(Bursts(k) /\ declared < n)
    <3>1. synced' = IF Bursts(k) /\ Short THEN "orphaned"
                    ELSE IF ~lockBox.up /\ synced = "yes" THEN "behind" ELSE synced
      BY ONLY <1>4
    <3>2. synced' = IF Bursts(k) /\ declared < n THEN "orphaned" ELSE synced
      BY ONLY <1>8, <3>1 DEF Short, n
    <3>3. synced \in {"yes", "behind", "orphaned"} BY DEF LockInv, LocksTyped
    <3> QED BY ONLY <3>2, <3>3
  <2>3. /\ b.media \in Slotted /\ OneSlot(b.media)
        /\ ~IsMediaSlot(k) => InUse(b.media) = InUse(lockBox.media)
        /\ IsMediaSlot(k) =>
             InUse(b.media) = IF s = Pass THEN InUse(lockBox.media) \ {k[2]} ELSE InUse(lockBox.media) \cup {k[2]}
    <3>1. CASE ~IsMediaSlot(k) BY <1>1, <2>1, <3>1
    <3>2. CASE IsMediaSlot(k) /\ s = Pass
      <4>1. k[2] \in MediaUsages /\ ~(s < Pass) BY <3>2, KeysAre DEF Pass
      <4>2. b.media = MediaFreed(lockBox.media, k[2]) BY <2>1, <3>2, <4>1
      <4> QED BY <1>1, <3>2, <4>1, <4>2, SlotFreed
    <3>3. CASE IsMediaSlot(k) /\ s # Pass
      <4>1. k[2] \in MediaUsages /\ s < Pass BY <1>6, <3>3, KeysAre DEF Pass, Block
      <4>2. b.media = MediaTaken(lockBox.media, k[2]) BY <2>1, <3>3, <4>1
      <4> QED BY <1>1, <3>3, <4>1, <4>2, SlotTaken
    <3> QED BY <3>1, <3>2, <3>3
  <2>4. b \in Boxes BY <2>1, <2>3
  <2>5. LocksTyped' BY <1>1, <1>4, <1>5, <1>6, <2>2, <2>4 DEF LocksTyped, RowsTyped
  <2>6. Down' /\ OneSlot(lockBox.media)' BY <1>4, <2>1, <2>3 DEF Down
  <2>7. CopyIn(R, order, b, synced')
    <3>0. CopyIn(rows, mediaOrder, lockBox, synced) BY DEF LockInv
    <3>1. ASSUME synced' = "yes", NEW t \in Shared, Reached(n, t)
          PROVE  b.rows[t] = RowIn(R, n, t)
      <4>1. synced = "yes" /\ ~(Bursts(k) /\ declared < n) BY ONLY <2>2, <3>1
      <4>2. lockBox.rows[t] = RowIn(rows, n, t) BY <3>0, <3>1, <4>1 DEF CopyIn, n
      <4> QED BY <1>5, <2>1, <3>1, <4>1, <4>2
    <3>2. ASSUME synced' = "behind", NEW t \in Shared, Reached(n, t), NEW e \in SlotDirs
          PROVE  b.rows[t][e] \in {Pass, RowIn(R, n, t)[e]}
      <4>0. synced = "behind" /\ ~(Bursts(k) /\ declared < n) BY ONLY <2>2, <3>2
      <4>1. \A f \in SlotDirs : lockBox.rows[t][f] \in {Pass, RowIn(rows, n, t)[f]}
        BY <3>0, <3>2, <4>0 DEF CopyIn, n
      <4>2. CASE Hits(k, t)
        <5>1. b.rows[t] = SlotsSet(lockBox.rows[t], d, s) BY <2>1, <3>2, <4>2
        <5>2. RowIn(R, n, t) = SlotsSet(RowIn(rows, n, t), d, s) BY <1>5, <3>2, <4>0, <4>2
        <5> QED BY <1>2, <4>1, <5>1, <5>2, SetAlike
      <4>3. CASE ~Hits(k, t) BY <1>5, <2>1, <3>2, <4>0, <4>1, <4>3
      <4> QED BY <4>2, <4>3
    <3>3. synced = "yes" => InUse(b.media) = ToSet(order) BY <1>6, <2>3, <3>0 DEF CopyIn
    <3>4. synced = "behind" => InUse(b.media) \subseteq ToSet(order) BY <1>6, <2>3, <3>0 DEF CopyIn
    <3>5. (synced' = "yes" => synced = "yes") /\ (synced' = "behind" => synced = "behind") BY ONLY <2>2
    <3> QED BY <2>1, <3>1, <3>2, <3>3, <3>4, <3>5 DEF CopyIn
  <2> QED BY <1>4, <1>5, <2>5, <2>6, <2>7 DEF LockInv
<1> QED BY <1>7, <1>8

LEMMA EmptyIs ==
  /\ EmptyTable.rows \in [Shared -> Rows] /\ EmptyTable.media \in Slotted
  /\ \A k \in Shared : EmptyTable.rows[k] = PassRow
  /\ OneSlot(EmptyTable.media) /\ InUse(EmptyTable.media) = {}
<1>1. /\ EmptyTable.rows = [k \in Shared |-> PassRow]
      /\ EmptyTable.media = [i \in 1 .. MediaSlots |-> FreeSlot]
  BY DEF EmptyTable
<1>2. PassRow \in Rows BY RowsAre
<1> QED BY <1>1, <1>2 DEF Slotted, OneSlot, InUse

LEMMA NothingHeld ==
  /\ [k \in RowKeys |-> PassRow] \in [RowKeys -> Rows] /\ OneBlanket([k \in RowKeys |-> PassRow])
  /\ \A n : \A k \in Shared : RowIn([j \in RowKeys |-> PassRow], n, k) = PassRow
  /\ \A T : <<>> \in Seq(T) /\ ToSet(<<>>) = {}
BY RowsAre, KeysAre DEF OneBlanket, RowIn, ToSet

LEMMA LocksStart ==
  ASSUME LocksInit
  PROVE  LockInv
<1> DEFINE none == [k \in RowKeys |-> PassRow]
<1>1. /\ rows = none /\ mediaOrder = <<>> /\ declared \in ButtonCounts /\ synced = "yes"
      /\ \E n \in ButtonCounts :
           lockBox = [up |-> TRUE, buttons |-> n, rows |-> EmptyTable.rows, media |-> EmptyTable.media]
  BY DEF LocksInit
<1>8. declared \in Nat
  <2>1. ButtonCounts \subseteq Nat BY CountAssumption DEF MaxButtons
  <2> QED BY <1>1, <2>1
<1> HIDE DEF none
<1>2. /\ lockBox.up /\ lockBox.rows = EmptyTable.rows
      /\ lockBox.media = EmptyTable.media
  BY <1>1
<1>3. lockBox \in Boxes BY <1>1, EmptyIs DEF Boxes
<1>4. none \in [RowKeys -> Rows] /\ OneBlanket(none) /\ \A n : \A k \in Shared : RowIn(none, n, k) = PassRow
  BY NothingHeld DEF none
<1>5. LocksTyped BY <1>1, <1>3, <1>4, <1>8, NothingHeld DEF LocksTyped, RowsTyped
<1>6. Down /\ OneSlot(lockBox.media) BY <1>2, EmptyIs DEF Down
<1>7. CopyIn(rows, mediaOrder, lockBox, synced) BY <1>1, <1>2, <1>4, NothingHeld, EmptyIs DEF CopyIn
<1> QED BY <1>1, <1>4, <1>5, <1>6, <1>7 DEF LockInv

LEMMA LockStays ==
  ASSUME LockInv, UNCHANGED <<rows, mediaOrder, declared, lockBox, synced>>
  PROVE  LockInv'
<1>1. LocksTyped' /\ OneBlanket(rows)' BY DEF LockInv, LocksTyped, RowsTyped
<1>2. Down' /\ OneSlot(lockBox.media)' BY DEF LockInv, Down
<1>3. CopyIn(rows, mediaOrder, lockBox, synced)' BY DEF LockInv
<1> QED BY <1>1, <1>2, <1>3 DEF LockInv

LEMMA LocksResetKeep ==
  ASSUME LockInv, LocksReset \/ LocksResetFails
  PROVE  LockInv'
<1> DEFINE none == [k \in RowKeys |-> PassRow]
<1>1. rows' = none /\ mediaOrder' = <<>> /\ declared' = declared BY DEF LocksReset, LocksResetFails
<1> HIDE DEF none
<1>2. none \in [RowKeys -> Rows] /\ OneBlanket(none) /\ \A n : \A k \in Shared : RowIn(none, n, k) = PassRow
  BY NothingHeld DEF none
<1>3. declared \in Nat /\ lockBox \in Boxes /\ Down /\ OneSlot(lockBox.media)
  BY DEF LockInv, LocksTyped
<1>4. CASE LocksReset
  <2>1. lockBox' = [lockBox EXCEPT !.rows = EmptyTable.rows, !.media = EmptyTable.media] /\ synced' = "yes"
    BY <1>4 DEF LocksReset
  <2>2. lockBox' = [up |-> lockBox.up, buttons |-> lockBox.buttons, rows |-> EmptyTable.rows,
                    media |-> EmptyTable.media]
    BY <1>3, <2>1 DEF Boxes
  <2>3. /\ lockBox'.up = lockBox.up /\ lockBox'.buttons = lockBox.buttons
        /\ lockBox'.rows = EmptyTable.rows /\ lockBox'.media = EmptyTable.media
    BY <2>2
  <2>4. lockBox' \in Boxes
    <3>1. lockBox.up \in BOOLEAN /\ lockBox.buttons \in ButtonCounts BY <1>3 DEF Boxes
    <3> QED BY <2>2, <3>1, EmptyIs DEF Boxes
  <2>5. LocksTyped' BY <1>1, <1>2, <1>3, <2>1, <2>4, NothingHeld DEF LocksTyped, RowsTyped
  <2>7. Down' BY <1>1, <2>3 DEF Down, none
  <2>8. CopyIn(none, <<>>, lockBox', "yes") BY <1>2, <2>3, NothingHeld, EmptyIs DEF CopyIn
  <2>9. CopyIn(rows, mediaOrder, lockBox, synced)' BY <1>1, <2>1, <2>8
  <2>10. OneBlanket(rows)' /\ OneSlot(lockBox.media)' BY <1>1, <1>2, <2>3, EmptyIs
  <2> QED BY <2>5, <2>7, <2>9, <2>10 DEF LockInv
<1>5. CASE LocksResetFails
  <2>1. lockBox' = lockBox /\ synced' = "orphaned" BY <1>5 DEF LocksResetFails
  <2>2. LocksTyped' BY <1>1, <1>2, <1>3, <2>1, NothingHeld DEF LocksTyped, RowsTyped
  <2>3. Down' BY <1>1, <1>3, <2>1 DEF Down
  <2>4. CopyIn(rows, mediaOrder, lockBox, synced)' BY <2>1 DEF CopyIn
  <2>5. OneBlanket(rows)' /\ OneSlot(lockBox.media)' BY <1>1, <1>2, <1>3, <2>1
  <2> QED BY <2>2, <2>3, <2>4, <2>5 DEF LockInv
<1> QED BY <1>4, <1>5

LEMMA LocksReleasedKeep ==
  ASSUME LockInv, LocksReleased
  PROVE  LockInv'
<1>1. PICK cloned \in BOOLEAN, n \in ButtonCounts :
        /\ cloned => lockBox.up /\ n = lockBox.buttons
        /\ lockBox' = [up |-> cloned, buttons |-> n, rows |-> EmptyTable.rows, media |-> EmptyTable.media]
  BY DEF LocksReleased
<1>2. UNCHANGED <<rows, mediaOrder, declared>> /\ synced' = "behind" BY DEF LocksReleased, lockHeld
<1>3. /\ lockBox'.up = cloned /\ lockBox'.buttons = n
      /\ lockBox'.rows = EmptyTable.rows /\ lockBox'.media = EmptyTable.media
  BY <1>1
<1>4. lockBox' \in Boxes BY <1>1, EmptyIs DEF Boxes
<1>5. LocksTyped' /\ OneBlanket(rows)' BY <1>2, <1>4 DEF LockInv, LocksTyped, RowsTyped
<1>7. Down' BY <1>2, <1>3 DEF Down
<1>8. InUse(lockBox'.media) = {} /\ OneSlot(lockBox'.media)
      /\ \A k \in Shared, e \in SlotDirs : lockBox'.rows[k][e] = Pass
  BY <1>3, EmptyIs DEF PassRow
<1>9. CopyIn(rows, mediaOrder, lockBox, synced)' BY <1>2, <1>8 DEF CopyIn
<1> QED BY <1>5, <1>7, <1>8, <1>9 DEF LockInv

LEMMA CloneUpKeeps ==
  ASSUME LockInv, LockCloneUp
  PROVE  LockInv'
<1>1. /\ ~lockBox.up /\ lockBox' = [lockBox EXCEPT !.up = TRUE]
      /\ UNCHANGED <<rows, mediaOrder, declared, synced>>
  BY DEF LockCloneUp, lockHeld
<1>2. lockBox \in Boxes BY DEF LockInv, LocksTyped
<1>3. lockBox' \in Boxes /\ lockBox'.up /\ lockBox'.buttons = lockBox.buttons
      /\ lockBox'.rows = lockBox.rows /\ lockBox'.media = lockBox.media /\ lockBox.buttons \in ButtonCounts
  BY <1>1, <1>2 DEF Boxes
<1>4. lockBox.rows = EmptyTable.rows /\ lockBox.media = EmptyTable.media
      /\ (synced = "yes" => rows = [k \in RowKeys |-> PassRow] /\ mediaOrder = <<>>)
  BY <1>1 DEF LockInv, Down
<1>5. LocksTyped' /\ OneBlanket(rows)' BY <1>1, <1>3 DEF LockInv, LocksTyped, RowsTyped
<1>6. Down' BY <1>1, <1>3 DEF Down
<1>7. OneSlot(lockBox'.media) /\ InUse(lockBox'.media) = {} /\ \A k \in Shared : lockBox'.rows[k] = PassRow
  BY <1>3, <1>4, EmptyIs
<1>8. CASE synced = "yes"
  <2>1. rows = [k \in RowKeys |-> PassRow] /\ mediaOrder = <<>> BY <1>4, <1>8
  <2>2. \A k \in Shared : RowIn(rows, lockBox'.buttons, k) = PassRow BY <2>1, NothingHeld
  <2>3. InUse(lockBox'.media) = ToSet(mediaOrder) BY <1>7, <2>1, NothingHeld
  <2> QED BY <1>1, <1>5, <1>6, <1>7, <1>8, <2>2, <2>3 DEF LockInv, CopyIn
<1>9. CASE synced # "yes"
  <2>1. \A k \in Shared, e \in SlotDirs : lockBox'.rows[k][e] = Pass BY <1>7 DEF PassRow
  <2> QED BY <1>1, <1>5, <1>6, <1>7, <1>9, <2>1 DEF LockInv, CopyIn
<1> QED BY <1>8, <1>9

\* No command leaves a row as it is.
LEMMA NoCommand ==
  ASSUME NEW was \in Rows
  PROVE  Commanded(was, Commands(PassRow)) = was
<1>1. PassRow["pos"] = Pass BY DEF PassRow, SlotDirs, LockEdges
<1>2. Commands(PassRow) = {} BY <1>1, RowsAre DEF Commands
<1>3. was = [e \in SlotDirs |-> was[e]] BY DEF Rows
<1>4. Commanded(was, {}) = was BY <1>3 DEF Commanded
<1> QED BY <1>2, <1>4

\* What a replay makes of the box's rows: those of a blanket only as far as the
\* crate counts.
LEMMA RowReplayed ==
  ASSUME RowsTyped, OneBlanket(rows), declared \in Nat, lockBox \in Boxes, NEW k \in Shared,
         NEW n, n = lockBox.buttons, NEW row, row = RowIn(rows, n, k)
  PROVE  /\ ReplayedRow(lockBox, k) \in Rows
         /\ ~Reached(n, k) => ReplayedRow(lockBox, k) = lockBox.rows[k]
         /\ Reached(n, k) /\ (\A e \in SlotDirs : lockBox.rows[k][e] \in {Pass, row[e]})
              => \/ ReplayedRow(lockBox, k) = row
                 \/ /\ ReplayedRow(lockBox, k) = lockBox.rows[k]
                    /\ rows[AllButtons] # PassRow /\ declared < n
<1>1. RowOf(k) \in Rows /\ row \in Rows BY KeysAre DEF RowOf, RowIn, RowsTyped
<1>2. lockBox.rows[k] \in Rows /\ n \in Int
  <2>1. lockBox.buttons \in ButtonCounts /\ lockBox.rows \in [Shared -> Rows] BY DEF Boxes
  <2>2. ButtonCounts \subseteq Int BY CountAssumption DEF MaxButtons
  <2> QED BY <2>1, <2>2
<1>3. k \in ButtonRows => k[2] \in Int
  <2>1. \A x \in Buttons : x \in Int
    <3>1. Buttons \subseteq Nat BY KeysAre
    <3> QED BY <3>1
  <2>2. k \in ButtonRows => k[2] \in Buttons BY KeysAre
  <2> QED BY <2>1, <2>2
<1>4. CASE k \in ButtonRows /\ k[2] >= n
  <2>1. ~Reached(n, k) BY <1>2, <1>3, <1>4 DEF Reached
  <2>2. ReplayedRow(lockBox, k) = lockBox.rows[k] BY <1>4 DEF ReplayedRow
  <2> QED BY <1>2, <2>1, <2>2
<1>5. CASE ~(k \in ButtonRows /\ k[2] >= n)
  <2>1. Reached(n, k) BY <1>2, <1>3, <1>5 DEF Reached
  <2>2. ReplayedRow(lockBox, k) = Commanded(lockBox.rows[k], Commands(RowOf(k)))
    BY <1>5 DEF ReplayedRow
  <2>3. ReplayedRow(lockBox, k) \in Rows BY <1>1, <1>2, <2>2, CommandsFit
  <2>4. ASSUME \A e \in SlotDirs : lockBox.rows[k][e] \in {Pass, row[e]}
        PROVE  \/ ReplayedRow(lockBox, k) = row
               \/ /\ ReplayedRow(lockBox, k) = lockBox.rows[k]
                  /\ rows[AllButtons] # PassRow /\ declared < n
    <3>1. CASE RowOf(k) = row BY <1>1, <1>2, <2>2, <2>4, <3>1, CommandsBring
    <3>2. CASE RowOf(k) # row
      <4>1. k \in ButtonRows /\ rows[AllButtons] # PassRow /\ k[2] < n /\ ~(k[2] < declared)
        BY <1>2, <1>3, <2>1, <3>2 DEF RowOf, RowIn, Reached
      <4>2. declared < n BY <1>2, <1>3, <4>1
      <4>3. RowOf(k) = PassRow BY <4>1 DEF RowOf, RowIn, OneBlanket
      <4>4. Commanded(lockBox.rows[k], Commands(PassRow)) = lockBox.rows[k] BY <1>2, NoCommand
      <4> QED BY <2>2, <4>1, <4>2, <4>3, <4>4
    <3> QED BY <3>1, <3>2
  <2> QED BY <2>1, <2>3, <2>4
<1> QED BY <1>4, <1>5

LEMMA ReapplyKeeps ==
  ASSUME LockInv, MediaFits, Reapply
  PROVE  LockInv'
<1> DEFINE newRows == [k \in Shared |-> ReplayedRow(lockBox, k)]
           newMedia == MediaReplayed(lockBox.media)
<1>1. /\ lockBox.up /\ lockBox' = [lockBox EXCEPT !.rows = newRows, !.media = newMedia]
      /\ synced' = (IF synced = "behind" /\ ~(rows[AllButtons] # PassRow /\ Short) THEN "yes" ELSE synced)
      /\ UNCHANGED <<rows, mediaOrder, declared>>
  BY DEF Reapply, Replayed, lockHeld
<1>2. /\ lockBox \in Boxes /\ RowsTyped /\ mediaOrder \in Seq(MediaUsages) /\ declared \in Nat
      /\ OneSlot(lockBox.media) /\ lockBox.media \in Slotted /\ synced \in {"yes", "behind", "orphaned"}
      /\ OneBlanket(rows) /\ CopyIn(rows, mediaOrder, lockBox, synced)
  BY DEF LockInv, LocksTyped, Boxes
<1>4. newRows \in [Shared -> Rows] BY <1>2, RowReplayed
<1>5. /\ newMedia \in Slotted /\ OneSlot(newMedia)
      /\ InUse(newMedia) = InUse(lockBox.media) \cup ToSet(mediaOrder)
  BY <1>2, SlotsReplayed
<1>6. \A k \in Shared : newRows[k] = ReplayedRow(lockBox, k) OBVIOUS
<1> HIDE DEF newRows, newMedia
<1>7. lockBox' = [up |-> lockBox.up, buttons |-> lockBox.buttons, rows |-> newRows, media |-> newMedia]
  BY <1>1, <1>2 DEF Boxes
<1>8. /\ lockBox'.up /\ lockBox'.buttons = lockBox.buttons /\ lockBox'.rows = newRows /\ lockBox'.media = newMedia
  BY <1>1, <1>7
<1>9. lockBox' \in Boxes
  <2>1. lockBox.up \in BOOLEAN /\ lockBox.buttons \in ButtonCounts BY <1>2 DEF Boxes
  <2> QED BY <1>4, <1>5, <1>7, <2>1 DEF Boxes
<1>10. LocksTyped' /\ OneBlanket(rows)' BY <1>1, <1>2, <1>9 DEF LocksTyped, RowsTyped
<1>11. Down' /\ OneSlot(lockBox.media)' BY <1>1, <1>5, <1>8 DEF Down
<1>12. CopyIn(rows, mediaOrder, lockBox', synced')
  <2> DEFINE n == lockBox.buttons
             whole == rows[AllButtons] = PassRow \/ ~(declared < n)
  <2>1. ASSUME synced # "orphaned", NEW k \in Shared, Reached(n, k)
        PROVE  /\ \A e \in SlotDirs : lockBox.rows[k][e] \in {Pass, RowIn(rows, n, k)[e]}
               /\ synced = "yes" => lockBox.rows[k] = RowIn(rows, n, k)
    BY <1>2, <2>1 DEF CopyIn
  <2>2. ASSUME synced # "orphaned", NEW k \in Shared, Reached(n, k)
        PROVE  \/ newRows[k] = RowIn(rows, n, k)
               \/ newRows[k] = lockBox.rows[k] /\ ~whole
    <3>1. \A e \in SlotDirs : lockBox.rows[k][e] \in {Pass, RowIn(rows, n, k)[e]} BY <2>1, <2>2
    <3>2. newRows[k] = ReplayedRow(lockBox, k) BY <1>6
    <3> QED BY <1>2, <2>2, <3>1, <3>2, RowReplayed
  <2>3. /\ synced' = "yes" => synced # "orphaned" /\ (whole \/ synced = "yes")
        /\ synced' = "behind" => synced # "orphaned"
    <3>1. Short <=> declared < n BY <1>1 DEF Short
    <3> HIDE DEF n
    <3> QED BY ONLY <1>1, <1>2, <3>1
  <2> HIDE DEF whole
  <2>4. ASSUME synced' = "yes", NEW k \in Shared, Reached(n, k) PROVE newRows[k] = RowIn(rows, n, k)
    <3>1. synced # "orphaned" /\ (whole \/ synced = "yes") BY <2>3, <2>4
    <3>2. newRows[k] = RowIn(rows, n, k) \/ (newRows[k] = lockBox.rows[k] /\ ~whole) BY <2>2, <2>4, <3>1
    <3>3. synced = "yes" => lockBox.rows[k] = RowIn(rows, n, k) BY <2>1, <2>4, <3>1
    <3> QED BY ONLY <3>1, <3>2, <3>3
  <2>5. ASSUME synced' = "behind", NEW k \in Shared, Reached(n, k), NEW e \in SlotDirs
        PROVE  newRows[k][e] \in {Pass, RowIn(rows, n, k)[e]}
    <3>1. newRows[k] = RowIn(rows, n, k) \/ newRows[k] = lockBox.rows[k] BY <2>2, <2>3, <2>5
    <3>2. lockBox.rows[k][e] \in {Pass, RowIn(rows, n, k)[e]} BY <2>1, <2>3, <2>5
    <3> QED BY ONLY <3>1, <3>2
  <2>6. synced # "orphaned" => InUse(newMedia) = ToSet(mediaOrder) BY <1>2, <1>5 DEF CopyIn
  <2> QED BY <1>8, <2>3, <2>4, <2>5, <2>6 DEF CopyIn
<1>13. CopyIn(rows, mediaOrder, lockBox, synced)' BY <1>1, <1>12
<1> QED BY <1>10, <1>11, <1>13 DEF LockInv

LEMMA CapsKeep ==
  ASSUME LockInv, CapsNoted
  PROVE  LockInv'
<1>1. PICK n \in ButtonCounts \cup {0} : declared' = n BY DEF CapsNoted
<1>2. declared' \in Nat
  <2>1. ButtonCounts \subseteq Nat BY CountAssumption DEF MaxButtons
  <2> QED BY <1>1, <2>1
<1>3. UNCHANGED <<rows, mediaOrder, lockBox, synced>> BY DEF CapsNoted, lockHeld
<1>4. LocksTyped' /\ OneBlanket(rows)' BY <1>2, <1>3 DEF LockInv, LocksTyped, RowsTyped
<1>5. Down' /\ OneSlot(lockBox.media)' BY <1>3 DEF LockInv, Down
<1>6. CopyIn(rows, mediaOrder, lockBox, synced)' BY <1>3 DEF LockInv
<1> QED BY <1>4, <1>5, <1>6 DEF LockInv

LEMMA LocksStep ==
  ASSUME LockInv, MediaFits, ~EdgeBlankets, [LocksNext]_lockVars
  PROVE  LockInv'
<1>1. ASSUME NEW k \in RowKeys, NEW d \in DirsOf(k), NEW s \in Scales,
             k \notin AxisRows => s \in {Pass, Block}, Lock(k, d, s) \/ LockFails(k, d, s)
      PROVE  LockInv'
  <2>1. CASE Lock(k, d, s) BY <1>1, <2>1, LockKeeps
  <2>2. CASE LockFails(k, d, s)
    <3>1. RowsTyped BY DEF LockInv, LocksTyped
    <3>2. UNCHANGED lockHeld BY <1>1, <2>2, <3>1, FailsExactly
    <3>3. UNCHANGED <<declared, lockBox, synced>> BY <2>2 DEF LockFails
    <3> QED BY <3>2, <3>3, LockStays DEF lockHeld
  <2> QED BY <1>1, <2>1, <2>2
<1>2. CASE LocksReset \/ LocksResetFails BY <1>2, LocksResetKeep
<1>3. CASE LocksReleased BY <1>3, LocksReleasedKeep
<1>4. CASE LockCloneUp \/ CapsNoted BY <1>4, CloneUpKeeps, CapsKeep
<1>5. CASE Reapply BY <1>5, ReapplyKeeps
<1>6. CASE UNCHANGED lockVars BY <1>6, LockStays DEF lockVars
<1> QED BY <1>1, <1>2, <1>3, <1>4, <1>5, <1>6 DEF LocksNext

LEMMA CopyFromInv ==
  ASSUME LockInv, MediaFits
  PROVE  CopyIsTable
<1> DEFINE n == lockBox.buttons
<1> SUFFICES ASSUME synced = "yes"
             PROVE  /\ \A k \in Shared :
                         (k \in ButtonRows => k[2] < n) => lockBox.rows[k] = RowIn(rows, n, k)
                    /\ {lockBox.media[i] : i \in 1 .. MediaSlots} \ {FreeSlot} = ToSet(mediaOrder)
                    /\ Replayed(lockBox) = lockBox
  BY DEF CopyIsTable
<1>1. /\ lockBox \in Boxes /\ RowsTyped /\ mediaOrder \in Seq(MediaUsages) /\ OneSlot(lockBox.media)
      /\ lockBox.media \in Slotted /\ lockBox.rows \in [Shared -> Rows] /\ declared \in Nat
      /\ OneBlanket(rows) /\ CopyIn(rows, mediaOrder, lockBox, synced)
  BY DEF LockInv, LocksTyped, Boxes
<1>2. \A k \in Shared : Reached(n, k) => lockBox.rows[k] = RowIn(rows, n, k) BY <1>1 DEF CopyIn
<1>3. InUse(lockBox.media) = ToSet(mediaOrder) BY <1>1 DEF CopyIn
<1>4. MediaReplayed(lockBox.media) = lockBox.media BY <1>1, <1>3, SlotsReplayed
<1>5. ASSUME NEW k \in Shared PROVE ReplayedRow(lockBox, k) = lockBox.rows[k]
  <2>1. CASE ~Reached(n, k) BY <1>1, <2>1, RowReplayed
  <2>2. CASE Reached(n, k)
    <3>1. lockBox.rows[k] = RowIn(rows, n, k) BY <1>2, <2>2
    <3>2. \A e \in SlotDirs : lockBox.rows[k][e] \in {Pass, RowIn(rows, n, k)[e]} BY <3>1
    <3> QED BY <1>1, <2>2, <3>1, <3>2, RowReplayed
  <2> QED BY <2>1, <2>2
<1>6. Replayed(lockBox) = lockBox
  <2> DEFINE newRows == [k \in Shared |-> ReplayedRow(lockBox, k)]
  <2>1. newRows = lockBox.rows BY <1>1, <1>5
  <2>2. Replayed(lockBox) = [lockBox EXCEPT !.rows = newRows, !.media = MediaReplayed(lockBox.media)]
    BY DEF Replayed
  <2> HIDE DEF newRows
  <2>3. [lockBox EXCEPT !.rows = lockBox.rows, !.media = lockBox.media] = lockBox BY <1>1 DEF Boxes
  <2> QED BY <1>4, <2>1, <2>2, <2>3
<1> QED BY <1>2, <1>3, <1>6 DEF Reached, InUse

(* Whatever was locked, unlocked, undone, released and sent again, the crate's
   copy is the box's table once the box has taken all of it, and sending it all
   again changes nothing (apply_lock, reconcile.rs:383-408; reapply_locked,
   reconnect.rs:259-339), as long as the box has a slot for each media usage and
   no edge of all buttons is locked by itself. *)
THEOREM CopyCorrect ==
  ASSUME MediaFits, ~EdgeBlankets
  PROVE  LocksSpec => []CopyIsTable
<1>1. LocksInit => LockInv BY LocksStart
<1>2. LockInv /\ [LocksNext]_lockVars => LockInv' BY MediaFits, ~EdgeBlankets, LocksStep
<1>3. LockInv => CopyIsTable BY MediaFits, CopyFromInv
<1> QED BY <1>1, <1>2, <1>3, PTL DEF LocksSpec

-----------------------------------------------------------------------------
(* The ordered tables: one entry per key.                                   *)

Pairs == (RuleKeys \cup FieldPairs \cup TriggerKeys) \X Values
Distinct(t) == \A i, j \in 1 .. Len(t) : t[i][1] = t[j][1] => i = j
Table == {t \in Seq(Pairs) : Distinct(t)}

\* What the box has of the crate's table, from its start on.
Prefix(b, h) == Len(b) <= Len(h) /\ \A i \in 1 .. Len(b) : b[i] = h[i]

LEMMA SeqIs ==
  ASSUME NEW t \in Seq(Pairs)
  PROVE  /\ Len(t) \in Nat /\ DOMAIN t = 1 .. Len(t)
         /\ \A i \in 1 .. Len(t) : t[i] \in Pairs
OBVIOUS

LEMMA HoldsIs ==
  ASSUME NEW t \in Seq(Pairs), NEW k
  PROVE  Holds(t, k) <=> \E i \in 1 .. Len(t) : t[i][1] = k
<1>1. DOMAIN t = 1 .. Len(t) BY SeqIs
<1>2. DOMAIN KeysOf(t) = 1 .. Len(t) /\ \A i \in 1 .. Len(t) : KeysOf(t)[i] = t[i][1] BY <1>1 DEF KeysOf
<1>3. ToSet(KeysOf(t)) = {t[i][1] : i \in 1 .. Len(t)} BY <1>2 DEF ToSet
<1> QED BY <1>3 DEF Holds

LEMMA PlaceIs ==
  ASSUME NEW t \in Seq(Pairs), NEW k, Holds(t, k)
  PROVE  Place(t, k) \in 1 .. Len(t) /\ t[Place(t, k)][1] = k
<1>1. DOMAIN t = 1 .. Len(t) BY SeqIs
<1>2. \E i \in 1 .. Len(t) : t[i][1] = k BY HoldsIs
<1> QED BY <1>1, <1>2 DEF Place

LEMMA OnlyPlace ==
  ASSUME NEW t \in Table, NEW i \in 1 .. Len(t)
  PROVE  Holds(t, t[i][1]) /\ Place(t, t[i][1]) = i
<1>1. Holds(t, t[i][1]) BY HoldsIs DEF Table
<1>2. Place(t, t[i][1]) \in 1 .. Len(t) /\ t[Place(t, t[i][1])][1] = t[i][1] BY <1>1, PlaceIs DEF Table
<1> QED BY <1>1, <1>2 DEF Table, Distinct

LEMMA RemovedIs ==
  ASSUME NEW T, NEW t \in Seq(T), NEW p \in 1 .. Len(t)
  PROVE  /\ RemoveAt(t, p) \in Seq(T) /\ Len(RemoveAt(t, p)) = Len(t) - 1
         /\ \A i \in 1 .. (Len(t) - 1) : RemoveAt(t, p)[i] = IF i < p THEN t[i] ELSE t[i + 1]
<1> DEFINE u == SubSeq(t, 1, p - 1)
           v == SubSeq(t, p + 1, Len(t))
<1>1. p \in Nat /\ 1 <= p /\ p <= Len(t) /\ Len(t) \in Nat OBVIOUS
<1>2. /\ u \in Seq(T) /\ Len(u) = p - 1 /\ \A i \in 1 .. (p - 1) : u[i] = t[i] 
  BY <1>1
<1>3. /\ v \in Seq(T) /\ Len(v) = Len(t) - p /\ \A i \in 1 .. (Len(t) - p) : v[i] = t[p + i]
  BY <1>1
<1>4. RemoveAt(t, p) = u \o v BY DEF RemoveAt
<1> HIDE DEF u, v
<1>5. u \o v \in Seq(T) /\ Len(u \o v) = Len(t) - 1
  <2>1. u \o v \in Seq(T) /\ Len(u \o v) = Len(u) + Len(v) BY ONLY <1>2, <1>3, ConcatProperties
  <2>2. (p - 1) + (Len(t) - p) = Len(t) - 1 BY ONLY <1>1
  <2> QED BY <1>2, <1>3, <2>1, <2>2
<1>6. ASSUME NEW i \in 1 .. (Len(t) - 1) PROVE (u \o v)[i] = IF i < p THEN t[i] ELSE t[i + 1]
  <2>1. CASE i < p
    <3>1. i \in 1 .. (p - 1) BY <1>1, <2>1
    <3>2. (u \o v)[i] = u[i] BY <1>1, <1>2, <1>3, <3>1
    <3> QED BY <1>2, <2>1, <3>1, <3>2
  <2>2. CASE ~(i < p)
    <3>1. i - (p - 1) \in 1 .. (Len(t) - p) /\ p + (i - (p - 1)) = i + 1 BY <1>1, <2>2
    <3>2. (u \o v)[i] = v[i - (p - 1)] BY <1>1, <1>2, <1>3, <2>2
    <3> QED BY <1>3, <2>2, <3>1, <3>2
  <2> QED BY <2>1, <2>2
<1> QED BY <1>4, <1>5, <1>6

LEMMA WithoutIs ==
  ASSUME NEW t \in Seq(Pairs), NEW k, Holds(t, k)
  PROVE  /\ Without(t, k) \in Seq(Pairs) /\ Len(Without(t, k)) = Len(t) - 1
         /\ \A i \in 1 .. (Len(t) - 1) :
              Without(t, k)[i] = IF i < Place(t, k) THEN t[i] ELSE t[i + 1]
<1>1. Without(t, k) = RemoveAt(t, Place(t, k)) BY DEF Without
<1>2. Place(t, k) \in 1 .. Len(t) BY PlaceIs
<1> QED BY <1>1, <1>2, RemovedIs

LEMMA WithoutFits ==
  ASSUME NEW t \in Table, NEW k
  PROVE  /\ Without(t, k) \in Table /\ ~Holds(Without(t, k), k)
         /\ Len(Without(t, k)) = IF Holds(t, k) THEN Len(t) - 1 ELSE Len(t)
<1>1. t \in Seq(Pairs) /\ Distinct(t) BY DEF Table
<1>2. CASE ~Holds(t, k) BY <1>2 DEF Without
<1>3. CASE Holds(t, k)
  <2> DEFINE p == Place(t, k)
             w == Without(t, k)
  <2>1. p \in 1 .. Len(t) /\ t[p][1] = k BY <1>1, <1>3, PlaceIs
  <2>2. w \in Seq(Pairs) /\ Len(w) = Len(t) - 1 BY <1>1, <1>3, WithoutIs
  <2>3. \A i \in 1 .. (Len(t) - 1) : w[i] = IF i < p THEN t[i] ELSE t[i + 1] BY <1>1, <1>3, WithoutIs
  <2>4. Holds(w, k) <=> \E i \in 1 .. Len(w) : w[i][1] = k BY <2>2, HoldsIs
  <2>5. Len(t) \in Nat BY <1>1, SeqIs
  <2> HIDE DEF p, w
  <2> DEFINE From(i) == IF i < p THEN i ELSE i + 1
  <2>6. \A i \in 1 .. (Len(t) - 1) : From(i) \in 1 .. Len(t) /\ From(i) # p /\ w[i] = t[From(i)]
    BY <2>1, <2>3, <2>5
  <2>7. \A i, j \in 1 .. (Len(t) - 1) : From(i) = From(j) => i = j BY <2>1, <2>5
  <2> HIDE DEF From
  <2>8. ~Holds(w, k)
    <3>1. \A i \in 1 .. Len(w) : w[i][1] # k BY <1>1, <2>1, <2>2, <2>6 DEF Distinct
    <3> QED BY <2>4, <3>1
  <2>9. Distinct(w)
    <3> SUFFICES ASSUME NEW i \in 1 .. Len(w), NEW j \in 1 .. Len(w), w[i][1] = w[j][1] PROVE i = j
      BY DEF Distinct
    <3>1. From(i) = From(j) BY <1>1, <2>2, <2>6 DEF Distinct
    <3> QED BY <2>2, <2>7, <3>1
  <2> QED BY <1>3, <2>2, <2>8, <2>9 DEF w, Table
<1> QED BY <1>2, <1>3

LEMMA AppendFits ==
  ASSUME NEW t \in Table, NEW e \in Pairs, ~Holds(t, e[1])
  PROVE  Append(t, e) \in Table /\ Len(Append(t, e)) = Len(t) + 1
<1>1. t \in Seq(Pairs) /\ Distinct(t) BY DEF Table
<1>2. /\ Append(t, e) \in Seq(Pairs) /\ Len(Append(t, e)) = Len(t) + 1
      /\ \A i \in 1 .. Len(t) : Append(t, e)[i] = t[i]
      /\ Append(t, e)[Len(t) + 1] = e
  BY <1>1
<1>3. \A i \in 1 .. Len(t) : t[i][1] # e[1] BY <1>1, HoldsIs
<1>4. Len(t) \in Nat BY <1>1, SeqIs
<1>5. \A i \in 1 .. (Len(t) + 1) : i \in 1 .. Len(t) \/ i = Len(t) + 1 BY <1>4
<1>6. Distinct(Append(t, e))
  <2> SUFFICES ASSUME NEW i \in 1 .. (Len(t) + 1), NEW j \in 1 .. (Len(t) + 1),
                      Append(t, e)[i][1] = Append(t, e)[j][1]
               PROVE  i = j
    BY <1>2 DEF Distinct
  <2>1. CASE i \in 1 .. Len(t) /\ j \in 1 .. Len(t) BY <1>1, <1>2, <2>1 DEF Distinct
  <2>2. CASE i \in 1 .. Len(t) /\ j = Len(t) + 1 BY <1>2, <1>3, <2>2
  <2>3. CASE i = Len(t) + 1 /\ j \in 1 .. Len(t) BY <1>2, <1>3, <2>3
  <2> QED BY <1>5, <2>1, <2>2, <2>3
<1> QED BY <1>2, <1>6 DEF Table

LEMMA OverwriteFits ==
  ASSUME NEW t \in Table, NEW e \in Pairs, Holds(t, e[1])
  PROVE  InPlace(t, e) \in Table /\ Len(InPlace(t, e)) = Len(t)
<1>1. t \in Seq(Pairs) /\ Distinct(t) BY DEF Table
<1> DEFINE p == Place(t, e[1])
           u == [t EXCEPT ![p] = e]
<1>2. p \in 1 .. Len(t) /\ t[p][1] = e[1] BY <1>1, PlaceIs
<1>3. InPlace(t, e) = u BY DEF InPlace
<1> HIDE DEF p
<1>4. u \in Seq(Pairs) /\ Len(u) = Len(t) BY <1>1, <1>2, ExceptSeq
<1>5. \A i \in 1 .. Len(t) : u[i][1] = t[i][1] BY <1>1, <1>2
<1> HIDE DEF u
<1>6. Distinct(u) BY <1>1, <1>4, <1>5 DEF Distinct
<1> QED BY <1>3, <1>4, <1>6 DEF Table

LEMMA ToSetIs ==
  ASSUME NEW t \in Seq(Pairs), NEW e
  PROVE  e \in ToSet(t) <=> \E i \in 1 .. Len(t) : t[i] = e
<1>1. DOMAIN t = 1 .. Len(t) BY SeqIs
<1> QED BY <1>1 DEF ToSet

LEMMA RecordedFits ==
  ASSUME NEW kind, NEW t \in Table, NEW e \in Pairs
  PROVE  /\ Recorded(kind, t, e) \in Table
         /\ Len(Recorded(kind, t, e)) = IF Holds(t, e[1]) THEN Len(t) ELSE Len(t) + 1
<1>1. t \in Seq(Pairs) /\ Len(t) \in Nat BY SeqIs DEF Table
<1>2. CASE kind = "rewrite" /\ e \in ToSet(t)
  <2>1. Holds(t, e[1]) BY <1>1, <1>2, ToSetIs, HoldsIs
  <2>2. Recorded(kind, t, e) = t BY <1>2 DEF Recorded, AtEnd
  <2> QED BY <2>1, <2>2
<1>3. CASE kind = "rewrite" /\ e \notin ToSet(t)
  <2> DEFINE w == Without(t, e[1])
  <2>1. Recorded(kind, t, e) = Append(w, e) BY <1>3 DEF Recorded, AtEnd
  <2>2. w \in Table /\ ~Holds(w, e[1]) /\ Len(w) = IF Holds(t, e[1]) THEN Len(t) - 1 ELSE Len(t)
    BY WithoutFits
  <2> HIDE DEF w
  <2>3. Append(w, e) \in Table /\ Len(Append(w, e)) = Len(w) + 1 BY <2>2, AppendFits
  <2> QED BY <1>1, <2>1, <2>2, <2>3
<1>4. CASE kind # "rewrite" /\ Holds(t, e[1])
  <2>1. Recorded(kind, t, e) = InPlace(t, e) BY <1>4 DEF Recorded
  <2> QED BY <1>4, <2>1, OverwriteFits
<1>5. CASE kind # "rewrite" /\ ~Holds(t, e[1])
  <2>1. Recorded(kind, t, e) = Append(t, e) BY <1>5 DEF Recorded, InPlace
  <2> QED BY <1>5, <2>1, AppendFits
<1> QED BY <1>2, <1>3, <1>4, <1>5

-----------------------------------------------------------------------------
(* What a call recorded, taken back.                                        *)

\* However an entry was recorded, without its key the table is as without it before.
LEMMA WithoutRecorded ==
  ASSUME NEW kind, NEW t \in Table, NEW e \in Pairs
  PROVE  Without(Recorded(kind, t, e), e[1]) = Without(t, e[1])
<1> DEFINE k == e[1]
           u == Recorded(kind, t, e)
           w == Without(t, k)
           z == Without(u, k)
<1>1. t \in Seq(Pairs) /\ Distinct(t) /\ Len(t) \in Nat BY SeqIs DEF Table
<1>2. w \in Table /\ ~Holds(w, k) BY WithoutFits
<1>3. w \in Seq(Pairs) /\ Len(w) \in Nat BY <1>2, SeqIs DEF Table
<1>4. CASE u = t BY <1>4
<1>5. CASE u = Append(w, e)
  <2> HIDE DEF w
  <2>1. u \in Table /\ Len(u) = Len(w) + 1 BY <1>2, <1>5, AppendFits
  <2>2. u \in Seq(Pairs) BY <2>1 DEF Table
  <2>3. u[Len(w) + 1] = e /\ \A i \in 1 .. Len(w) : u[i] = w[i] BY <1>3, <1>5
  <2>4. Len(w) + 1 \in 1 .. Len(u) BY <1>3, <2>1
  <2> HIDE DEF u
  <2>5. Holds(u, k) /\ Place(u, k) = Len(w) + 1
    <3>1. u[Len(w) + 1][1] = k BY <2>3
    <3> QED BY <2>1, <2>4, <3>1, OnlyPlace
  <2>6. z \in Seq(Pairs) /\ Len(z) = Len(u) - 1 BY <2>2, <2>5, WithoutIs
  <2>7. \A i \in 1 .. (Len(u) - 1) : z[i] = IF i < Place(u, k) THEN u[i] ELSE u[i + 1] BY <2>2, <2>5, WithoutIs
  <2> HIDE DEF z
  <2>8. Len(z) = Len(w) /\ \A i \in 1 .. Len(w) : z[i] = w[i] BY <1>3, <2>1, <2>3, <2>5, <2>6, <2>7
  <2>9. z = w BY <1>3, <2>6, <2>8, SeqEqual
  <2> QED BY <2>9 DEF z, w, u, k
<1>6. CASE Holds(t, k) /\ u = InPlace(t, e)
  <2>1. u \in Table /\ Len(u) = Len(t) BY <1>6, OverwriteFits
  <2> DEFINE p == Place(t, k)
  <2>2. p \in 1 .. Len(t) /\ t[p][1] = k BY <1>1, <1>6, PlaceIs
  <2>3. u = [t EXCEPT ![p] = e] BY <1>6 DEF InPlace
  <2> HIDE DEF p
  <2>4. \A i \in 1 .. Len(t) : u[i] = IF i = p THEN e ELSE t[i] BY <1>1, <2>2, <2>3, ExceptSeq
  <2> HIDE DEF u
  <2>5. Holds(u, k) /\ Place(u, k) = p
    <3>1. p \in 1 .. Len(u) /\ u[p][1] = k BY <2>1, <2>2, <2>4
    <3> QED BY <2>1, <3>1, OnlyPlace
  <2>6. z \in Seq(Pairs) /\ Len(z) = Len(u) - 1 BY <2>1, <2>5, WithoutIs DEF Table
  <2>7. \A i \in 1 .. (Len(u) - 1) : z[i] = IF i < p THEN u[i] ELSE u[i + 1] BY <2>1, <2>5, WithoutIs DEF Table
  <2>8. Len(w) = Len(t) - 1 BY <1>1, <1>6, WithoutIs
  <2>9. \A i \in 1 .. (Len(t) - 1) : w[i] = IF i < p THEN t[i] ELSE t[i + 1]
    BY <1>1, <1>6, WithoutIs DEF p
  <2> HIDE DEF z, w
  <2>10. \A i \in 1 .. (Len(t) - 1) : z[i] = w[i]
    <3> SUFFICES ASSUME NEW i \in 1 .. (Len(t) - 1) PROVE z[i] = w[i] OBVIOUS
    <3>1. CASE i < p
      <4>1. i \in 1 .. Len(t) /\ i # p BY <1>1, <2>2, <3>1
      <4> QED BY <2>1, <2>4, <2>7, <2>9, <3>1, <4>1
    <3>2. CASE ~(i < p)
      <4>1. i + 1 \in 1 .. Len(t) /\ i + 1 # p BY <1>1, <2>2, <3>2
      <4> QED BY <2>1, <2>4, <2>7, <2>9, <3>2, <4>1
    <3> QED BY <3>1, <3>2
  <2>11. z = w BY <1>3, <2>1, <2>6, <2>8, <2>10, SeqEqual
  <2> QED BY <2>11 DEF z, w, u, k
<1>7. u = t \/ u = Append(w, e) \/ (Holds(t, k) /\ u = InPlace(t, e))
  <2>1. CASE kind = "rewrite" BY <2>1 DEF Recorded, AtEnd
  <2>2. CASE kind # "rewrite" /\ Holds(t, k) BY <2>2 DEF Recorded
  <2>3. CASE kind # "rewrite" /\ ~Holds(t, k)
    <3>1. w = t BY <2>3 DEF Without
    <3>2. u = Append(t, e) BY <2>3 DEF Recorded, InPlace
    <3> QED BY <3>1, <3>2
  <2> QED BY <2>1, <2>2, <2>3
<1> QED BY <1>4, <1>5, <1>6, <1>7

LEMMA InsertedBack ==
  ASSUME NEW t \in Seq(Pairs), NEW w \in Seq(Pairs), NEW p \in 1 .. Len(t),
         Len(w) = Len(t) - 1,
         \A i \in 1 .. (Len(t) - 1) : w[i] = IF i < p THEN t[i] ELSE t[i + 1]
  PROVE  InsertAt(w, p, t[p]) = t
<1> DEFINE n == Len(t)
           u == SubSeq(w, 1, p - 1)
           v == SubSeq(w, p, Len(w))
           o == <<t[p]>>
           uo == u \o o
           x == uo \o v
<1>1. n \in Nat /\ p \in Nat /\ 1 <= p /\ p <= n /\ p \in Int /\ p - 1 \in Int /\ Len(w) = n - 1 /\ 1 \in Int BY SeqIs
<1>2. \A i \in 1 .. (n - 1) : w[i] \in Pairs BY <1>1, SeqIs
<1>3. \A i \in 1 .. (p - 1) : w[i] \in Pairs BY <1>1, <1>2
<1>4. \A i \in p .. (n - 1) : w[i] \in Pairs BY <1>1, <1>2
<1>5. /\ u \in Seq(Pairs) /\ Len(u) = IF 1 <= p - 1 THEN p - 1 - 1 + 1 ELSE 0
      /\ \A i \in 1 .. (p - 1 - 1 + 1) : u[i] = w[1 + i - 1]
  BY <1>1, <1>3, SubSeqProperties
<1>6. /\ v \in Seq(Pairs) /\ Len(v) = IF p <= n - 1 THEN n - 1 - p + 1 ELSE 0
      /\ \A i \in 1 .. (n - 1 - p + 1) : v[i] = w[p + i - 1]
  <2>1. n - 1 \in Int BY <1>1
  <2>2. v = SubSeq(w, p, n - 1) BY <1>1
  <2> HIDE DEF v, n
  <2> QED BY <1>1, <1>4, <2>1, <2>2, SubSeqProperties
<1>7. o \in Seq(Pairs) /\ Len(o) = 1 /\ o[1] = t[p] BY SeqIs
<1>8. InsertAt(w, p, t[p]) = x BY DEF InsertAt
<1> HIDE DEF u, v, o, n
<1>9. Len(u) = p - 1 /\ \A i \in 1 .. (p - 1) : u[i] = w[i]
  <2>1. \A i \in 1 .. (p - 1) : i \in 1 .. (p - 1 - 1 + 1) /\ 1 + i - 1 = i BY <1>1
  <2> QED BY <1>1, <1>5, <2>1
<1>10. Len(v) = n - p /\ \A i \in 1 .. (n - p) : v[i] = w[p + i - 1]
  <2>1. \A i \in 1 .. (n - p) : i \in 1 .. (n - 1 - p + 1) BY <1>1
  <2> QED BY <1>1, <1>6, <2>1
<1>11. /\ uo \in Seq(Pairs) /\ Len(uo) = Len(u) + Len(o)
       /\ \A i \in 1 .. Len(u) + Len(o) : uo[i] = IF i <= Len(u) THEN u[i] ELSE o[i - Len(u)]
  BY <1>5, <1>7, ConcatProperties
<1> HIDE DEF uo
<1>12. /\ x \in Seq(Pairs) /\ Len(x) = Len(uo) + Len(v)
       /\ \A i \in 1 .. Len(uo) + Len(v) : x[i] = IF i <= Len(uo) THEN uo[i] ELSE v[i - Len(uo)]
  <2>1. uo \in Seq(Pairs) /\ v \in Seq(Pairs) BY <1>6, <1>11
  <2> QED BY ONLY <2>1, ConcatProperties
<1> HIDE DEF x
<1>13. Len(uo) = p BY <1>1, <1>7, <1>9, <1>11
<1>14. Len(x) = n BY <1>1, <1>10, <1>12, <1>13
<1>15. ASSUME NEW i \in 1 .. n PROVE x[i] = t[i]
  <2>0. i \in 1 .. Len(uo) + Len(v) BY <1>1, <1>10, <1>13
  <2>1. CASE i < p
    <3>1. i \in 1 .. (p - 1) /\ i \in 1 .. Len(u) + Len(o) /\ i \in 1 .. (n - 1) BY <1>1, <1>7, <1>9, <2>1
    <3>2. x[i] = uo[i] BY <1>1, <1>12, <1>13, <2>0, <2>1
    <3>3. uo[i] = u[i]
      <4>1. uo[i] = IF i <= Len(u) THEN u[i] ELSE o[i - Len(u)] BY ONLY <1>11, <3>1
      <4>2. i <= Len(u) BY ONLY <1>1, <1>9, <3>1
      <4> QED BY ONLY <4>1, <4>2
    <3>4. u[i] = w[i] /\ w[i] = t[i] BY <1>9, <2>1, <3>1 DEF n
    <3> QED BY <3>2, <3>3, <3>4
  <2>2. CASE i = p
    <3>1. x[i] = uo[p] BY <1>1, <1>12, <1>13, <2>0, <2>2
    <3>2. p \in 1 .. Len(u) + Len(o) /\ ~(p <= Len(u)) /\ p - Len(u) = 1 BY <1>1, <1>7, <1>9
    <3>3. uo[p] = o[1] BY <1>11, <3>2
    <3> QED BY <1>7, <2>2, <3>1, <3>3
  <2>3. CASE i > p
    <3>1. x[i] = v[i - p] BY <1>1, <1>12, <1>13, <2>0, <2>3
    <3>2. i - p \in 1 .. (n - p) /\ p + (i - p) - 1 = i - 1 BY <1>1, <2>3
    <3>3. v[i - p] = w[i - 1] BY <1>10, <3>2
    <3>4. i - 1 \in 1 .. (n - 1) /\ ~(i - 1 < p) /\ i - 1 + 1 = i BY <1>1, <2>3
    <3>5. w[i - 1] = t[i] BY <3>4 DEF n
    <3> QED BY <3>1, <3>3, <3>5
  <2> QED BY <1>1, <2>1, <2>2, <2>3
<1>16. x = t BY <1>12, <1>14, <1>15, SeqEqual DEF n
<1> QED BY <1>8, <1>16

\* What is like the table but for one key is brought back to it.
LEMMA RestoredIs ==
  ASSUME NEW t \in Table, NEW u, NEW k, Without(u, k) = Without(t, k)
  PROVE  Restored(u, t, k) = t
<1>1. t \in Seq(Pairs) /\ Len(t) \in Nat BY SeqIs DEF Table
<1>2. CASE ~Holds(t, k) BY <1>2 DEF Restored, Without
<1>3. CASE Holds(t, k)
  <2> DEFINE p == Place(t, k)
             w == Without(t, k)
  <2>1. p \in 1 .. Len(t) BY <1>1, <1>3, PlaceIs
  <2>2. w \in Seq(Pairs) /\ Len(w) = Len(t) - 1 BY <1>1, <1>3, WithoutIs
  <2>3. \A i \in 1 .. (Len(t) - 1) : w[i] = IF i < p THEN t[i] ELSE t[i + 1] BY <1>1, <1>3, WithoutIs
  <2>4. Restored(u, t, k) = InsertAt(w, IF p <= Len(w) THEN p ELSE Len(w) + 1, t[p]) BY <1>3 DEF Restored
  <2> HIDE DEF p, w
  <2>5. (IF p <= Len(w) THEN p ELSE Len(w) + 1) = p BY <1>1, <2>1, <2>2
  <2>6. InsertAt(w, p, t[p]) = t BY <1>1, <2>1, <2>2, <2>3, InsertedBack
  <2> QED BY <2>4, <2>5, <2>6
<1> QED BY <1>2, <1>3

LEMMA UndoneIs ==
  ASSUME NEW kind, NEW t \in Table
  PROVE  /\ \A e \in Pairs : Restored(Recorded(kind, t, e), t, e[1]) = t
         /\ \A k : Restored(Without(t, k), t, k) = t
<1>1. ASSUME NEW e \in Pairs PROVE Restored(Recorded(kind, t, e), t, e[1]) = t
  BY WithoutRecorded, RestoredIs
<1>2. ASSUME NEW k PROVE Restored(Without(t, k), t, k) = t
  <2>1. ~Holds(Without(t, k), k) BY WithoutFits
  <2>2. Without(Without(t, k), k) = Without(t, k) BY <2>1 DEF Without
  <2> QED BY <2>2, RestoredIs
<1> QED BY <1>1, <1>2

LEMMA PrefixWithout ==
  ASSUME NEW b \in Table, NEW h \in Table, NEW k, Prefix(b, h)
  PROVE  Prefix(Without(b, k), Without(h, k))
<1>1. b \in Seq(Pairs) /\ h \in Seq(Pairs) /\ Len(b) \in Nat /\ Len(h) \in Nat BY SeqIs DEF Table
<1>2. Len(b) <= Len(h) /\ \A i \in 1 .. Len(b) : i \in 1 .. Len(h) /\ b[i] = h[i] BY <1>1 DEF Prefix
<1> DEFINE x == Without(b, k)
           y == Without(h, k)
           p == Place(h, k)
<1>3. CASE Holds(b, k)
  <2>1. Place(b, k) \in 1 .. Len(b) /\ b[Place(b, k)][1] = k BY <1>1, <1>3, PlaceIs
  <2>2. Place(b, k) \in 1 .. Len(h) /\ h[Place(b, k)][1] = k BY <1>2, <2>1
  <2>3. Holds(h, k) /\ p = Place(b, k) BY <2>2, OnlyPlace
  <2>4. Len(x) = Len(b) - 1 BY <1>1, <1>3, WithoutIs
  <2>5. \A i \in 1 .. (Len(b) - 1) : x[i] = IF i < Place(b, k) THEN b[i] ELSE b[i + 1] BY <1>1, <1>3, WithoutIs
  <2>6. Len(y) = Len(h) - 1 BY <1>1, <2>3, WithoutIs
  <2>7. \A i \in 1 .. (Len(h) - 1) : y[i] = IF i < p THEN h[i] ELSE h[i + 1] BY <1>1, <2>3, WithoutIs
  <2> HIDE DEF x, y, p
  <2>8. ASSUME NEW i \in 1 .. (Len(b) - 1) PROVE x[i] = y[i]
    <3>1. i \in 1 .. (Len(h) - 1) /\ i \in 1 .. Len(b) /\ i + 1 \in 1 .. Len(b) BY <1>1, <1>2
    <3> QED BY <1>2, <2>3, <2>5, <2>7, <3>1
  <2>9. Len(x) <= Len(y) BY <1>1, <1>2, <2>4, <2>6
  <2>10. Prefix(x, y) BY <2>4, <2>8, <2>9 DEF Prefix
  <2> QED BY <2>10 DEF x, y
<1>4. CASE ~Holds(b, k) /\ Holds(h, k)
  <2>1. p \in 1 .. Len(h) /\ h[p][1] = k BY <1>1, <1>4, PlaceIs
  <2>2. p \notin 1 .. Len(b)
    <3> SUFFICES ASSUME p \in 1 .. Len(b) PROVE FALSE OBVIOUS
    <3>1. b[p][1] = k BY <1>2, <2>1
    <3> QED BY <1>1, <1>4, <3>1, HoldsIs
  <2>3. Len(y) = Len(h) - 1 BY <1>1, <1>4, WithoutIs
  <2>4. \A i \in 1 .. (Len(h) - 1) : y[i] = IF i < p THEN h[i] ELSE h[i + 1] BY <1>1, <1>4, WithoutIs
  <2>5. x = b BY <1>4 DEF Without
  <2> HIDE DEF x, y, p
  <2>6. ASSUME NEW i \in 1 .. Len(b) PROVE b[i] = y[i]
    <3>1. i \in 1 .. (Len(h) - 1) /\ i < p BY <1>1, <1>2, <2>1, <2>2
    <3> QED BY <1>2, <2>4, <3>1
  <2>7. Len(b) <= Len(y) BY <1>1, <1>2, <2>1, <2>2, <2>3
  <2>8. Prefix(x, y) BY <2>5, <2>6, <2>7 DEF Prefix
  <2> QED BY <2>8 DEF x, y
<1>5. CASE ~Holds(b, k) /\ ~Holds(h, k) BY <1>5 DEF Without
<1> QED BY <1>3, <1>4, <1>5

-----------------------------------------------------------------------------
(* Tables gone through entry by entry.                                      *)

LEMMA FirstIs ==
  ASSUME NEW T, NEW q \in Seq(T), NEW n \in 0 .. Len(q)
  PROVE  /\ SubSeq(q, 1, n) \in Seq(T) /\ Len(SubSeq(q, 1, n)) = n
         /\ \A i \in 1 .. n : SubSeq(q, 1, n)[i] = q[i]
<1>1. Len(q) \in Nat /\ n \in Nat /\ n <= Len(q) /\ \A i \in 1 .. Len(q) : q[i] \in T OBVIOUS
<1>2. 1 \in Int /\ n \in Int /\ \A i \in 1 .. n : q[i] \in T BY <1>1
<1>3. /\ SubSeq(q, 1, n) \in Seq(T) /\ Len(SubSeq(q, 1, n)) = IF 1 <= n THEN n - 1 + 1 ELSE 0
      /\ \A i \in 1 .. n - 1 + 1 : SubSeq(q, 1, n)[i] = q[1 + i - 1]
  BY ONLY <1>2, SubSeqProperties
<1>4. \A i \in 1 .. n : i \in 1 .. n - 1 + 1 /\ 1 + i - 1 = i BY <1>1
<1>5. (IF 1 <= n THEN n - 1 + 1 ELSE 0) = n BY <1>1
<1> QED BY <1>3, <1>4, <1>5

LEMMA FirstMore ==
  ASSUME NEW T, NEW q \in Seq(T), NEW n \in 1 .. Len(q)
  PROVE  Append(SubSeq(q, 1, n - 1), q[n]) = SubSeq(q, 1, n)
<1> DEFINE u == SubSeq(q, 1, n - 1)
           v == SubSeq(q, 1, n)
<1>1. Len(q) \in Nat /\ n \in Nat /\ n - 1 \in 0 .. Len(q) /\ n \in 0 .. Len(q) /\ q[n] \in T OBVIOUS
<1>2. u \in Seq(T) /\ Len(u) = n - 1 /\ \A i \in 1 .. (n - 1) : u[i] = q[i] BY ONLY <1>1, q \in Seq(T), FirstIs
<1>3. v \in Seq(T) /\ Len(v) = n /\ \A i \in 1 .. n : v[i] = q[i] BY ONLY <1>1, q \in Seq(T), FirstIs
<1> HIDE DEF u, v
<1>4. /\ Append(u, q[n]) \in Seq(T) /\ Len(Append(u, q[n])) = Len(u) + 1
      /\ \A i \in 1 .. Len(u) : Append(u, q[n])[i] = u[i]
      /\ Append(u, q[n])[Len(u) + 1] = q[n]
  BY <1>1, <1>2
<1> DEFINE x == Append(u, q[n])
<1> HIDE DEF x
<1>5. Len(x) = Len(v) BY <1>1, <1>2, <1>3, <1>4 DEF x
<1>6. ASSUME NEW i \in 1 .. Len(x) PROVE x[i] = v[i]
  <2>1. i \in 1 .. (n - 1) \/ i = n BY <1>1, <1>3, <1>5
  <2>2. i \in 1 .. n BY <1>1, <2>1
  <2> QED BY <1>1, <1>2, <1>3, <1>4, <2>1, <2>2 DEF x
<1>7. x = v BY <1>3, <1>4, <1>5, <1>6, SeqEqual DEF x
<1> QED BY <1>7 DEF x, u, v

LEMMA FirstNone ==
  ASSUME NEW q PROVE SubSeq(q, 1, 0) = <<>>
BY SubSeqEmpty

\* What a prefix is.
LEMMA PrefixIs ==
  ASSUME NEW b \in Seq(Pairs), NEW h \in Seq(Pairs), Prefix(b, h)
  PROVE  Len(b) \in 0 .. Len(h) /\ b = SubSeq(h, 1, Len(b))
<1>1. Len(b) \in 0 .. Len(h) BY SeqIs DEF Prefix
<1> DEFINE n == Len(b)
           x == SubSeq(h, 1, n)
<1> HIDE DEF n
<1>2. x \in Seq(Pairs) /\ Len(x) = n /\ \A i \in 1 .. n : x[i] = h[i] BY <1>1, FirstIs DEF n
<1> HIDE DEF x
<1>3. b = x BY <1>2, SeqEqual DEF Prefix, n
<1> QED BY <1>1, <1>3 DEF x, n

LEMMA FirstIsPrefix ==
  ASSUME NEW h \in Table, NEW n \in 0 .. Len(h)
  PROVE  /\ SubSeq(h, 1, n) \in Table /\ Len(SubSeq(h, 1, n)) = n
         /\ Prefix(SubSeq(h, 1, n), h)
<1> DEFINE x == SubSeq(h, 1, n)
<1>1. h \in Seq(Pairs) /\ Distinct(h) /\ Len(h) \in Nat BY SeqIs DEF Table
<1>2. x \in Seq(Pairs) /\ Len(x) = n /\ \A i \in 1 .. n : x[i] = h[i] BY <1>1, FirstIs
<1>3. n \in Nat /\ n <= Len(h) /\ \A i \in 1 .. n : i \in 1 .. Len(h) BY <1>1
<1> HIDE DEF x
<1>4. Distinct(x) BY <1>1, <1>2, <1>3 DEF Distinct
<1>5. Prefix(x, h) BY <1>2, <1>3 DEF Prefix
<1> QED BY <1>2, <1>4, <1>5 DEF x, Table

\* In what the table begins with, the entries of later keys are not held.
LEMMA FirstHolds ==
  ASSUME NEW h \in Table, NEW n \in 0 .. Len(h), NEW i \in 1 .. Len(h)
  PROVE  /\ Holds(SubSeq(h, 1, n), h[i][1]) <=> i <= n
         /\ i <= n => /\ h[i] \in ToSet(SubSeq(h, 1, n))
                      /\ Place(SubSeq(h, 1, n), h[i][1]) = i
                      /\ SubSeq(h, 1, n)[i] = h[i]
<1> DEFINE x == SubSeq(h, 1, n)
           k == h[i][1]
<1>1. x \in Table /\ Len(x) = n BY FirstIsPrefix
<1>2. h \in Seq(Pairs) /\ x \in Seq(Pairs) /\ Distinct(h) BY <1>1 DEF Table
<1>3. \A j \in 1 .. n : x[j] = h[j] BY <1>2, FirstIs
<1>4. n \in Nat /\ Len(h) \in Nat /\ \A j \in 1 .. n : j \in 1 .. Len(h) BY <1>2, SeqIs
<1> HIDE DEF x
<1>5. Holds(x, k) <=> \E j \in 1 .. n : h[j][1] = k BY <1>1, <1>2, <1>3, HoldsIs
<1>6. (\E j \in 1 .. n : h[j][1] = k) <=> i \in 1 .. n BY <1>2, <1>4 DEF Distinct
<1>7. i \in 1 .. n <=> i <= n BY <1>4
<1>8. ASSUME i <= n PROVE h[i] \in ToSet(x) /\ Place(x, k) = i /\ x[i] = h[i]
  <2>1. i \in 1 .. n /\ x[i] = h[i] BY <1>3, <1>7, <1>8
  <2>2. h[i] \in ToSet(x) BY <1>1, <1>2, <2>1, ToSetIs
  <2>3. Place(x, x[i][1]) = i BY <1>1, <2>1, OnlyPlace
  <2> QED BY <2>1, <2>2, <2>3
<1> QED BY <1>5, <1>6, <1>7, <1>8 DEF x, k

\* Retaining what is in front.
LEMMA RetainFirst ==
  ASSUME NEW T, NEW q \in Seq(T), NEW kept, NEW m \in 0 .. Len(q),
         \A i \in 1 .. Len(q) : q[i] \in kept <=> i <= m
  PROVE  Retain(q, kept) = SubSeq(q, 1, m)
<1> DEFINE len == Len(q)
           To(n) == SubSeq(q, 1, IF n <= m THEN n ELSE m)
<1>1. len \in Nat /\ len \in 0 .. len /\ m \in Nat /\ m <= len OBVIOUS
<1>2. PICK g : RetainTo(q, kept, len, g) BY <1>1, RetainUpTo
<1>3. PICK f : RetainTo(q, kept, len, f) /\ Retain(q, kept) = f[len]
  BY <1>2 DEF RetainTo, Retain
<1> HIDE DEF len
<1>4. \A n \in 0 .. len : f[n] = IF n = 0 THEN <<>> ELSE IF q[n] \in kept THEN Append(f[n - 1], q[n]) ELSE f[n - 1]
  BY <1>3 DEF RetainTo
<1> DEFINE Bad == {n \in 0 .. len : f[n] # To(n)}
<1>5. Bad = {}
  <2> SUFFICES ASSUME Bad # {} PROVE FALSE OBVIOUS
  <2>1. Bad \in SUBSET Nat BY <1>1
  <2>2. PICK n \in Bad : \A j \in Bad : n <= j
    <3> HIDE DEF Bad
    <3> QED BY <2>1, Least
  <2>3. n \in Nat /\ n <= len /\ n \in 0 .. len /\ f[n] # To(n) BY <1>1
  <2>4. n # 0
    <3>1. f[0] = <<>> BY <1>1, <1>4
    <3>2. (IF 0 <= m THEN 0 ELSE m) = 0 BY <1>1
    <3>3. To(0) = <<>> BY <3>2, FirstNone
    <3> HIDE DEF To
    <3> QED BY <2>3, <3>1, <3>3
  <2>5. n - 1 \in 0 .. len /\ n - 1 \notin Bad
    <3>1. n - 1 \in Nat /\ ~(n <= n - 1) /\ n - 1 \in 0 .. len BY ONLY <1>1, <2>3, <2>4
    <3> HIDE DEF Bad
    <3> QED BY <2>2, <3>1
  <2>6. f[n - 1] = To(n - 1) BY <2>5
  <2>7. f[n] = IF q[n] \in kept THEN Append(f[n - 1], q[n]) ELSE f[n - 1] BY <1>4, <2>3, <2>4
  <2>8. n \in 1 .. Len(q) BY <1>1, <2>3, <2>4 DEF len
  <2>9. CASE n <= m
    <3>1. q[n] \in kept BY <2>8, <2>9
    <3>2. (IF n - 1 <= m THEN n - 1 ELSE m) = n - 1 /\ (IF n <= m THEN n ELSE m) = n BY <1>1, <2>3, <2>9
    <3>3. To(n - 1) = SubSeq(q, 1, n - 1) /\ To(n) = SubSeq(q, 1, n) BY <3>2
    <3>4. Append(SubSeq(q, 1, n - 1), q[n]) = SubSeq(q, 1, n) BY <2>8, FirstMore
    <3> HIDE DEF To
    <3> QED BY <2>3, <2>6, <2>7, <3>1, <3>3, <3>4
  <2>10. CASE ~(n <= m)
    <3>1. q[n] \notin kept BY <2>8, <2>10
    <3>2. (IF n - 1 <= m THEN n - 1 ELSE m) = m /\ (IF n <= m THEN n ELSE m) = m BY <1>1, <2>3, <2>10
    <3>3. To(n - 1) = To(n) BY <3>2
    <3> HIDE DEF To
    <3> QED BY <2>3, <2>6, <2>7, <3>1, <3>3
  <2> QED BY <2>9, <2>10
<1>6. f[len] = To(len) BY <1>1, <1>5
<1>7. (IF len <= m THEN len ELSE m) = m BY <1>1
<1> QED BY <1>3, <1>6, <1>7

LEMMA RetainAll ==
  ASSUME NEW t \in Seq(Pairs), NEW kept, \A i \in 1 .. Len(t) : t[i] \in kept
  PROVE  Retain(t, kept) = t
<1>1. Len(t) \in Nat /\ Len(t) \in 0 .. Len(t) /\ \A i \in 1 .. Len(t) : t[i] \in kept <=> i <= Len(t) BY SeqIs
<1>2. Retain(t, kept) = SubSeq(t, 1, Len(t)) BY <1>1, RetainFirst
<1> QED BY <1>2, SubSeqFull

LEMMA RetainNone ==
  ASSUME NEW t \in Seq(Pairs), NEW kept, \A i \in 1 .. Len(t) : t[i] \notin kept
  PROVE  Retain(t, kept) = <<>>
<1>1. Len(t) \in Nat /\ 0 \in 0 .. Len(t) /\ \A i \in 1 .. Len(t) : t[i] \in kept <=> i <= 0 BY SeqIs
<1>2. Retain(t, kept) = SubSeq(t, 1, 0) BY <1>1, RetainFirst
<1> QED BY <1>2, FirstNone

LEMMA PrefixInOrder ==
  ASSUME NEW kind, boxTables[kind] \in Table, held[kind] \in Table, Prefix(boxTables[kind], held[kind])
  PROVE  OrderedAlike(kind)
<1> DEFINE b == boxTables[kind]
           h == held[kind]
           K == RuleKeys \cup FieldPairs \cup TriggerKeys
           q == KeysOf(h)
           kept == ToSet(KeysOf(b))
           m == Len(b)
<1>1. b \in Seq(Pairs) /\ h \in Seq(Pairs) /\ Distinct(h) BY DEF Table
<1>2. Len(b) \in Nat /\ Len(h) \in Nat /\ DOMAIN b = 1 .. Len(b) /\ DOMAIN h = 1 .. Len(h) BY <1>1, SeqIs
<1>3. \A i \in 1 .. Len(h) : h[i] \in Pairs BY <1>1, SeqIs
<1>4. \A i \in 1 .. Len(h) : h[i][1] \in K BY <1>3 DEF Pairs
<1>5. q = [i \in 1 .. Len(h) |-> h[i][1]] /\ KeysOf(b) = [i \in 1 .. Len(b) |-> b[i][1]] BY <1>2 DEF KeysOf
<1>6. m <= Len(h) /\ \A i \in 1 .. m : b[i] = h[i] /\ i \in 1 .. Len(h) BY <1>2 DEF Prefix
<1> HIDE DEF K, q, kept, b, h
<1>7. q \in Seq(K) /\ Len(q) = Len(h) /\ \A i \in 1 .. Len(h) : q[i] = h[i][1] BY <1>2, <1>4, <1>5
<1>8. KeysOf(b) \in Seq(K) /\ Len(KeysOf(b)) = m /\ \A i \in 1 .. m : KeysOf(b)[i] = b[i][1]
  <2>1. \A i \in 1 .. m : b[i][1] \in K BY <1>4, <1>6
  <2> QED BY <1>2, <1>5, <2>1
<1>9. kept = {h[i][1] : i \in 1 .. m}
  <2>1. DOMAIN KeysOf(b) = 1 .. m BY <1>5
  <2>2. kept = {KeysOf(b)[i] : i \in 1 .. m} BY <2>1 DEF ToSet, kept
  <2> QED BY <1>6, <1>8, <2>2
<1>10. ASSUME NEW i \in 1 .. Len(q) PROVE q[i] \in kept <=> i <= m
  <2>1. i \in 1 .. Len(h) /\ q[i] = h[i][1] BY <1>7
  <2>2. q[i] \in kept <=> i \in 1 .. m BY <1>1, <1>6, <1>9, <2>1 DEF Distinct
  <2> QED BY <1>2, <2>1, <2>2
<1>11. m \in 0 .. Len(q) BY <1>2, <1>6, <1>7
<1> HIDE DEF m
<1>12. Retain(q, kept) = SubSeq(q, 1, m) BY <1>7, <1>10, <1>11, RetainFirst
<1>13. SubSeq(q, 1, m) \in Seq(K) /\ Len(SubSeq(q, 1, m)) = m /\ \A i \in 1 .. m : SubSeq(q, 1, m)[i] = q[i]
  BY <1>7, <1>11, FirstIs
<1>14. KeysOf(b) = SubSeq(q, 1, m)
  <2> DEFINE x == SubSeq(q, 1, m)
  <2> HIDE DEF x
  <2>1. x \in Seq(K) /\ Len(x) = m /\ \A i \in 1 .. m : x[i] = q[i] BY <1>13 DEF x
  <2>2. \A i \in 1 .. m : KeysOf(b)[i] = x[i] BY <1>6, <1>7, <1>8, <2>1
  <2>3. KeysOf(b) = x BY <1>8, <2>1, <2>2, SeqEqual
  <2> QED BY <2>3 DEF x
<1>15. KeysOf(b) = Retain(q, kept) BY <1>12, <1>14
<1> QED BY <1>15 DEF OrderedAlike, q, kept, b, h

-----------------------------------------------------------------------------
(* What the box takes of what it is sent.                                   *)

\* The tables a kind's frames are refused for, whatever they say.
Shut(kind) ==
  \/ kind = "rewrite" /\ ~allowed
  \/ kind = "transform" /\ ~up
  \/ kind = "trigger" /\ ~allowed /\ Consuming # {}

\* All packet triggers consume, or none does.
Uniform == Consuming \in {{}, Values}

LEMMA RefusesIs ==
  ASSUME Uniform, NEW kind \in Kinds, NEW t, NEW e \in Pairs
  PROVE  Refuses(kind, t, e) <=> Shut(kind) \/ (~Holds(t, e[1]) /\ Len(t) >= TableLimit)
<1>1. e[2] \in Values BY DEF Pairs
<1>2. kind = "rewrite" \/ kind = "transform" \/ kind = "trigger" BY DEF Kinds
<1>3. e[2] \in Consuming <=> Consuming # {} BY <1>1 DEF Uniform
<1>4. CASE kind = "rewrite" BY <1>4 DEF Refuses, Shut
<1>5. CASE kind = "transform" BY <1>5 DEF Refuses, Shut
<1>6. CASE kind = "trigger" BY <1>3, <1>6 DEF Refuses, Shut
<1> QED BY <1>2, <1>4, <1>5, <1>6

LEMMA TakenIs ==
  ASSUME NEW kind, NEW t, NEW e
  PROVE  Taken(kind, t, e) = IF Refuses(kind, t, e) THEN t ELSE Recorded(kind, t, e)
BY DEF Taken, Recorded

LEMMA TakenFits ==
  ASSUME Uniform, NEW kind \in Kinds, NEW t \in Table, NEW e \in Pairs, Len(t) <= TableLimit
  PROVE  /\ Taken(kind, t, e) \in Table /\ Len(Taken(kind, t, e)) <= TableLimit
         /\ Shut(kind) => Taken(kind, t, e) = t
<1>1. Len(t) \in Nat /\ TableLimit \in Nat BY SeqIs, TableLimitAssumption DEF Table
<1>2. Shut(kind) => Taken(kind, t, e) = t BY RefusesIs, TakenIs
<1>3. CASE Refuses(kind, t, e) BY <1>2, <1>3, TakenIs
<1>4. CASE ~Refuses(kind, t, e)
  <2>1. Holds(t, e[1]) \/ ~(Len(t) >= TableLimit) BY <1>4, RefusesIs
  <2>2. Taken(kind, t, e) = Recorded(kind, t, e) BY <1>4, TakenIs
  <2>3. /\ Recorded(kind, t, e) \in Table
        /\ Len(Recorded(kind, t, e)) = IF Holds(t, e[1]) THEN Len(t) ELSE Len(t) + 1
    BY RecordedFits
  <2>4. (IF Holds(t, e[1]) THEN Len(t) ELSE Len(t) + 1) <= TableLimit BY <1>1, <2>1
  <2> QED BY <1>2, <2>2, <2>3, <2>4
<1> QED BY <1>3, <1>4

\* An entry that is there is recorded where it is.
LEMMA RecordedAgain ==
  ASSUME NEW kind, NEW t \in Table, NEW i \in 1 .. Len(t)
  PROVE  Recorded(kind, t, t[i]) = t
<1>1. t \in Seq(Pairs) BY DEF Table
<1>2. t[i] \in ToSet(t) BY <1>1, ToSetIs
<1>3. Holds(t, t[i][1]) /\ Place(t, t[i][1]) = i BY OnlyPlace
<1>4. [t EXCEPT ![i] = t[i]] = t BY <1>1
<1>5. InPlace(t, t[i]) = t BY <1>3, <1>4 DEF InPlace
<1> QED BY <1>2, <1>5 DEF Recorded, AtEnd

\* The next entry of a table is recorded behind those before it, and one there already stays.
LEMMA RecordedNext ==
  ASSUME NEW kind, NEW h \in Table, NEW n \in 1 .. Len(h), NEW m \in 0 .. Len(h)
  PROVE  /\ m = n - 1 => Recorded(kind, SubSeq(h, 1, m), h[n]) = SubSeq(h, 1, n)
         /\ n <= m => Recorded(kind, SubSeq(h, 1, m), h[n]) = SubSeq(h, 1, m)
<1> DEFINE x == SubSeq(h, 1, m)
<1>1. x \in Table /\ Len(x) = m BY FirstIsPrefix
<1>2. h \in Seq(Pairs) /\ x \in Seq(Pairs) /\ Len(h) \in Nat BY <1>1, SeqIs DEF Table
<1>3. Holds(x, h[n][1]) <=> n <= m BY FirstHolds
<1>4. n <= m => x[n] = h[n] BY FirstHolds
<1>5. m = n - 1 => Append(x, h[n]) = SubSeq(h, 1, n)
  <2> SUFFICES ASSUME m = n - 1 PROVE Append(SubSeq(h, 1, n - 1), h[n]) = SubSeq(h, 1, n) OBVIOUS
  <2> QED BY <1>2, FirstMore
<1> HIDE DEF x
<1>6. CASE m = n - 1
  <2>1. ~Holds(x, h[n][1]) BY <1>2, <1>3, <1>6
  <2>2. h[n] \notin ToSet(x) BY <1>2, <2>1, ToSetIs, HoldsIs
  <2>3. Without(x, h[n][1]) = x BY <2>1 DEF Without
  <2>4. Recorded(kind, x, h[n]) = Append(x, h[n]) BY <2>1, <2>2, <2>3 DEF Recorded, AtEnd, InPlace
  <2>5. ~(n <= m) BY <1>2, <1>6
  <2> QED BY <1>5, <1>6, <2>4, <2>5 DEF x
<1>7. CASE n <= m
  <2>1. n \in 1 .. Len(x) BY <1>1, <1>2, <1>7
  <2>2. Recorded(kind, x, x[n]) = x BY <1>1, <2>1, RecordedAgain
  <2>3. m # n - 1 BY <1>2, <1>7
  <2> QED BY <1>4, <1>7, <2>2, <2>3 DEF x
<1> QED BY <1>2, <1>6, <1>7 DEF x

\* What the frames of the first entries make of the box's table.
SentTo(kind, n, f) ==
  f = [i \in 0..n |-> IF i = 0 THEN boxTables[kind] ELSE Taken(kind, f[i - 1], held[kind][i])]

LEMMA SentUpTo ==
  ASSUME NEW kind, held[kind] \in Seq(Pairs)
  PROVE  \A n \in 0..Len(held[kind]) : \E f : SentTo(kind, n, f)
<1> DEFINE Bad == {n \in 0..Len(held[kind]) : ~ \E f : SentTo(kind, n, f)}
<1>1. Len(held[kind]) \in Nat BY SeqIs
<1> SUFFICES ASSUME Bad # {} PROVE FALSE OBVIOUS
<1>2. Bad \in SUBSET Nat BY <1>1
<1>3. PICK n \in Bad : \A m \in Bad : n <= m
  <2> HIDE DEF Bad
  <2> QED BY <1>2, Least
<1>4. n \in Nat /\ n <= Len(held[kind]) BY <1>1
<1>5. n # 0
  <2>1. SentTo(kind, 0, [i \in 0..0 |-> boxTables[kind]]) BY DEF SentTo
  <2> QED BY <2>1
<1>6. n - 1 \in 0..Len(held[kind]) /\ n - 1 \notin Bad
  <2>1. n - 1 \in Nat /\ ~(n <= n - 1) /\ n - 1 \in 0..Len(held[kind]) BY ONLY <1>1, <1>4, <1>5
  <2> HIDE DEF Bad
  <2> QED BY <1>3, <2>1
<1>7. PICK f : SentTo(kind, n - 1, f) BY <1>6
<1> DEFINE newest == Taken(kind, f[n - 1], held[kind][n])
           g == [i \in 0..n |-> IF i = n THEN newest ELSE f[i]]
<1>8. SentTo(kind, n, g)
  <2> HIDE DEF newest
  <2>1. \A i \in 0..(n - 1) : g[i] = f[i] BY <1>4, <1>5
  <2>2. \A i \in 0..(n - 1) : f[i] = IF i = 0 THEN boxTables[kind] ELSE Taken(kind, f[i - 1], held[kind][i])
    BY <1>7 DEF SentTo
  <2>3. g[n] = newest BY <1>4
  <2>4. ASSUME NEW i \in 0..n
        PROVE  g[i] = IF i = 0 THEN boxTables[kind] ELSE Taken(kind, g[i - 1], held[kind][i])
    <3>1. CASE i = n
      <4>1. n - 1 \in 0..(n - 1) BY <1>4, <1>5
      <4>2. g[n - 1] = f[n - 1] BY <2>1, <4>1
      <4> HIDE DEF g
      <4> QED BY <1>5, <2>3, <3>1, <4>2 DEF newest
    <3>2. CASE i # n
      <4>1. i \in 0..(n - 1) /\ (i # 0 => i - 1 \in 0..(n - 1)) BY <1>4, <3>2
      <4> HIDE DEF g
      <4> QED BY <2>1, <2>2, <4>1
    <3> QED BY <3>1, <3>2
  <2>5. g = [i \in 0..n |-> g[i]] OBVIOUS
  <2> HIDE DEF g
  <2> QED BY <2>4, <2>5 DEF SentTo
<1> QED BY <1>3, <1>8

\* What recording the first entries makes of a table.
RerecordTo(kind, t, q, n, f) ==
  f = [i \in 0..n |-> IF i = 0 THEN t ELSE Recorded(kind, f[i - 1], q[i])]

LEMMA RerecordUpTo ==
  ASSUME NEW kind, NEW t, NEW q \in Seq(Pairs)
  PROVE  \A n \in 0..Len(q) : \E f : RerecordTo(kind, t, q, n, f)
<1> DEFINE Bad == {n \in 0..Len(q) : ~ \E f : RerecordTo(kind, t, q, n, f)}
<1>1. Len(q) \in Nat BY SeqIs
<1> SUFFICES ASSUME Bad # {} PROVE FALSE OBVIOUS
<1>2. Bad \in SUBSET Nat BY <1>1
<1>3. PICK n \in Bad : \A m \in Bad : n <= m
  <2> HIDE DEF Bad
  <2> QED BY <1>2, Least
<1>4. n \in Nat /\ n <= Len(q) BY <1>1
<1>5. n # 0
  <2>1. RerecordTo(kind, t, q, 0, [i \in 0..0 |-> t]) BY DEF RerecordTo
  <2> QED BY <2>1
<1>6. n - 1 \in 0..Len(q) /\ n - 1 \notin Bad
  <2>1. n - 1 \in Nat /\ ~(n <= n - 1) /\ n - 1 \in 0..Len(q) BY ONLY <1>1, <1>4, <1>5
  <2> HIDE DEF Bad
  <2> QED BY <1>3, <2>1
<1>7. PICK f : RerecordTo(kind, t, q, n - 1, f) BY <1>6
<1> DEFINE newest == Recorded(kind, f[n - 1], q[n])
           g == [i \in 0..n |-> IF i = n THEN newest ELSE f[i]]
<1>8. RerecordTo(kind, t, q, n, g)
  <2> HIDE DEF newest
  <2>1. \A i \in 0..(n - 1) : g[i] = f[i] BY <1>4, <1>5
  <2>2. \A i \in 0..(n - 1) : f[i] = IF i = 0 THEN t ELSE Recorded(kind, f[i - 1], q[i])
    BY <1>7 DEF RerecordTo
  <2>3. g[n] = newest BY <1>4
  <2>4. ASSUME NEW i \in 0..n
        PROVE  g[i] = IF i = 0 THEN t ELSE Recorded(kind, g[i - 1], q[i])
    <3>1. CASE i = n
      <4>1. n - 1 \in 0..(n - 1) BY <1>4, <1>5
      <4>2. g[n - 1] = f[n - 1] BY <2>1, <4>1
      <4> HIDE DEF g
      <4> QED BY <1>5, <2>3, <3>1, <4>2 DEF newest
    <3>2. CASE i # n
      <4>1. i \in 0..(n - 1) /\ (i # 0 => i - 1 \in 0..(n - 1)) BY <1>4, <3>2
      <4> HIDE DEF g
      <4> QED BY <2>1, <2>2, <4>1
    <3> QED BY <3>1, <3>2
  <2>5. g = [i \in 0..n |-> g[i]] OBVIOUS
  <2> HIDE DEF g
  <2> QED BY <2>4, <2>5 DEF RerecordTo
<1> QED BY <1>3, <1>8
LEMMA SentFits ==
  ASSUME Uniform, NEW kind \in Kinds, held[kind] \in Table, boxTables[kind] \in Table,
         Len(boxTables[kind]) <= TableLimit
  PROVE  /\ SentTable(kind) \in Table /\ Len(SentTable(kind)) <= TableLimit
         /\ Shut(kind) => SentTable(kind) = boxTables[kind]
<1> DEFINE h == held[kind]
           b == boxTables[kind]
           len == Len(h)
<1>1. h \in Seq(Pairs) BY DEF Table
<1>2. len \in Nat /\ len \in 0 .. len /\ \A i \in 1 .. len : h[i] \in Pairs BY <1>1, SeqIs
<1>3. PICK g : SentTo(kind, len, g) BY <1>1, <1>2, SentUpTo
<1>4. PICK f : SentTo(kind, len, f) /\ SentTable(kind) = f[len]
  BY <1>3 DEF SentTo, SentTable
<1>5. \A n \in 0 .. len : f[n] = IF n = 0 THEN b ELSE Taken(kind, f[n - 1], h[n])
  BY <1>4 DEF SentTo
<1> HIDE DEF len, h, b
<1> DEFINE Fits(t) == t \in Table /\ Len(t) <= TableLimit /\ (Shut(kind) => t = b)
           Bad == {n \in 0 .. len : ~Fits(f[n])}
<1>6. Bad = {}
  <2> SUFFICES ASSUME Bad # {} PROVE FALSE OBVIOUS
  <2>1. Bad \in SUBSET Nat BY <1>2
  <2>2. PICK n \in Bad : \A j \in Bad : n <= j
    <3> HIDE DEF Bad
    <3> QED BY <2>1, Least
  <2>3. n \in Nat /\ n <= len /\ n \in 0 .. len /\ ~Fits(f[n]) BY <1>2
  <2>4. n # 0
    <3>1. f[0] = b BY <1>2, <1>5
    <3>2. Fits(b) BY DEF b
    <3> HIDE DEF Fits
    <3> QED BY <2>3, <3>1, <3>2
  <2>5. n - 1 \in 0 .. len /\ n - 1 \notin Bad
    <3>1. n - 1 \in Nat /\ ~(n <= n - 1) /\ n - 1 \in 0 .. len BY ONLY <1>2, <2>3, <2>4
    <3> HIDE DEF Bad
    <3> QED BY <2>2, <3>1
  <2>6. Fits(f[n - 1]) BY <2>5
  <2>7. f[n] = Taken(kind, f[n - 1], h[n]) BY <1>5, <2>3, <2>4
  <2>8. n \in 1 .. len /\ h[n] \in Pairs
    <3>1. n \in 1 .. len BY ONLY <1>2, <2>3, <2>4
    <3> QED BY <1>2, <3>1
  <2>9. Fits(Taken(kind, f[n - 1], h[n])) BY <2>6, <2>8, TakenFits
  <2> HIDE DEF Fits
  <2> QED BY <2>3, <2>7, <2>9
<1>7. Fits(f[len])
  <2> HIDE DEF Fits
  <2> QED BY <1>2, <1>6
<1> QED BY <1>4, <1>7 DEF b

\* A box that has the beginning of the table and takes its kind is sent the rest,
\* as far as it has room.
LEMMA SentIs ==
  ASSUME Uniform, NEW kind \in Kinds, held[kind] \in Table, boxTables[kind] \in Table,
         Len(boxTables[kind]) <= TableLimit, Prefix(boxTables[kind], held[kind]), ~Shut(kind)
  PROVE  SentTable(kind) =
           SubSeq(held[kind], 1, IF Len(held[kind]) <= TableLimit THEN Len(held[kind]) ELSE TableLimit)
<1> DEFINE h == held[kind]
           b == boxTables[kind]
           len == Len(h)
           had == Len(b)
<1>1. h \in Seq(Pairs) /\ b \in Seq(Pairs) BY DEF Table
<1>2. /\ len \in Nat /\ len \in 0 .. len /\ had \in Nat /\ TableLimit \in Nat /\ had <= len /\ had <= TableLimit
      /\ \A i \in 1 .. len : h[i] \in Pairs
  BY <1>1, SeqIs, TableLimitAssumption DEF Prefix
<1>3. PICK g : SentTo(kind, len, g) BY <1>1, <1>2, SentUpTo
<1>4. PICK f : SentTo(kind, len, f) /\ SentTable(kind) = f[len]
  BY <1>3 DEF SentTo, SentTable
<1>5. \A n \in 0 .. len : f[n] = IF n = 0 THEN b ELSE Taken(kind, f[n - 1], h[n])
  BY <1>4 DEF SentTo
<1>6. b = SubSeq(h, 1, had) BY <1>1, PrefixIs
<1> DEFINE Upto(n) == IF n <= had THEN had ELSE IF n <= TableLimit THEN n ELSE TableLimit
           Bad == {n \in 0 .. len : f[n] # SubSeq(h, 1, Upto(n))}
<1>7. h \in Table OBVIOUS
<1> HIDE DEF len, had, h, b
<1>8. \A n \in 0 .. len : Upto(n) \in 0 .. len /\ Upto(n) <= TableLimit BY <1>2
<1>9. Bad = {}
  <2> SUFFICES ASSUME Bad # {} PROVE FALSE OBVIOUS
  <2>1. Bad \in SUBSET Nat BY <1>2
  <2>2. PICK n \in Bad : \A j \in Bad : n <= j
    <3> HIDE DEF Bad
    <3> QED BY <2>1, Least
  <2>3. n \in Nat /\ n <= len /\ n \in 0 .. len /\ f[n] # SubSeq(h, 1, Upto(n)) BY <1>2
  <2>4. n # 0
    <3>1. f[0] = b BY <1>2, <1>5
    <3>2. Upto(0) = had BY <1>2
    <3> HIDE DEF Upto
    <3> QED BY <1>6, <2>3, <3>1, <3>2
  <2>5. n - 1 \in 0 .. len /\ n - 1 \notin Bad
    <3>1. n - 1 \in Nat /\ ~(n <= n - 1) /\ n - 1 \in 0 .. len BY ONLY <1>2, <2>3, <2>4
    <3> HIDE DEF Bad
    <3> QED BY <2>2, <3>1
  <2>6. f[n - 1] = SubSeq(h, 1, Upto(n - 1)) BY <2>5
  <2> DEFINE m == Upto(n - 1)
             x == SubSeq(h, 1, m)
  <2>7. n \in 1 .. len /\ h[n] \in Pairs
    <3>1. n \in 1 .. len BY ONLY <1>2, <2>3, <2>4
    <3> QED BY <1>2, <3>1
  <2>8. m \in 0 .. len /\ m <= TableLimit /\ m \in Nat BY <1>8, <2>5
  <2>9. n \in 1 .. Len(h) /\ m \in 0 .. Len(h) BY <2>7, <2>8 DEF len
  <2>10. f[n] = Taken(kind, x, h[n]) BY <1>5, <2>3, <2>4, <2>6
  <2>11. Len(x) = m BY <1>7, <2>9, FirstIsPrefix
  <2>12. Holds(x, h[n][1]) <=> n <= m BY <1>7, <2>9, FirstHolds
  <2>13. Refuses(kind, x, h[n]) <=> ~(n <= m) /\ m >= TableLimit BY <2>7, <2>11, <2>12, RefusesIs
  <2>14. \/ n <= m /\ Upto(n) = m
         \/ m = n - 1 /\ ~(m >= TableLimit) /\ Upto(n) = n
         \/ ~(n <= m) /\ m >= TableLimit /\ Upto(n) = m
    BY <1>2, <2>3, <2>4
  <2>15. /\ m = n - 1 => Recorded(kind, x, h[n]) = SubSeq(h, 1, n)
         /\ n <= m => Recorded(kind, x, h[n]) = x
    <3> HIDE DEF m, Upto
    <3>1. h \in Table BY <1>7
    <3> QED BY ONLY <2>9, <3>1, RecordedNext
  <2>16. x = SubSeq(h, 1, m) OBVIOUS
  <2> HIDE DEF x, m, Upto
  <2>17. CASE n <= m /\ Upto(n) = m
    <3>1. f[n] = x BY <2>10, <2>13, <2>15, <2>17, TakenIs
    <3> QED BY <2>3, <2>16, <2>17, <3>1
  <2>18. CASE m = n - 1 /\ ~(m >= TableLimit) /\ Upto(n) = n
    <3>1. f[n] = SubSeq(h, 1, n) BY <2>10, <2>13, <2>15, <2>18, TakenIs
    <3> QED BY <2>3, <2>18, <3>1
  <2>19. CASE ~(n <= m) /\ m >= TableLimit /\ Upto(n) = m
    <3>1. f[n] = x BY <2>10, <2>13, <2>19, TakenIs
    <3> QED BY <2>3, <2>16, <2>19, <3>1
  <2> QED BY <2>14, <2>17, <2>18, <2>19
<1>10. f[len] = SubSeq(h, 1, Upto(len)) BY <1>2, <1>9
<1>11. Upto(len) = IF len <= TableLimit THEN len ELSE TableLimit BY <1>2
<1> QED BY <1>4, <1>10, <1>11 DEF h, len

\* The entries of before recorded again on nothing are what was before.
LEMMA RerecordedIs ==
  ASSUME NEW kind, NEW h \in Table
  PROVE  Rerecorded(kind, <<>>, h) = h
<1> DEFINE len == Len(h)
<1>1. h \in Seq(Pairs) BY DEF Table
<1>2. len \in Nat /\ len \in 0 .. len BY <1>1, SeqIs
<1>3. PICK g : RerecordTo(kind, <<>>, h, len, g) BY <1>1, <1>2, RerecordUpTo
<1>4. PICK f : RerecordTo(kind, <<>>, h, len, f) /\ Rerecorded(kind, <<>>, h) = f[len]
  BY <1>3 DEF RerecordTo, Rerecorded
<1>5. \A n \in 0 .. len : f[n] = IF n = 0 THEN <<>> ELSE Recorded(kind, f[n - 1], h[n])
  BY <1>4 DEF RerecordTo
<1> HIDE DEF len
<1> DEFINE Bad == {n \in 0 .. len : f[n] # SubSeq(h, 1, n)}
<1>6. Bad = {}
  <2> SUFFICES ASSUME Bad # {} PROVE FALSE OBVIOUS
  <2>1. Bad \in SUBSET Nat BY <1>2
  <2>2. PICK n \in Bad : \A j \in Bad : n <= j
    <3> HIDE DEF Bad
    <3> QED BY <2>1, Least
  <2>3. n \in Nat /\ n <= len /\ n \in 0 .. len /\ f[n] # SubSeq(h, 1, n) BY <1>2
  <2>4. n # 0
    <3>1. f[0] = <<>> BY <1>2, <1>5
    <3> QED BY <2>3, <3>1, FirstNone
  <2>5. n - 1 \in 0 .. len /\ n - 1 \notin Bad
    <3>1. n - 1 \in Nat /\ ~(n <= n - 1) /\ n - 1 \in 0 .. len BY ONLY <1>2, <2>3, <2>4
    <3> HIDE DEF Bad
    <3> QED BY <2>2, <3>1
  <2>6. f[n - 1] = SubSeq(h, 1, n - 1) BY <2>5
  <2>7. f[n] = Recorded(kind, SubSeq(h, 1, n - 1), h[n]) BY <1>5, <2>3, <2>4, <2>6
  <2>8. n \in 1 .. Len(h) /\ n - 1 \in 0 .. Len(h) BY <1>2, <2>3, <2>4, <2>5 DEF len
  <2>9. Recorded(kind, SubSeq(h, 1, n - 1), h[n]) = SubSeq(h, 1, n) BY <2>8, RecordedNext
  <2> QED BY <2>3, <2>7, <2>9
<1>7. f[len] = SubSeq(h, 1, len) BY <1>2, <1>6
<1>8. SubSeq(h, 1, len) = h BY <1>1, SubSeqFull DEF len
<1> QED BY <1>4, <1>7, <1>8

LEMMA NoneRerecorded ==
  ASSUME NEW kind, NEW t
  PROVE  Rerecorded(kind, t, <<>>) = t
<1>1. <<>> \in Seq(Pairs) /\ Len(<<>>) = 0 /\ 0 \in 0 .. 0 OBVIOUS
<1>2. PICK g : RerecordTo(kind, t, <<>>, 0, g) BY <1>1, RerecordUpTo
<1>3. PICK f : RerecordTo(kind, t, <<>>, 0, f) /\ Rerecorded(kind, t, <<>>) = f[0]
  BY <1>1, <1>2 DEF RerecordTo, Rerecorded
<1> QED BY <1>1, <1>3 DEF RerecordTo

-----------------------------------------------------------------------------
(* The invariant.                                                           *)

Differences == {"owed", "refused", "late", "orphaned"}

\* A table h of the crate and b of the box, which differ as r says.
Follows(kind, h, b, r, shut) ==
  /\ Len(b) <= TableLimit /\ (kind # "trigger" => Len(h) <= TableLimit)
  /\ r = {} => b = h
  /\ r \subseteq {"owed", "refused"} => Prefix(b, h)
  /\ shut => b = <<>> /\ (kind # "transform" => h = <<>> \/ "refused" \in r)

TablesTyped ==
  /\ held \in [Kinds -> Table] /\ boxTables \in [Kinds -> Table]
  /\ tableRift \in [Kinds -> SUBSET Differences]
  /\ allowed \in BOOLEAN /\ up \in BOOLEAN

TablesInv ==
  /\ TablesTyped
  /\ \A kind \in Kinds : Follows(kind, held[kind], boxTables[kind], tableRift[kind], Shut(kind))

LEMMA EntriesArePairs == \A kind \in Kinds : Entries(kind) \subseteq Pairs
BY DEF Kinds, Entries, Keys, Pairs

LEMMA NoneIsTable == /\ <<>> \in Table /\ Len(<<>>) = 0 /\ (\A k : Without(<<>>, k) = <<>>)
                     /\ \A h \in Table : Prefix(<<>>, h)
<1>1. <<>> \in Seq(Pairs) /\ Len(<<>>) = 0 /\ 1 .. 0 = {} OBVIOUS
<1>2. Distinct(<<>>) BY <1>1 DEF Distinct
<1>3. \A k : ~Holds(<<>>, k) BY <1>1, HoldsIs
<1>4. ASSUME NEW h \in Table PROVE Prefix(<<>>, h)
  <2>1. Len(h) \in Nat BY SeqIs DEF Table
  <2> QED BY <1>1, <2>1 DEF Prefix
<1> QED BY <1>1, <1>2, <1>3, <1>4 DEF Table, Without

LEMMA Reflexive == ASSUME NEW h \in Table PROVE Prefix(h, h)
<1>1. Len(h) \in Nat BY SeqIs DEF Table
<1> QED BY <1>1 DEF Prefix

LEMMA RoomIs == TableLimit \in Nat /\ 0 <= TableLimit
BY TableLimitAssumption

LEMMA NoneFollows == ASSUME NEW kind, NEW r, NEW shut PROVE Follows(kind, <<>>, <<>>, r, shut)
BY NoneIsTable, RoomIs DEF Follows

\* One table changes.
LEMMA OneKind ==
  ASSUME TablesInv, NEW kind \in Kinds, NEW h \in Table, NEW b \in Table, NEW r \in SUBSET Differences,
         held' = [held EXCEPT ![kind] = h], boxTables' = [boxTables EXCEPT ![kind] = b],
         tableRift' = [tableRift EXCEPT ![kind] = r], UNCHANGED <<allowed, up>>,
         Follows(kind, h, b, r, Shut(kind))
  PROVE  TablesInv'
<1>1. /\ held'[kind] = h /\ boxTables'[kind] = b /\ tableRift'[kind] = r
      /\ \A k \in Kinds : k # kind => held'[k] = held[k] /\ boxTables'[k] = boxTables[k] /\ tableRift'[k] = tableRift[k]
  BY DEF TablesInv, TablesTyped
<1>2. TablesTyped' BY DEF TablesInv, TablesTyped
<1>3. \A k \in Kinds : Shut(k)' = Shut(k) BY DEF Shut
<1>4. ASSUME NEW k \in Kinds PROVE Follows(k, held'[k], boxTables'[k], tableRift'[k], Shut(k)')
  <2>1. CASE k = kind BY <1>1, <1>3, <2>1
  <2>2. CASE k # kind BY <1>1, <1>3, <2>2 DEF TablesInv
  <2> QED BY <2>1, <2>2
<1> QED BY <1>2, <1>4 DEF TablesInv

LEMMA TablesStay ==
  ASSUME TablesInv, UNCHANGED <<held, boxTables, allowed, up, tableRift>>
  PROVE  TablesInv'
<1>1. TablesTyped' BY DEF TablesInv, TablesTyped
<1>2. \A k \in Kinds : Shut(k)' = Shut(k) BY DEF Shut
<1> QED BY <1>1, <1>2 DEF TablesInv

-----------------------------------------------------------------------------
(* A set.                                                                   *)

\* What the box lacks is recorded past what it has.
LEMMA RecordedPast ==
  ASSUME NEW kind, kind # "rewrite", NEW b \in Table, NEW h \in Table, NEW e \in Pairs,
         Prefix(b, h), ~Holds(b, e[1])
  PROVE  Prefix(b, Recorded(kind, h, e))
<1> DEFINE x == Recorded(kind, h, e)
<1>1. b \in Seq(Pairs) /\ h \in Seq(Pairs) /\ Len(b) \in Nat /\ Len(h) \in Nat BY SeqIs DEF Table
<1>2. Len(b) <= Len(h) /\ \A i \in 1 .. Len(b) : i \in 1 .. Len(h) /\ b[i] = h[i] BY <1>1 DEF Prefix
<1>3. Len(x) = IF Holds(h, e[1]) THEN Len(h) ELSE Len(h) + 1 BY RecordedFits
<1>4. ASSUME NEW i \in 1 .. Len(b) PROVE x[i] = h[i]
  <2>1. CASE Holds(h, e[1])
    <3> DEFINE p == Place(h, e[1])
    <3>1. p \in 1 .. Len(h) /\ h[p][1] = e[1] BY <1>1, <2>1, PlaceIs
    <3>2. x = [h EXCEPT ![p] = e] BY <2>1 DEF Recorded, InPlace
    <3> HIDE DEF p, x
    <3>3. \A j \in 1 .. Len(h) : x[j] = IF j = p THEN e ELSE h[j] BY <1>1, <3>1, <3>2, ExceptSeq
    <3>4. b[i][1] # e[1] BY <1>1, HoldsIs
    <3>5. i # p BY <1>2, <3>1, <3>4
    <3> QED BY <1>2, <3>3, <3>5
  <2>2. CASE ~Holds(h, e[1])
    <3>1. x = Append(h, e) BY <2>2 DEF Recorded, InPlace
    <3> HIDE DEF x
    <3> QED BY <1>1, <1>2, <3>1
  <2> QED BY <2>1, <2>2
<1> HIDE DEF x
<1>5. Len(b) <= Len(x) BY <1>1, <1>2, <1>3
<1>6. Prefix(b, x) BY <1>2, <1>4, <1>5 DEF Prefix
<1> QED BY <1>6 DEF x

LEMMA SetFollows ==
  ASSUME Uniform, TablesInv, NEW kind \in Kinds, NEW e \in Pairs, HasRoom(kind, e[1])
  PROVE  Follows(kind, Recorded(kind, held[kind], e), Taken(kind, boxTables[kind], e),
                 tableRift[kind] \cup RiftAfterSet(kind, e), Shut(kind))
<1> DEFINE h == held[kind]
           b == boxTables[kind]
           r == tableRift[kind]
           x == Recorded(kind, h, e)
           y == Taken(kind, b, e)
           s == RiftAfterSet(kind, e)
<1>1. h \in Table /\ b \in Table /\ r \in SUBSET Differences BY DEF TablesInv, TablesTyped
<1>2. Follows(kind, h, b, r, Shut(kind)) BY DEF TablesInv
<1>3. Len(h) \in Nat /\ Len(b) \in Nat /\ h \in Seq(Pairs) /\ b \in Seq(Pairs) BY <1>1, SeqIs DEF Table
<1>4. TableLimit \in Nat BY RoomIs
<1>5. x \in Table /\ Len(x) = IF Holds(h, e[1]) THEN Len(h) ELSE Len(h) + 1 BY <1>1, RecordedFits
<1>6. y \in Table /\ Len(y) <= TableLimit /\ (Shut(kind) => y = b) BY <1>1, <1>2, TakenFits DEF Follows
<1>7. Refuses(kind, b, e) <=> Shut(kind) \/ (~Holds(b, e[1]) /\ Len(b) >= TableLimit) BY RefusesIs
<1>8. y = IF Refuses(kind, b, e) THEN b ELSE Recorded(kind, b, e) BY TakenIs
<1>9. s = IF Refuses(kind, b, e) THEN IF kind = "transform" /\ ~up THEN {"owed"} ELSE {"refused"}
          ELSE IF b # h THEN {"late"} ELSE {}
  BY DEF RiftAfterSet
<1>10. kind = "transform" /\ ~up => Shut(kind) BY DEF Shut
<1>11. kind = "transform" /\ Shut(kind) => ~up BY DEF Shut
<1>12. kind # "trigger" => Holds(h, e[1]) \/ Len(h) < TableLimit BY DEF HasRoom
<1> HIDE DEF h, b, r, x, y, s
<1>13. kind # "trigger" => Len(x) <= TableLimit
  <2>1. kind # "trigger" => Len(h) <= TableLimit BY <1>2 DEF Follows
  <2> QED BY <1>3, <1>4, <1>5, <1>12, <2>1
<1>14. CASE Shut(kind)
  <2>1. y = <<>> /\ b = <<>> BY <1>2, <1>6, <1>14 DEF Follows
  <2>2. Refuses(kind, b, e) BY <1>7, <1>14
  <2>3. s = IF kind = "transform" THEN {"owed"} ELSE {"refused"} BY <1>9, <1>11, <1>14, <2>2
  <2>4. r \cup s # {} /\ (kind # "transform" => "refused" \in r \cup s) BY <2>3
  <2>5. Prefix(<<>>, x) BY <1>5, NoneIsTable
  <2> QED BY <1>6, <1>13, <2>1, <2>4, <2>5 DEF Follows, x, y, s, h, b, r
<1>15. CASE ~Shut(kind) /\ Refuses(kind, b, e)
  <2>1. ~Holds(b, e[1]) /\ Len(b) >= TableLimit BY <1>7, <1>15
  <2>2. s = {"refused"} BY <1>9, <1>10, <1>15
  <2>3. y = b BY <1>8, <1>15
  <2>4. ASSUME r \cup s \subseteq {"owed", "refused"} PROVE Prefix(b, x)
    <3>1. r \subseteq {"owed", "refused"} BY <2>4
    <3>2. Prefix(b, h) BY <1>2, <3>1 DEF Follows
    <3>3. kind = "trigger"
      <4> SUFFICES ASSUME kind # "trigger" PROVE FALSE OBVIOUS
      <4>1. Len(h) <= TableLimit BY <1>2 DEF Follows
      <4>2. Len(b) <= Len(h) BY <3>2 DEF Prefix
      <4>3. Len(b) = Len(h) /\ ~(Len(h) < TableLimit) BY <1>3, <1>4, <2>1, <4>1, <4>2
      <4>4. b = h BY <1>3, <3>2, <4>3, SeqEqual DEF Prefix
      <4> QED BY <1>12, <2>1, <4>3, <4>4
    <3> QED BY <1>1, <2>1, <3>2, <3>3, RecordedPast DEF x
  <2>5. r \cup s # {} BY <2>2
  <2> QED BY <1>6, <1>13, <1>15, <2>3, <2>4, <2>5 DEF Follows, x, y, s, h, b, r
<1>16. CASE ~Shut(kind) /\ ~Refuses(kind, b, e) /\ b # h
  <2>1. s = {"late"} BY <1>9, <1>16
  <2>2. r \cup s # {} /\ ~(r \cup s \subseteq {"owed", "refused"}) BY <2>1
  <2> QED BY <1>6, <1>13, <1>16, <2>2 DEF Follows, x, y, s, h, b, r
<1>17. CASE ~Shut(kind) /\ ~Refuses(kind, b, e) /\ b = h
  <2>1. y = x BY <1>8, <1>17 DEF x
  <2>2. Prefix(y, x) BY <1>5, <2>1, Reflexive
  <2> QED BY <1>6, <1>13, <1>17, <2>1, <2>2 DEF Follows, x, y, s, h, b, r
<1> QED BY <1>14, <1>15, <1>16, <1>17

LEMMA SetKeeps ==
  ASSUME Uniform, TablesInv, NEW kind \in Kinds, NEW e \in Entries(kind), Set(kind, e)
  PROVE  TablesInv'
<1> DEFINE h == Recorded(kind, held[kind], e)
           b == Taken(kind, boxTables[kind], e)
           r == tableRift[kind] \cup RiftAfterSet(kind, e)
<1>1. e \in Pairs BY EntriesArePairs
<1>2. held[kind] \in Table /\ boxTables[kind] \in Table /\ Len(boxTables[kind]) <= TableLimit
      /\ tableRift[kind] \in SUBSET Differences
  BY DEF TablesInv, TablesTyped, Follows
<1>3. h \in Table BY <1>1, <1>2, RecordedFits
<1>4. b \in Table BY <1>1, <1>2, TakenFits
<1>5. RiftAfterSet(kind, e) \subseteq Differences BY DEF RiftAfterSet, Differences
<1>6. r \in SUBSET Differences BY <1>2, <1>5
<1>7. /\ held' = [held EXCEPT ![kind] = h] /\ boxTables' = [boxTables EXCEPT ![kind] = b]
      /\ tableRift' = [tableRift EXCEPT ![kind] = r] /\ UNCHANGED <<allowed, up>> /\ HasRoom(kind, e[1])
  BY DEF Set
<1>8. Follows(kind, h, b, r, Shut(kind)) BY <1>1, <1>7, SetFollows
<1> HIDE DEF h, b, r
<1> QED BY <1>3, <1>4, <1>6, <1>7, <1>8, OneKind

LEMMA SetFailsStays ==
  ASSUME TablesInv, NEW kind \in Kinds, NEW e \in Entries(kind), SetFails(kind, e)
  PROVE  UNCHANGED <<held, boxTables, allowed, up, tableRift>>
<1>1. e \in Pairs BY EntriesArePairs
<1>2. held \in [Kinds -> Table] /\ held[kind] \in Table BY DEF TablesInv, TablesTyped
<1>3. Restored(Recorded(kind, held[kind], e), held[kind], e[1]) = held[kind] BY <1>1, <1>2, UndoneIs
<1>4. held' = held \/ held' = [held EXCEPT ![kind] = Restored(Recorded(kind, held[kind], e), held[kind], e[1])]
  BY DEF SetFails
<1>5. held' = held BY <1>2, <1>3, <1>4
<1> QED BY <1>5 DEF SetFails

-----------------------------------------------------------------------------
(* Removals and clears.                                                     *)

LEMMA UnsetKeeps ==
  ASSUME TablesInv, NEW kind \in Kinds, NEW k, Unset(kind, k)
  PROVE  TablesInv'
<1> DEFINE h == Without(held[kind], k)
           b == Without(boxTables[kind], k)
           r == tableRift[kind]
<1>1. held[kind] \in Table /\ boxTables[kind] \in Table /\ r \in SUBSET Differences BY DEF TablesInv, TablesTyped
<1>2. Follows(kind, held[kind], boxTables[kind], r, Shut(kind)) BY DEF TablesInv
<1>3. Len(held[kind]) \in Nat /\ Len(boxTables[kind]) \in Nat BY <1>1, SeqIs DEF Table
<1>4. h \in Table /\ Len(h) <= Len(held[kind]) /\ Len(h) \in Nat
  <2>1. h \in Table /\ Len(h) = IF Holds(held[kind], k) THEN Len(held[kind]) - 1 ELSE Len(held[kind]) BY <1>1, WithoutFits
  <2>2. Len(h) \in Nat BY <2>1, SeqIs DEF Table
  <2> QED BY <1>3, <2>1, <2>2
<1>5. b \in Table /\ Len(b) <= Len(boxTables[kind]) /\ Len(b) \in Nat
  <2>1. b \in Table /\ Len(b) = IF Holds(boxTables[kind], k) THEN Len(boxTables[kind]) - 1 ELSE Len(boxTables[kind])
    BY <1>1, WithoutFits
  <2>2. Len(b) \in Nat BY <2>1, SeqIs DEF Table
  <2> QED BY <1>3, <2>1, <2>2
<1>6. boxTables[kind] = held[kind] => b = h OBVIOUS
<1>7. Prefix(boxTables[kind], held[kind]) => Prefix(b, h) BY <1>1, PrefixWithout
<1>8. (boxTables[kind] = <<>> => b = <<>>) /\ (held[kind] = <<>> => h = <<>>) BY NoneIsTable
<1>9. /\ held' = [held EXCEPT ![kind] = h] /\ boxTables' = [boxTables EXCEPT ![kind] = b]
      /\ UNCHANGED <<allowed, up, tableRift>>
  BY DEF Unset
<1>10. tableRift' = [tableRift EXCEPT ![kind] = r] BY <1>9 DEF TablesInv, TablesTyped
<1> HIDE DEF h, b, r
<1>11. Len(b) <= TableLimit /\ (kind # "trigger" => Len(h) <= TableLimit)
  BY <1>2, <1>3, <1>4, <1>5, RoomIs DEF Follows
<1>12. Follows(kind, h, b, r, Shut(kind)) BY <1>2, <1>6, <1>7, <1>8, <1>11 DEF Follows
<1> QED BY <1>1, <1>4, <1>5, <1>9, <1>10, <1>12, OneKind

LEMMA UnsetFailsStays ==
  ASSUME TablesInv, NEW kind \in Kinds, NEW k, UnsetFails(kind, k)
  PROVE  UNCHANGED <<held, boxTables, allowed, up, tableRift>>
<1>1. held \in [Kinds -> Table] /\ held[kind] \in Table BY DEF TablesInv, TablesTyped
<1>2. Restored(Without(held[kind], k), held[kind], k) = held[kind] BY <1>1, UndoneIs
<1>3. held' = held \/ held' = [held EXCEPT ![kind] = Restored(Without(held[kind], k), held[kind], k)]
  BY DEF UnsetFails
<1>4. held' = held BY <1>1, <1>2, <1>3
<1> QED BY <1>4 DEF UnsetFails

LEMMA ClearKeeps ==
  ASSUME TablesInv, NEW kind \in Kinds, Clear(kind)
  PROVE  TablesInv'
<1>1. <<>> \in Table /\ {} \in SUBSET Differences BY NoneIsTable
<1>2. Follows(kind, <<>>, <<>>, {}, Shut(kind)) BY NoneFollows
<1>3. /\ held' = [held EXCEPT ![kind] = <<>>] /\ boxTables' = [boxTables EXCEPT ![kind] = <<>>]
      /\ tableRift' = [tableRift EXCEPT ![kind] = {}] /\ UNCHANGED <<allowed, up>>
  BY DEF Clear
<1> QED BY <1>1, <1>2, <1>3, OneKind

LEMMA ClearFailsStays ==
  ASSUME TablesInv, NEW kind \in Kinds, TableClearFails(kind)
  PROVE  UNCHANGED <<held, boxTables, allowed, up, tableRift>>
<1>1. held \in [Kinds -> Table] /\ held[kind] \in Table BY DEF TablesInv, TablesTyped
<1>2. Rerecorded(kind, <<>>, held[kind]) = held[kind] BY <1>1, RerecordedIs
<1>3. held' = held \/ held' = [held EXCEPT ![kind] = Rerecorded(kind, <<>>, held[kind])]
  BY DEF TableClearFails
<1>4. held' = held BY <1>1, <1>2, <1>3
<1> QED BY <1>4 DEF TableClearFails

-----------------------------------------------------------------------------
(* The opt-in.                                                              *)

LEMMA ConsumingGo ==
  ASSUME Uniform, NEW t \in Table
  PROVE  DropConsuming(t) = IF Consuming = {} THEN t ELSE <<>>
<1> DEFINE kept == {e \in ToSet(t) : e[2] \notin Consuming}
<1>1. t \in Seq(Pairs) BY DEF Table
<1>2. \A i \in 1 .. Len(t) : t[i][2] \in Values BY <1>1, SeqIs DEF Pairs
<1>3. \A i \in 1 .. Len(t) : t[i] \in ToSet(t) BY <1>1, ToSetIs
<1>4. DropConsuming(t) = Retain(t, kept) BY DEF DropConsuming
<1>5. \A i \in 1 .. Len(t) : t[i] \in kept <=> t[i][2] \notin Consuming BY <1>3
<1> HIDE DEF kept
<1>6. CASE Consuming = {}
  <2>1. \A i \in 1 .. Len(t) : t[i] \in kept BY <1>5, <1>6
  <2> QED BY <1>1, <1>4, <1>6, <2>1, RetainAll
<1>7. CASE Consuming # {}
  <2>1. \A i \in 1 .. Len(t) : t[i] \notin kept BY <1>2, <1>5, <1>7 DEF Uniform
  <2> QED BY <1>1, <1>4, <1>7, <2>1, RetainNone
<1> QED BY <1>6, <1>7

LEMMA DisallowKeeps ==
  ASSUME Uniform, TablesInv, Disallow
  PROVE  TablesInv'
<1>1. \A kind \in Kinds : held[kind] \in Table /\ boxTables[kind] \in Table BY DEF TablesInv, TablesTyped
<1>2. "rewrite" \in Kinds /\ "trigger" \in Kinds /\ "transform" \in Kinds BY DEF Kinds
<1>3. <<>> \in Table BY NoneIsTable
<1> DEFINE h == DropConsuming(held["trigger"])
           b == DropConsuming(boxTables["trigger"])
<1>4. h = (IF Consuming = {} THEN held["trigger"] ELSE <<>>) /\ b = (IF Consuming = {} THEN boxTables["trigger"] ELSE <<>>)
  BY <1>1, <1>2, ConsumingGo
<1>5. h \in Table /\ b \in Table BY <1>1, <1>2, <1>3, <1>4
<1>6. /\ held' = [held EXCEPT !["rewrite"] = <<>>, !["trigger"] = h]
      /\ boxTables' = [boxTables EXCEPT !["rewrite"] = <<>>, !["trigger"] = b]
      /\ tableRift' = [tableRift EXCEPT !["rewrite"] = {}] /\ allowed' = FALSE /\ up' = up
  BY <1>2 DEF Disallow, TablesInv, TablesTyped
<1> HIDE DEF h, b
<1>7. /\ held'["rewrite"] = <<>> /\ held'["trigger"] = h /\ held'["transform"] = held["transform"]
      /\ boxTables'["rewrite"] = <<>> /\ boxTables'["trigger"] = b /\ boxTables'["transform"] = boxTables["transform"]
      /\ tableRift'["trigger"] = tableRift["trigger"] /\ tableRift'["transform"] = tableRift["transform"]
  BY <1>2, <1>6 DEF TablesInv, TablesTyped
<1>8. held' \in [Kinds -> Table] BY <1>3, <1>5, <1>6 DEF TablesInv, TablesTyped
<1>9. boxTables' \in [Kinds -> Table] BY <1>3, <1>5, <1>6 DEF TablesInv, TablesTyped
<1>10. tableRift' \in [Kinds -> SUBSET Differences] BY <1>6 DEF TablesInv, TablesTyped
<1>11. TablesTyped' BY <1>6, <1>8, <1>9, <1>10 DEF TablesTyped, TablesInv
<1>12. ASSUME NEW kind \in Kinds PROVE Follows(kind, held'[kind], boxTables'[kind], tableRift'[kind], Shut(kind)')
  <2>1. CASE kind = "rewrite" BY <1>7, <2>1, NoneFollows
  <2>2. CASE kind = "transform"
    <3>1. Shut("transform")' = Shut("transform") BY <1>6 DEF Shut
    <3>2. Follows("transform", held["transform"], boxTables["transform"], tableRift["transform"], Shut("transform"))
      BY <1>2 DEF TablesInv
    <3> QED BY <1>7, <2>2, <3>1, <3>2
  <2>3. CASE kind = "trigger" /\ Consuming # {} BY <1>4, <1>7, <2>3, NoneFollows
  <2>4. CASE kind = "trigger" /\ Consuming = {}
    <3>1. ~Shut("trigger")' /\ ~Shut("trigger") BY <2>4 DEF Shut
    <3>2. Follows("trigger", held["trigger"], boxTables["trigger"], tableRift["trigger"], Shut("trigger"))
      BY <1>2 DEF TablesInv
    <3>3. /\ held'["trigger"] = held["trigger"] /\ boxTables'["trigger"] = boxTables["trigger"]
          /\ tableRift'["trigger"] = tableRift["trigger"]
      BY <1>4, <1>7, <2>4
    <3>4. Shut("trigger")' <=> Shut("trigger") BY <3>1
    <3>5. Follows("trigger", held'["trigger"], boxTables'["trigger"], tableRift'["trigger"], Shut("trigger"))
      BY <3>2, <3>3
    <3> HIDE DEF Shut
    <3>6. Follows("trigger", held'["trigger"], boxTables'["trigger"], tableRift'["trigger"], Shut("trigger")')
      BY ONLY <3>4, <3>5 DEF Follows
    <3> QED BY <2>4, <3>6
  <2> QED BY <2>1, <2>2, <2>3, <2>4 DEF Kinds
<1> QED BY <1>11, <1>12 DEF TablesInv

LEMMA DisallowFailsStays ==
  ASSUME Uniform, TablesInv, DisallowFails
  PROVE  UNCHANGED <<held, boxTables, allowed, up, tableRift>>
<1> DEFINE q == held["rewrite"]
           t == held["trigger"]
           going == {e \in ToSet(t) : e[2] \in Consuming}
           consuming == Retain(t, going)
<1>1. q \in Table /\ t \in Table /\ held \in [Kinds -> Table] BY DEF TablesInv, TablesTyped, Kinds
<1>2. t \in Seq(Pairs) BY <1>1 DEF Table
<1>3. \A i \in 1 .. Len(t) : t[i][2] \in Values /\ t[i] \in ToSet(t) BY <1>2, SeqIs, ToSetIs DEF Pairs
<1>4. \A i \in 1 .. Len(t) : t[i] \in going <=> t[i][2] \in Consuming BY <1>3
<1>5. held' = [held EXCEPT !["rewrite"] = Rerecorded("rewrite", <<>>, q),
                           !["trigger"] = Rerecorded("trigger", DropConsuming(t), consuming)]
  BY <1>1 DEF DisallowFails, Kinds
<1>6. Rerecorded("rewrite", <<>>, q) = q BY <1>1, RerecordedIs
<1>7. Rerecorded("trigger", DropConsuming(t), consuming) = t
  <2>1. DropConsuming(t) = IF Consuming = {} THEN t ELSE <<>> BY <1>1, ConsumingGo
  <2> HIDE DEF going, t
  <2>2. CASE Consuming = {}
    <3>1. \A i \in 1 .. Len(t) : t[i] \notin going BY <1>4, <2>2
    <3>2. consuming = <<>> BY <1>2, <3>1, RetainNone
    <3> QED BY <2>1, <2>2, <3>2, NoneRerecorded
  <2>3. CASE Consuming # {}
    <3>1. \A i \in 1 .. Len(t) : t[i] \in going BY <1>3, <1>4, <2>3 DEF Uniform
    <3>2. consuming = t BY <1>2, <3>1, RetainAll
    <3> QED BY <1>1, <2>1, <2>3, <3>2, RerecordedIs
  <2> QED BY <2>2, <2>3
<1>8. held' = [held EXCEPT !["rewrite"] = q, !["trigger"] = t]
  <2> HIDE DEF q, t, consuming
  <2> QED BY <1>5, <1>6, <1>7
<1>9. held' = held BY <1>1, <1>8
<1> QED BY <1>9 DEF DisallowFails

LEMMA AllowKeeps == ASSUME TablesInv, Allow PROVE TablesInv'
<1>1. UNCHANGED <<held, boxTables, up, tableRift>> /\ allowed' = TRUE BY DEF Allow
<1>2. TablesTyped' BY <1>1 DEF TablesInv, TablesTyped
<1>3. \A kind \in Kinds : Shut(kind)' => Shut(kind) BY <1>1 DEF Shut
<1>4. ASSUME NEW kind \in Kinds PROVE Follows(kind, held'[kind], boxTables'[kind], tableRift'[kind], Shut(kind)')
  <2>1. Follows(kind, held[kind], boxTables[kind], tableRift[kind], Shut(kind)) BY DEF TablesInv
  <2> QED BY <1>1, <1>3, <2>1 DEF Follows
<1> QED BY <1>2, <1>4 DEF TablesInv

LEMMA TableCloneUpKeeps == ASSUME TablesInv, CloneUp PROVE TablesInv'
<1>1. UNCHANGED <<held, boxTables, allowed, tableRift>> /\ up' = TRUE BY DEF CloneUp
<1>2. TablesTyped' BY <1>1 DEF TablesInv, TablesTyped
<1>3. \A kind \in Kinds : Shut(kind)' => Shut(kind) BY <1>1 DEF Shut
<1>4. ASSUME NEW kind \in Kinds PROVE Follows(kind, held'[kind], boxTables'[kind], tableRift'[kind], Shut(kind)')
  <2>1. Follows(kind, held[kind], boxTables[kind], tableRift[kind], Shut(kind)) BY DEF TablesInv
  <2> QED BY <1>1, <1>3, <2>1 DEF Follows
<1> QED BY <1>2, <1>4 DEF TablesInv

-----------------------------------------------------------------------------
(* Resets and releases.                                                     *)

LEMMA EmptiedIs == Emptied \in [Kinds -> Table] /\ \A kind \in Kinds : Emptied[kind] = <<>>
BY NoneIsTable DEF Emptied

LEMMA TablesResetKeep == ASSUME TablesInv, TablesReset PROVE TablesInv'
<1>1. held' = Emptied /\ boxTables' = Emptied /\ tableRift' = [kind \in Kinds |-> {}] /\ UNCHANGED <<allowed, up>>
  BY DEF TablesReset
<1>2. TablesTyped' BY <1>1, EmptiedIs DEF TablesInv, TablesTyped
<1>3. ASSUME NEW kind \in Kinds PROVE Follows(kind, held'[kind], boxTables'[kind], tableRift'[kind], Shut(kind)')
  BY <1>1, EmptiedIs, NoneFollows
<1> QED BY <1>2, <1>3 DEF TablesInv

LEMMA TablesResetFailsKeep == ASSUME TablesInv, TablesResetFails PROVE TablesInv'
<1>1. /\ held' = Emptied /\ boxTables' = boxTables /\ tableRift' = [kind \in Kinds |-> {"orphaned"}]
      /\ UNCHANGED <<allowed, up>>
  BY DEF TablesResetFails
<1>2. TablesTyped' BY <1>1, EmptiedIs DEF TablesInv, TablesTyped, Differences
<1>3. ASSUME NEW kind \in Kinds PROVE Follows(kind, held'[kind], boxTables'[kind], tableRift'[kind], Shut(kind)')
  <2>1. Follows(kind, held[kind], boxTables[kind], tableRift[kind], Shut(kind)) BY DEF TablesInv
  <2>2. held'[kind] = <<>> /\ boxTables'[kind] = boxTables[kind] /\ tableRift'[kind] = {"orphaned"}
    BY <1>1, EmptiedIs
  <2>3. Shut(kind)' = Shut(kind) BY <1>1 DEF Shut
  <2>4. {"orphaned"} # {} /\ ~({"orphaned"} \subseteq {"owed", "refused"}) OBVIOUS
  <2> QED BY <2>1, <2>2, <2>3, <2>4, NoneIsTable, RoomIs DEF Follows
<1> QED BY <1>2, <1>3 DEF TablesInv

LEMMA TablesReleasedKeep == ASSUME TablesInv, TablesReleased PROVE TablesInv'
<1>1. /\ held' = held /\ boxTables' = Emptied /\ allowed' = allowed /\ up' \in BOOLEAN
      /\ tableRift' = [kind \in Kinds |-> (tableRift[kind] \cap {"refused"}) \cup {"owed"}]
  BY DEF TablesReleased
<1>2. tableRift' \in [Kinds -> SUBSET Differences] BY <1>1 DEF Differences
<1>3. TablesTyped' BY <1>1, <1>2, EmptiedIs DEF TablesInv, TablesTyped
<1>4. ASSUME NEW kind \in Kinds PROVE Follows(kind, held'[kind], boxTables'[kind], tableRift'[kind], Shut(kind)')
  <2>1. Follows(kind, held[kind], boxTables[kind], tableRift[kind], Shut(kind)) BY DEF TablesInv
  <2>2. /\ held'[kind] = held[kind] /\ boxTables'[kind] = <<>>
        /\ tableRift'[kind] = (tableRift[kind] \cap {"refused"}) \cup {"owed"}
    BY <1>1, EmptiedIs
  <2>3. kind # "transform" => (Shut(kind)' => Shut(kind)) BY <1>1 DEF Shut
  <2>4. tableRift'[kind] # {} /\ ("refused" \in tableRift[kind] => "refused" \in tableRift'[kind]) BY <2>2
  <2>5. Prefix(<<>>, held[kind]) BY NoneIsTable DEF TablesInv, TablesTyped
  <2>6. Len(<<>>) <= TableLimit BY NoneIsTable, RoomIs
  <2> QED BY <2>1, <2>2, <2>3, <2>4, <2>5, <2>6 DEF Follows
<1> QED BY <1>3, <1>4 DEF TablesInv

-----------------------------------------------------------------------------
(* The table sent again.                                                    *)

LEMMA SendFollows ==
  ASSUME Uniform, TablesInv, NEW kind \in Kinds
  PROVE  /\ SentTable(kind) \in Table
         /\ Follows(kind, held[kind], SentTable(kind),
              IF kind = "transform" => up THEN RiftAfterSend(kind) ELSE tableRift[kind], Shut(kind))
<1> DEFINE h == held[kind]
           b == boxTables[kind]
           r == tableRift[kind]
           y == SentTable(kind)
           s == RiftAfterSend(kind)
<1>1. h \in Table /\ b \in Table /\ r \in SUBSET Differences BY DEF TablesInv, TablesTyped
<1>2. Follows(kind, h, b, r, Shut(kind)) BY DEF TablesInv
<1>3. y \in Table /\ Len(y) <= TableLimit /\ (Shut(kind) => y = b) BY <1>1, <1>2, SentFits DEF Follows
<1>4. Len(h) \in Nat /\ TableLimit \in Nat BY <1>1, SeqIs, RoomIs DEF Table
<1>5. s = (r \ {"owed"}) \cup (IF Len(h) > TableLimit THEN {"refused"} ELSE {}) BY DEF RiftAfterSend
<1>6. ~Shut(kind) /\ Prefix(b, h) => y = SubSeq(h, 1, IF Len(h) <= TableLimit THEN Len(h) ELSE TableLimit)
  BY <1>1, <1>2, SentIs DEF Follows
<1>7. kind = "transform" => (Shut(kind) <=> ~up) BY DEF Shut
<1> HIDE DEF h, b, r, y, s
<1>8. CASE kind = "transform" /\ ~up
  <2>1. y = b BY <1>3, <1>7, <1>8
  <2> QED BY <1>2, <1>3, <1>8, <2>1 DEF h, b, r, y, s
<1>9. CASE (kind = "transform" => up) /\ Shut(kind)
  <2>1. kind # "transform" /\ y = <<>> /\ b = <<>> /\ (h = <<>> \/ "refused" \in r) BY <1>2, <1>3, <1>7, <1>9 DEF Follows
  <2>2. "refused" \in r => "refused" \in s /\ s # {} BY <1>5
  <2>3. Prefix(<<>>, h) BY <1>1, NoneIsTable
  <2>4. kind # "trigger" => Len(h) <= TableLimit BY <1>2 DEF Follows
  <2>5. Follows(kind, h, y, s, Shut(kind)) BY <1>3, <2>1, <2>2, <2>3, <2>4 DEF Follows
  <2> QED BY <1>3, <1>9, <2>5 DEF h, b, r, y, s
<1>10. CASE (kind = "transform" => up) /\ ~Shut(kind)
  <2> DEFINE n == IF Len(h) <= TableLimit THEN Len(h) ELSE TableLimit
  <2>1. n \in 0 .. Len(h) BY <1>4
  <2>2. s \subseteq {"owed", "refused"} => r \subseteq {"owed", "refused"} BY <1>5
  <2>3. s = {} => r \subseteq {"owed", "refused"} /\ Len(h) <= TableLimit BY <1>4, <1>5
  <2>4. r \subseteq {"owed", "refused"} => y = SubSeq(h, 1, n) BY <1>2, <1>6, <1>10 DEF Follows
  <2>5. Prefix(SubSeq(h, 1, n), h)
    <3> HIDE DEF n
    <3> QED BY <1>1, <2>1, FirstIsPrefix
  <2>6. SubSeq(h, 1, Len(h)) = h BY <1>1, SubSeqFull DEF Table
  <2>7. Len(h) <= TableLimit => n = Len(h) OBVIOUS
  <2> HIDE DEF n
  <2>8. s = {} => y = h BY <2>3, <2>4, <2>6, <2>7
  <2>9. s \subseteq {"owed", "refused"} => Prefix(y, h) BY <2>2, <2>4, <2>5
  <2>10. kind # "trigger" => Len(h) <= TableLimit BY <1>2 DEF Follows
  <2>11. Follows(kind, h, y, s, Shut(kind)) BY <1>3, <1>10, <2>8, <2>9, <2>10 DEF Follows
  <2> QED BY <1>3, <1>10, <2>11 DEF h, b, r, y, s
<1> QED BY <1>8, <1>9, <1>10

LEMMA RiftsSent == ASSUME TablesInv, NEW kind \in Kinds PROVE RiftAfterSend(kind) \in SUBSET Differences
BY DEF RiftAfterSend, TablesInv, TablesTyped, Differences

LEMMA ResentKeeps ==
  ASSUME Uniform, TablesInv, NEW kinds, Resent(kinds), UNCHANGED <<held, allowed, up>>
  PROVE  TablesInv'
<1>1. /\ boxTables' = [kind \in Kinds |-> IF kind \in kinds THEN SentTable(kind) ELSE boxTables[kind]]
      /\ tableRift' = [kind \in Kinds |->
           IF kind \in kinds /\ (kind = "transform" => up) THEN RiftAfterSend(kind) ELSE tableRift[kind]]
  BY DEF Resent
<1>2. boxTables' \in [Kinds -> Table] BY <1>1, SendFollows DEF TablesInv, TablesTyped
<1>3. tableRift' \in [Kinds -> SUBSET Differences] BY <1>1, RiftsSent DEF TablesInv, TablesTyped
<1>4. TablesTyped' BY <1>2, <1>3 DEF TablesInv, TablesTyped
<1>5. ASSUME NEW kind \in Kinds PROVE Follows(kind, held'[kind], boxTables'[kind], tableRift'[kind], Shut(kind)')
  <2>1. Follows(kind, held[kind], boxTables[kind], tableRift[kind], Shut(kind)) BY DEF TablesInv
  <2>2. Follows(kind, held[kind], SentTable(kind),
          IF kind = "transform" => up THEN RiftAfterSend(kind) ELSE tableRift[kind], Shut(kind))
    BY SendFollows
  <2>3. Shut(kind)' = Shut(kind) BY DEF Shut
  <2>4. CASE kind \in kinds
    <3>1. /\ boxTables'[kind] = SentTable(kind)
          /\ tableRift'[kind] = IF kind = "transform" => up THEN RiftAfterSend(kind) ELSE tableRift[kind]
      BY <1>1, <2>4
    <3> QED BY <2>2, <2>3, <3>1
  <2>5. CASE kind \notin kinds
    <3>1. boxTables'[kind] = boxTables[kind] /\ tableRift'[kind] = tableRift[kind] BY <1>1, <2>5
    <3> QED BY <2>1, <2>3, <3>1
  <2> QED BY <2>4, <2>5
<1> QED BY <1>4, <1>5 DEF TablesInv

LEMMA ReconnectKeeps == ASSUME Uniform, TablesInv, Reconnect PROVE TablesInv'
<1>1. held' = held \/ held' = [held EXCEPT !["trigger"] = boxTables["trigger"]] BY DEF Reconnect
<1>2. /\ boxTables' = [boxTables EXCEPT !["rewrite"] = SentTable("rewrite"), !["transform"] = SentTable("transform")]
      /\ tableRift' = [kind \in Kinds |->
           IF kind = "trigger" THEN IF held' = held THEN tableRift[kind] ELSE {}
           ELSE IF kind = "transform" /\ ~up THEN tableRift[kind] ELSE RiftAfterSend(kind)]
      /\ UNCHANGED <<allowed, up>>
  BY DEF Reconnect
<1>3. "rewrite" \in Kinds /\ "trigger" \in Kinds /\ "transform" \in Kinds BY DEF Kinds
<1>4. held \in [Kinds -> Table] /\ boxTables \in [Kinds -> Table] /\ tableRift \in [Kinds -> SUBSET Differences]
  BY DEF TablesInv, TablesTyped
<1>5. held' \in [Kinds -> Table] BY <1>1, <1>3, <1>4
<1>6. SentTable("rewrite") \in Table /\ SentTable("transform") \in Table BY <1>3, SendFollows
<1>7. boxTables' \in [Kinds -> Table] BY <1>2, <1>4, <1>6
<1>8. tableRift' \in [Kinds -> SUBSET Differences]
  <2>1. \A kind \in Kinds : RiftAfterSend(kind) \in SUBSET Differences BY RiftsSent
  <2> QED BY <1>2, <1>4, <2>1
<1>9. TablesTyped' BY <1>2, <1>5, <1>7, <1>8 DEF TablesInv, TablesTyped
<1>10. ASSUME NEW kind \in Kinds PROVE Follows(kind, held'[kind], boxTables'[kind], tableRift'[kind], Shut(kind)')
  <2>1. Follows(kind, held[kind], boxTables[kind], tableRift[kind], Shut(kind)) BY DEF TablesInv
  <2>2. Follows(kind, held[kind], SentTable(kind),
          IF kind = "transform" => up THEN RiftAfterSend(kind) ELSE tableRift[kind], Shut(kind))
    BY SendFollows
  <2>3. Shut(kind)' = Shut(kind) BY <1>2 DEF Shut
  <2>4. CASE kind = "trigger" /\ held' = held
    <3>1. boxTables'[kind] = boxTables[kind] /\ tableRift'[kind] = tableRift[kind] /\ held'[kind] = held[kind]
      BY <1>2, <1>4, <2>4
    <3> QED BY <2>1, <2>3, <3>1
  <2>5. CASE kind = "trigger" /\ held' # held
    <3> DEFINE b == boxTables["trigger"]
    <3>1. boxTables'[kind] = b /\ tableRift'[kind] = {} /\ held'[kind] = b
      BY <1>1, <1>2, <1>3, <1>4, <2>5
    <3>2. b \in Table BY <1>3, <1>4
    <3>3. Prefix(b, b) BY <3>2, Reflexive
    <3>4. Follows(kind, b, b, {}, Shut(kind)) BY <2>1, <2>5, <3>3 DEF Follows
    <3> HIDE DEF b
    <3> QED BY <2>3, <3>1, <3>4
  <2>6. CASE kind # "trigger"
    <3>1. held'[kind] = held[kind] BY <1>1, <1>4, <2>6
    <3>2. boxTables'[kind] = SentTable(kind) BY <1>2, <1>4, <2>6 DEF Kinds
    <3>3. tableRift'[kind] = IF kind = "transform" => up THEN RiftAfterSend(kind) ELSE tableRift[kind]
      BY <1>2, <2>6
    <3> QED BY <2>2, <2>3, <3>1, <3>2, <3>3
  <2> QED BY <2>4, <2>5, <2>6
<1> QED BY <1>9, <1>10 DEF TablesInv

-----------------------------------------------------------------------------
(* Every step.                                                              *)

LEMMA TablesStart == ASSUME TablesInit PROVE TablesInv
<1>1. TablesTyped BY EmptiedIs DEF TablesInit, TablesTyped
<1>2. ASSUME NEW kind \in Kinds PROVE Follows(kind, held[kind], boxTables[kind], tableRift[kind], Shut(kind))
  BY EmptiedIs, NoneFollows DEF TablesInit
<1> QED BY <1>1, <1>2 DEF TablesInv

LEMMA TablesStep == ASSUME Uniform, TablesInv, [TablesNext]_tableVars PROVE TablesInv'
<1>1. ASSUME RequireImperfect PROVE TablesInv' BY <1>1, TablesStay DEF RequireImperfect
<1>2. ASSUME NEW kind \in Kinds, NEW e \in Entries(kind), Set(kind, e) PROVE TablesInv' BY <1>2, SetKeeps
<1>3. ASSUME NEW kind \in Kinds, NEW e \in Entries(kind), SetFails(kind, e) PROVE TablesInv'
  BY <1>3, SetFailsStays, TablesStay
<1>4. ASSUME NEW kind \in Kinds, NEW k \in Keys[kind], Unset(kind, k) PROVE TablesInv' BY <1>4, UnsetKeeps
<1>5. ASSUME NEW kind \in Kinds, NEW k \in Keys[kind], UnsetFails(kind, k) PROVE TablesInv'
  BY <1>5, UnsetFailsStays, TablesStay
<1>6. ASSUME NEW kind \in Kinds, Clear(kind) PROVE TablesInv' BY <1>6, ClearKeeps
<1>7. ASSUME NEW kind \in Kinds, TableClearFails(kind) PROVE TablesInv' BY <1>7, ClearFailsStays, TablesStay
<1>8. ASSUME Disallow PROVE TablesInv' BY <1>8, DisallowKeeps
<1>9. ASSUME DisallowFails PROVE TablesInv' BY <1>9, DisallowFailsStays, TablesStay
<1>10. ASSUME Tick PROVE TablesInv' BY <1>10, ResentKeeps DEF Tick
<1>11. ASSUME Recover PROVE TablesInv' BY <1>11, ResentKeeps DEF Recover
<1>12. ASSUME UNCHANGED tableVars PROVE TablesInv' BY <1>12, TablesStay DEF tableVars
<1> QED BY <1>1, <1>2, <1>3, <1>4, <1>5, <1>6, <1>7, <1>8, <1>9, <1>10, <1>11, <1>12, AllowKeeps, TablesResetKeep,
           TablesResetFailsKeep, TablesReleasedKeep, TableCloneUpKeeps, ReconnectKeeps DEF TablesNext

(* The ordered tables of the crate are those of the box, entry for entry and in
   order, once the box has been sent all of them; while it is owed some or has
   refused some, what it does hold is what the crate's table begins with
   (DesiredState, reconcile.rs:168-180; reapply_locked, reconnect.rs:294-339). For
   any keys, values and room, whatever is set, removed, undone, released and sent
   again, as long as either all packet triggers consume or none does. *)
THEOREM InStepCorrect ==
  ASSUME Uniform
  PROVE  TablesSpec => []InStep
<1>1. TablesInv => InStep
  <2> SUFFICES ASSUME TablesInv, NEW kind \in Kinds
               PROVE  /\ kind # "trigger" => Len(held[kind]) <= TableLimit
                      /\ tableRift[kind] = {} => boxTables[kind] = held[kind]
                      /\ tableRift[kind] \subseteq {"owed", "refused"} => OrderedAlike(kind)
    BY DEF InStep
  <2>1. held[kind] \in Table /\ boxTables[kind] \in Table BY DEF TablesInv, TablesTyped
  <2>2. Follows(kind, held[kind], boxTables[kind], tableRift[kind], Shut(kind)) BY DEF TablesInv
  <2>3. Prefix(boxTables[kind], held[kind]) => OrderedAlike(kind) BY <2>1, PrefixInOrder
  <2> QED BY <2>2, <2>3 DEF Follows
<1>2. TablesInit => TablesInv BY TablesStart
<1>3. TablesInv /\ [TablesNext]_tableVars => TablesInv' BY TablesStep
<1> QED BY <1>1, <1>2, <1>3, PTL DEF TablesSpec


(* A call whose frame was never sent leaves the crate's tables as they were: an entry
   overwritten or removed is back at its place, a cleared table is recorded again in its
   order (restore_rewrite and its like, reconcile.rs:513-533; a failed opt-out,
   options.rs:56-76, as long as either all packet triggers consume or none does). *)
THEOREM RollbackCorrect ==
  ASSUME Uniform
  PROVE  TablesSpec => RollbackIsExact
<1>1. ASSUME TablesInv, [TablesNext]_tableVars, tableFailures' # tableFailures PROVE UNCHANGED held
  <2>1. ASSUME NEW kind \in Kinds, NEW e \in Entries(kind), SetFails(kind, e) PROVE UNCHANGED held
    BY <1>1, <2>1, SetFailsStays
  <2>2. ASSUME NEW kind \in Kinds, NEW k \in Keys[kind], UnsetFails(kind, k) PROVE UNCHANGED held
    BY <1>1, <2>2, UnsetFailsStays
  <2>3. ASSUME NEW kind \in Kinds, TableClearFails(kind) PROVE UNCHANGED held BY <1>1, <2>3, ClearFailsStays
  <2>4. ASSUME DisallowFails PROVE UNCHANGED held BY <1>1, <2>4, DisallowFailsStays
  <2>5. ASSUME NEW kind \in Kinds, NEW e \in Entries(kind), Set(kind, e) PROVE FALSE
    BY <1>1, <2>5 DEF Set, TableCall
  <2>6. ASSUME NEW kind \in Kinds, NEW k \in Keys[kind], Unset(kind, k) PROVE FALSE
    BY <1>1, <2>6 DEF Unset, TableCall
  <2>7. ASSUME NEW kind \in Kinds, Clear(kind) PROVE FALSE BY <1>1, <2>7 DEF Clear, TableCall
  <2>8. ~Disallow /\ ~Allow /\ ~TablesReset /\ ~TablesResetFails
    BY <1>1 DEF Disallow, Allow, TablesReset, TablesResetFails, TableCall
  <2>9. ~RequireImperfect /\ ~TablesReleased /\ ~CloneUp /\ ~Tick /\ ~Recover /\ ~Reconnect
    BY <1>1 DEF RequireImperfect, TablesReleased, CloneUp, Tick, Recover, Reconnect, tableBounds
  <2>10. ~UNCHANGED tableVars BY <1>1 DEF tableVars
  <2> QED BY <1>1, <2>1, <2>2, <2>3, <2>4, <2>5, <2>6, <2>7, <2>8, <2>9, <2>10 DEF TablesNext
<1>2. TablesInit => TablesInv BY TablesStart
<1>3. TablesInv /\ [TablesNext]_tableVars => TablesInv' BY TablesStep
<1>4. TablesInv /\ [TablesNext]_tableVars => [tableFailures' # tableFailures => UNCHANGED held]_tableVars BY <1>1
<1> QED BY <1>2, <1>3, <1>4, PTL DEF TablesSpec, RollbackIsExact
=============================================================================
