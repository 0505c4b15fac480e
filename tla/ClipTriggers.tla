---------------------------- MODULE ClipTriggers ----------------------------
(***************************************************************************)
(* Packet triggers: bind_packet, unbind_packet and clear_triggers          *)
(* (src/src/device/clip.rs) against the box's table of them and what it    *)
(* does with a packet (PacketTriggers in src/src/mock/mod.rs).  A byte is  *)
(* the set of its bits.                                                    *)
(***************************************************************************)
EXTENDS Retain, FiniteSets, SequencesExt

CONSTANTS
  Triggers,     \* the triggers there are, and
  Offered(_),   \* which of them a caller may bind, by what it has recorded
  Packets,      \* the packets that may cross
  MatchMax,     \* PKT_MATCH_MAX
  TrigMax,      \* CLIP_PKT_TRIG_MAX
  PoolMax,      \* CLIP_PKT_MATCH_POOL
  MaxPackets    \* a bound on the packets

ASSUME LimitAssumption == {MatchMax, TrigMax, PoolMax, MaxPackets} \subseteq Nat \ {0}
\* pkt_match_score has room below the rank of an id for the bits of a whole mask.
ASSUME ScoreAssumption == MatchMax * 8 < 10000
ASSUME TriggerAssumption ==
  \A t \in Triggers : t.slen \in Nat /\ {t.match, t.mask} \subseteq Seq(SUBSET (0..7))
\* A packet crosses one way.
ASSUME PacketAssumption == \A p \in Packets : p.dir \in {"IN", "OUT"}

VARIABLES
  rows,       \* the box's triggers, with whether each run is on
  imperfect,  \* the box: imperfect clones are allowed
  recorded,   \* the crate's clip.packet_triggers
  refusal,    \* history: why the box refused a bind
  acted,      \* history: the rows that acted in the run they are in
  twice,      \* history: a row acted twice in one run
  crossed     \* the packets so far

triggerVars == <<rows, imperfect, recorded, refusal, acted, twice, crossed>>

AnyId == 0
Surfaces == {"HidIn", "HidOut", "Vendor", "Control", "Emit"}

\* The key a trigger is held by.
Key(t) == <<t.class, t.id, t.dir, t.match, t.mask>>

-----------------------------------------------------------------------------
(* What the crate refuses before anything is sent.                          *)

class_carries(class, dir) ==
  CASE class \in {"HidIn", "Emit"} -> dir = "IN"
    [] class = "HidOut" -> dir = "OUT"
    [] class \in {"Vendor", "Control"} -> dir \in {"IN", "OUT"}
    [] class \in {"Bus", "ClipTransfer"} -> FALSE

BitsInMask(t) == \A i \in DOMAIN t.match : t.match[i] \subseteq t.mask[i]

validate_packet_key(t) ==
  /\ t.class \in Surfaces
  /\ t.dir \in {"BOTH", "IN", "OUT"}
  /\ Len(t.match) = Len(t.mask)
  /\ Len(t.match) <= MatchMax
  /\ t.dir # "BOTH" => class_carries(t.class, t.dir)
  /\ BitsInMask(t)

OneStream(t) == t.class # "Control" /\ t.id # AnyId /\ t.dir # "BOTH"

validate_packet_trigger(t) ==
  /\ validate_packet_key(t)
  /\ t.consume => t.class # "Control"
  /\ IF ~t.run THEN t.slen = 0
     ELSE /\ OneStream(t)
          /\ t.slen < Len(t.match)
          /\ \E i \in (t.slen + 1)..Len(t.mask) : t.mask[i] # {}

-----------------------------------------------------------------------------
(* What the box refuses.                                                    *)

\* A key no packet can match, or that is none.
BadKey(t) ==
  \/ t.class \notin Surfaces
  \/ t.dir \notin {"BOTH", "IN", "OUT"}
  \/ Len(t.match) > MatchMax
  \/ Len(t.mask) # Len(t.match)
  \/ t.dir = "OUT" /\ t.class \in {"HidIn", "Emit"}
  \/ t.dir = "IN" /\ t.class = "HidOut"
  \/ ~BitsInMask(t)

\* A run whose condition every packet of its stream meets, or that has no one stream.
BadRun(t) ==
  \/ t.class = "Control" \/ t.id = AnyId \/ t.dir = "BOTH"
  \/ \A i \in (t.slen + 1)..Len(t.mask) : t.mask[i] = {}

BadTrigger(t) ==
  \/ BadKey(t)
  \/ t.consume /\ t.class = "Control"
  \/ IF t.run THEN BadRun(t) ELSE t.slen # 0

Found(t) == {i \in DOMAIN rows : Key(rows[i].t) = Key(t)}

MatchUsed == FoldSeq(LAMBDA r, sum : Len(r.t.match) + sum, 0, rows)

\* The three checks that the crate cannot make.
NotOptedIn(t) == t.consume /\ ~imperfect
NoRoom(t) ==
  Found(t) = {} /\ (Len(rows) >= TrigMax \/ MatchUsed + Len(t.match) > PoolMax)

\* PacketTriggers::set.  An identical bind keeps the run.
Set(t) ==
  IF Found(t) = {} THEN Append(rows, [t |-> t, live |-> FALSE])
  ELSE [i \in DOMAIN rows |->
          IF i \in Found(t) /\ rows[i].t # t THEN [t |-> t, live |-> FALSE] ELSE rows[i]]

-----------------------------------------------------------------------------
(* Packets.                                                                 *)

\* pkt_head_eq.
HeadEq(t, n, head) ==
  Len(head) >= n /\ \A j \in 1..n : head[j] \cap t.mask[j] = t.match[j]

Candidate(t, p) ==
  /\ t.class = p.class
  /\ t.id \in {p.id, AnyId}
  /\ t.dir \in {"BOTH", p.dir}
  /\ HeadEq(t, Len(t.match), p.head)

MaskedBits(t) == Cardinality(UNION {{i} \X t.mask[i] : i \in DOMAIN t.mask})

scoreByBits(t) == MaskedBits(t) * 10 + (IF t.dir # "BOTH" THEN 1 ELSE 0)

\* pkt_match_score.
score(t) ==
  (IF t.id = AnyId THEN 1 ELSE 2) * 100000 + MaskedBits(t) * 10
    + (IF t.dir # "BOTH" THEN 1 ELSE 0)

Candidates(p) == {i \in DOMAIN rows : Candidate(rows[i].t, p)}

\* The first of the rows that score highest.
Tops(p) ==
  {i \in Candidates(p) : \A j \in Candidates(p) :
     \/ score(rows[j].t) < score(rows[i].t)
     \/ score(rows[j].t) = score(rows[i].t) /\ j >= i}

InAnyStream(r, p) ==
  r.t.run /\ <<r.t.class, r.t.id, r.t.dir>> = <<p.class, p.id, p.dir>>

\* A packet of the stream a run is over: the selector tells it from the others there.
InStream(r, p) ==
  /\ r.t.run
  /\ <<r.t.class, r.t.id, r.t.dir>> = <<p.class, p.id, p.dir>>
  /\ HeadEq(r.t, r.t.slen, p.head)

Runs(p) ==
  [i \in DOMAIN rows |->
     IF InStream(rows[i], p)
     THEN [rows[i] EXCEPT !.live = HeadEq(rows[i].t, Len(rows[i].t.match), p.head)]
     ELSE rows[i]]

-----------------------------------------------------------------------------

\* bind_packet: recorded once its frame is sent, whether the box holds it or not.
BindPacket ==
  /\ \E t \in Triggers \cap Offered(recorded) :
       /\ validate_packet_trigger(t)
       /\ recorded' = {r \in recorded : Key(r) # Key(t)} \cup {t}
       /\ IF BadTrigger(t) \/ NotOptedIn(t) \/ NoRoom(t)
          THEN /\ refusal' = IF BadTrigger(t) THEN "rule" ELSE IF NoRoom(t) THEN "room" ELSE "optin"
               /\ UNCHANGED <<rows, acted>>
          ELSE /\ rows' = Set(t)
               /\ refusal' = "none"
               /\ acted' = acted \ {k \in acted : k = Key(t) /\ \A r \in ToSet(rows) : r.t # t}
  /\ UNCHANGED <<imperfect, twice, crossed>>

UnbindPacket ==
  /\ \E t \in Triggers \cap Offered(recorded) :
       /\ validate_packet_key(t)
       /\ recorded' = {r \in recorded : Key(r) # Key(t)}
       /\ rows' = Retain(rows, {r \in ToSet(rows) : Key(r.t) # Key(t)})
       /\ acted' = acted \ {Key(t)}
  /\ refusal' = "none"
  /\ UNCHANGED <<imperfect, twice, crossed>>

ClearTriggers ==
  /\ recorded' = {}
  /\ rows' = <<>>
  /\ acted' = {}
  /\ refusal' = "none"
  /\ UNCHANGED <<imperfect, twice, crossed>>

\* allow_imperfect_clones: turning it off drops what consumes, on both sides.
AllowImperfect ==
  /\ imperfect' = ~imperfect
  /\ rows' = IF imperfect THEN Retain(rows, {r \in ToSet(rows) : ~r.t.consume}) ELSE rows
  /\ recorded' = IF imperfect THEN {r \in recorded : ~r.consume} ELSE recorded
  /\ acted' = IF imperfect THEN {k \in acted : \A r \in ToSet(rows) : Key(r.t) = k => ~r.t.consume}
              ELSE acted
  /\ refusal' = "none"
  /\ UNCHANGED <<twice, crossed>>

\* For the history: a packet of the stream that does not meet the condition.
EndsRun(t, p) ==
  /\ <<t.class, t.id, t.dir>> = <<p.class, p.id, p.dir>>
  /\ HeadEq(t, t.slen, p.head) /\ ~HeadEq(t, Len(t.match), p.head)

\* PacketTriggers::packet: every run goes on or ends, and the most specific row acts,
\* unless its run was on already.
Packet ==
  /\ crossed < MaxPackets
  /\ crossed' = crossed + 1
  /\ \E p \in Packets :
       LET acts == {i \in Tops(p) : ~(rows[i].t.run /\ rows[i].live)}
           ended == {Key(rows[i].t) : i \in {j \in DOMAIN rows : EndsRun(rows[j].t, p)}}
           runs == {Key(rows[i].t) : i \in {j \in acts : rows[j].t.run}}
       IN /\ rows' = Runs(p)
          /\ twice' = (twice \/ runs \cap acted # {})
          /\ acted' = (acted \ ended) \cup runs
  /\ refusal' = "none"
  /\ UNCHANGED <<imperfect, recorded>>

TriggersInit ==
  /\ rows = <<>> /\ imperfect \in BOOLEAN /\ recorded = {}
  /\ refusal = "none" /\ acted = {} /\ twice = FALSE /\ crossed = 0

TriggersNext ==
  \/ BindPacket \/ UnbindPacket \/ ClearTriggers \/ AllowImperfect \/ Packet

TriggersSpec == TriggersInit /\ [][TriggersNext]_triggerVars

-----------------------------------------------------------------------------

\* The box refuses nothing the crate sends but for the three checks it cannot make: the
\* opt-in, the number of triggers and the pool of match bytes (bind_packet's doc).
ThreeChecks == refusal # "rule"

\* What the box holds the crate has recorded, so the keepalive runs for it: the crate
\* refuses no key of its own that the box holds, and each forgets when the other does.
HeldIsRecorded == \A i \in DOMAIN rows : \E r \in recorded : Key(r) = Key(rows[i].t)

\* A run acts once: between two acts of a trigger bound once_per_run comes a packet of its
\* stream that does not meet its condition, or another bind (PacketTriggers::packet).
OncePerRun == ~twice

\* Of the triggers a packet matches the most specific acts: an exact id before any, then
\* more masked bits, then one direction before both, then the earlier bind.  One number
\* carries the three ranks without one running into the next (pkt_match_score).
MoreSpecific(r, s) ==
  \/ r.id # AnyId /\ s.id = AnyId
  \/ /\ (r.id = AnyId) = (s.id = AnyId)
     /\ \/ MaskedBits(r) > MaskedBits(s)
        \/ MaskedBits(r) = MaskedBits(s) /\ r.dir # "BOTH" /\ s.dir = "BOTH"

MostSpecificActs ==
  \A p \in Packets : \A i \in Tops(p) : \A j \in Candidates(p) :
    ~MoreSpecific(rows[j].t, rows[i].t)

=============================================================================
