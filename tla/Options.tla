------------------------------ MODULE Options ------------------------------
(***************************************************************************)
(* What the box keeps in flash, the options and the descriptor patches,    *)
(* and what its imperfect-clone opt-in gates: rewrite rules, consuming     *)
(* triggers and the serving of patches (src/src/device/options.rs,         *)
(* patch.rs, rewrite.rs, transform.rs; the box is src/src/mock/mod.rs).    *)
(* A caller of a gated call first asks for the opt-in, and another thread  *)
(* may turn it off before the frame is written.  The crate's own copy of   *)
(* the tables is HeldTables's, its recovery from a re-clone Recovery's.    *)
(***************************************************************************)
EXTENDS Naturals, Sequences, FiniteSets, SequencesExt

CONSTANTS
  OfferedRules(_, _), \* the rules callers set and remove, by the calls made and the table
  Transforms,       \* the transforms they offer: an op and two fields, class and id
  Declared,         \* the fields the clone declares
  PatchKeys,        \* (section, cfg, index, offset) of the patches they store
  Settings,         \* the plain options: name, ride, pace, render, spread, bearing
  MaxPayload,       \* MAX_PAYLOAD
  RewriteMatchMax,         \* REWRITE_MATCH_MAX
  HeadReport,       \* the head the box holds of a report, and
  HeadControl,      \* of a control transfer
  RulesMax, RulePool,     \* REWRITE_MAX_ENTRIES, REWRITE_PAYLOAD_POOL
  TransformsMax,          \* TRANSFORM_MAX_ENTRIES
  PatchesMax, PatchPool,  \* PATCH_MAX_ENTRIES, PATCH_POOL
  MaxOptionCalls          \* bound on the calls, boots and detaches

ASSUME OptionAssumption ==
  {MaxPayload, RewriteMatchMax, HeadReport, HeadControl, RulesMax, RulePool, TransformsMax,
   PatchesMax, PatchPool, MaxOptionCalls} \subseteq Nat

ASSUME TransformAssumption ==
  \A t \in Transforms :
    /\ t.op \in {"Swap", "Remap"}
    /\ t.src = <<t.src[1], t.src[2]>> /\ t.dst = <<t.dst[1], t.dst[2]>>

VARIABLES
  optIn,       \* imperfect.allowed
  settings,    \* the options that are not the default
  stored,      \* patches
  presented,   \* patch_presented: what the clone serves
  patchFull,
  rules, rulesFull,            \* the tables, whose order nothing here depends on,
  transforms, transformsFull,  \* and whether one had no room
  consuming,   \* a consuming packet trigger is in the table
  clone,       \* "up", "down", "boot", or "grace" and "back" (device_back) after a detach
  due,         \* represent_at: the next tick presents the clone again
  deferred,    \* represent_held: the end of the grace does
  gated,       \* the call that has read the opt-in and goes on to send
  outcome,     \* what the last set or remove came to
  calls

optionVars == <<optIn, settings, stored, presented, patchFull, rules, rulesFull, transforms,
                transformsFull, consuming, clone, due, deferred, gated, outcome, calls>>

flash == <<settings, stored, patchFull>>
tables == <<rules, rulesFull, transforms, transformsFull, consuming>>
showing == <<presented, clone, due, deferred>>

AnyIdent == 65535
NoGated == [call |-> "none"]
NoResult == [call |-> "none"]

-----------------------------------------------------------------------------
(* Rewrite rules: what the crate lets through, and what the box takes.      *)

IsControl(class) == class = "Control"
Relative(dir) == dir \in {"WITH", "AGAINST"}
HeadOf(class) == IF IsControl(class) THEN HeadControl ELSE HeadReport

is_valid_for(action, class) ==
  \/ action \in {"Pass", "Patch", "Replace"}
  \/ action = "Drop" /\ ~IsControl(class) /\ class # "Any"
  \/ action \in {"Answer", "Stall", "Nak", "ReplyPatch", "ReplyReplace"} /\ IsControl(class)

HeadFits(r) ==
  /\ r.action \in {"Patch", "ReplyPatch"} => r.offset + r.plen <= HeadOf(r.class)
  /\ r.action = "Replace" => r.plen <= HeadOf(r.class)
  /\ r.action \in {"Answer", "ReplyReplace"} => r.plen <= HeadControl

ValidByFrame(r) ==
  /\ Len(r.match) = Len(r.mask) /\ Len(r.match) <= RewriteMatchMax
  /\ ~Relative(r.dir)
  /\ is_valid_for(r.action, r.class)
  /\ 9 + 2 * Len(r.match) + r.plen <= MaxPayload
  /\ HeadFits(r)

validate_rule(r) ==
  /\ Len(r.match) = Len(r.mask) /\ Len(r.match) <= RewriteMatchMax
  /\ ~Relative(r.dir)
  /\ is_valid_for(r.action, r.class)
  /\ 11 + 2 * Len(r.match) + r.plen <= MaxPayload   \* the read-back reply's header is 11 bytes
  /\ HeadFits(r)

RuleKey(r) == <<r.class, r.id, r.dir, r.match, r.mask>>
Others(r) == {q \in rules : RuleKey(q) # RuleKey(r)}
Used(entries) == FoldSet(LAMBDA entry, sum : entry.plen + sum, 0, entries)

\* rewrite_admissible.
Admissible(r) ==
  /\ CASE r.action \in {"Patch", "ReplyPatch"} -> r.offset + r.plen <= HeadOf(r.class)
       [] r.action = "Replace" -> r.plen <= HeadOf(r.class)
       [] r.action \in {"Answer", "ReplyReplace"} -> r.plen <= HeadControl
       [] OTHER -> TRUE
  /\ CASE r.action \in {"Pass", "Patch", "Replace"} -> TRUE
       [] r.action = "Drop" -> r.class \notin {"Control", "Any"}
       [] OTHER -> r.class = "Control"

\* apply_rewrite_frame: the guards before the key is looked up.
Rewritable(r) ==
  /\ 11 + 2 * Len(r.match) + r.plen <= MaxPayload
  /\ ~Relative(r.dir) /\ Len(r.match) <= RewriteMatchMax

SetRule(r) ==
  LET kept == Others(r)
      overwrites == kept # rules
  IN IF ~optIn \/ ~Rewritable(r) \/ ~Admissible(r) \/ r \in rules
     THEN UNCHANGED <<rules, rulesFull>>
     ELSE IF Used(kept) + r.plen > RulePool \/ (~overwrites /\ Cardinality(rules) >= RulesMax)
     THEN rulesFull' = TRUE /\ UNCHANGED rules
     ELSE rules' = kept \cup {r} /\ rulesFull' = FALSE

\* Class Any with the id ANY clears the whole table, with the opt-in off too.
IsClear(r) == r.class = "Any" /\ r.id = AnyIdent

ClearRules == rules' = {} /\ rulesFull' = FALSE

RemoveRule(r) ==
  IF Rewritable(r) /\ IsClear(r) THEN ClearRules
  ELSE IF optIn /\ Rewritable(r) /\ Others(r) # rules
  THEN rules' = Others(r) /\ rulesFull' = FALSE
  ELSE UNCHANGED <<rules, rulesFull>>

-----------------------------------------------------------------------------
(* Field transforms.                                                        *)

\* TransformOp::admits.
admits(t) ==
  /\ t.src # t.dst
  /\ \/ t.src[1] = "Axis" /\ t.dst[1] = "Axis"
     \/ t.op = "Remap" /\ t.src[1] = "Button" /\ t.dst[1] \in {"Button", "Key", "Media"}

\* transform_pair_ok and transform_field_present.
PairOk(t) ==
  /\ ~(t.src[1] = t.dst[1] /\ t.src[2] = t.dst[2])
  /\ CASE t.op = "Swap" -> t.src[1] = "Axis" /\ t.dst[1] = "Axis"
       [] t.op = "Remap" -> \/ t.src[1] = "Axis" /\ t.dst[1] = "Axis"
                            \/ t.src[1] = "Button" /\ t.dst[1] \in {"Button", "Key", "Media"}
Declares(field) == clone # "down" /\ field \in Declared

Slot(t) == {q \in transforms : <<q.src, q.dst>> = <<t.src, t.dst>>}

SetTransform(t) ==
  IF ~PairOk(t) \/ ~Declares(t.src) \/ ~Declares(t.dst) THEN UNCHANGED <<transforms, transformsFull>>
  ELSE IF Slot(t) # {}
  THEN transforms' = (transforms \ Slot(t)) \cup {t} /\ UNCHANGED transformsFull
  ELSE IF Cardinality(transforms) >= TransformsMax
  THEN transformsFull' = TRUE /\ UNCHANGED transforms
  ELSE transforms' = transforms \cup {t} /\ UNCHANGED transformsFull

ClearTransforms == transforms' = {} /\ transformsFull' = FALSE

RemoveTransform(t) ==
  IF Slot(t) = {} THEN UNCHANGED <<transforms, transformsFull>>
  ELSE transforms' = transforms \ Slot(t) /\ transformsFull' = FALSE

-----------------------------------------------------------------------------
(* Patches and presenting the clone.                                        *)

Served(patches) == IF optIn THEN patches ELSE <<>>

\* release_session, as far as it is of this module.
Release == ClearRules /\ ClearTransforms /\ consuming' = FALSE

\* present_patches: within a detach's grace the request waits.
InGrace == clone \in {"grace", "back"}
Represent(patches) ==
  IF Served(patches) # presented THEN presented' = Served(patches) /\ Release
  ELSE UNCHANGED <<presented, tables>>

DefersNone == UNCHANGED <<deferred, presented, tables>>
Defers == deferred' = TRUE /\ UNCHANGED <<presented, tables>>
present_patches(patches) ==
  \/ InGrace /\ Defers
  \/ ~InGrace /\ Represent(patches) /\ UNCHANGED deferred

StorePatch(key, len) ==
  LET kept == SelectSeq(stored, LAMBDA q : q.key # key)
      new == [key |-> key, plen |-> len]
      isNew == Len(kept) = Len(stored)
  IN IF len = 0 THEN stored' = kept /\ patchFull' = (isNew /\ patchFull)
     ELSE IF new \in ToSet(stored) THEN UNCHANGED <<stored, patchFull>>
     ELSE IF Used(ToSet(kept)) + len > PatchPool \/ (isNew /\ Len(stored) >= PatchesMax)
     THEN patchFull' = TRUE /\ UNCHANGED stored
     ELSE stored' = Append(kept, new) /\ patchFull' = FALSE

-----------------------------------------------------------------------------
(* The callers.                                                             *)

OptionCall == calls < MaxOptionCalls /\ calls' = calls + 1

\* set_rewrite validates, and apply_patch does not, before require_imperfect.
AskOptIn(call) ==
  /\ OptionCall /\ gated = NoGated
  /\ optIn
  /\ gated' = call
  /\ UNCHANGED <<optIn, flash, tables, showing, outcome>>

set_rewrite == \E r \in OfferedRules(calls, rules) : validate_rule(r) /\ AskOptIn([call |-> "rule", rule |-> r])
apply_patch == AskOptIn([call |-> "apply"])

SendGated ==
  /\ gated # NoGated
  /\ gated' = NoGated
  /\ \/ /\ gated.call = "rule"
        /\ SetRule(gated.rule)
        /\ outcome' = [call |-> "set", on |-> optIn, taken |-> gated.rule \in rules' \/ rulesFull']
        /\ UNCHANGED <<transforms, transformsFull, consuming, presented, deferred>>
     \/ /\ gated.call = "apply"
        /\ IF optIn THEN present_patches(stored) ELSE UNCHANGED <<presented, deferred, tables>>
        /\ UNCHANGED outcome
  /\ UNCHANGED <<optIn, flash, clone, due, calls>>

remove_rewrite(r) ==
  /\ OptionCall /\ Len(r.match) = Len(r.mask)
  /\ RemoveRule(r)
  /\ outcome' = [call |-> "remove", lost |-> rules \ rules', key |-> RuleKey(r)]
  /\ UNCHANGED <<optIn, flash, transforms, transformsFull, consuming, showing, gated>>

\* The blanket, which the box obeys with the opt-in off too.
clear_rewrite ==
  /\ OptionCall
  /\ ClearRules
  /\ UNCHANGED <<optIn, flash, transforms, transformsFull, consuming, showing, gated, outcome>>

transform(t) ==
  /\ OptionCall /\ admits(t)
  /\ SetTransform(t)
  /\ outcome' = [call |-> "set", on |-> Declares(t.src) /\ Declares(t.dst),
              taken |-> t \in transforms' \/ transformsFull']
  /\ UNCHANGED <<optIn, flash, rules, rulesFull, consuming, showing, gated>>

\* A removal is not checked.
untransform(t) ==
  /\ OptionCall
  /\ RemoveTransform(t)
  /\ UNCHANGED <<optIn, flash, rules, rulesFull, consuming, showing, gated, outcome>>

clear_transforms ==
  /\ OptionCall
  /\ ClearTransforms
  /\ UNCHANGED <<optIn, flash, rules, rulesFull, consuming, showing, gated, outcome>>

set_patch(key, len) ==
  /\ OptionCall
  /\ StorePatch(key, len)
  /\ UNCHANGED <<optIn, settings, tables, showing, gated, outcome>>

clear_patch ==
  /\ OptionCall
  /\ stored' = <<>> /\ patchFull' = FALSE
  /\ present_patches(<<>>)
  /\ UNCHANGED <<optIn, settings, clone, due, gated, outcome>>

\* A consuming packet trigger, which the box takes under the opt-in only (ClipTriggers).
bind_consuming ==
  /\ OptionCall
  /\ consuming' = (consuming \/ optIn)
  /\ UNCHANGED <<optIn, flash, rules, rulesFull, transforms, transformsFull, showing, gated, outcome>>

set_option(s) ==
  /\ OptionCall
  /\ settings' \in {settings \cup {s}, settings \ {s}}
  /\ UNCHANGED <<optIn, stored, patchFull, tables, showing, gated, outcome>>

OptOut == ClearRules /\ consuming' = FALSE

allow_imperfect_clones(allow) ==
  /\ OptionCall
  /\ optIn' = allow
  /\ due' = (due \/ allow # optIn)
  /\ IF allow THEN UNCHANGED <<rules, rulesFull, consuming>> ELSE OptOut
  /\ UNCHANGED <<flash, transforms, transformsFull, presented, clone, deferred, gated, outcome>>

reset ==
  /\ OptionCall
  /\ Release
  /\ UNCHANGED <<optIn, flash, showing, gated, outcome>>

\* restart: the session goes, what is stored is presented afresh.
PresentAfresh(patches) ==
  /\ Release
  /\ presented' = patches
  /\ clone' = "boot" /\ due' = FALSE /\ deferred' = FALSE

factory_reset ==
  /\ OptionCall
  /\ optIn' = FALSE /\ settings' = {} /\ stored' = <<>> /\ patchFull' = FALSE
  /\ PresentAfresh(<<>>)
  /\ UNCHANGED <<gated, outcome>>

-----------------------------------------------------------------------------
(* The box by itself, and its device.                                       *)

Restart ==
  /\ OptionCall
  /\ PresentAfresh(Served(stored))
  /\ patchFull' = FALSE
  /\ UNCHANGED <<optIn, settings, stored, gated, outcome>>

PresentDue ==
  /\ due /\ due' = FALSE
  /\ present_patches(stored)
  /\ UNCHANGED <<optIn, flash, clone, gated, outcome, calls>>

BootEnds ==
  /\ clone = "boot" /\ clone' = "up"
  /\ UNCHANGED <<optIn, flash, tables, presented, due, deferred, gated, outcome, calls>>

\* attach: inside the grace it is noted, after the teardown a fresh clone starts.
Attach ==
  /\ clone \in {"grace", "down"}
  /\ clone' = IF clone = "grace" THEN "back" ELSE "up"
  /\ presented' = IF clone = "grace" THEN presented ELSE Served(stored)
  /\ UNCHANGED <<optIn, flash, tables, due, deferred, gated, outcome, calls>>

Detach(atOnceBack) ==
  /\ OptionCall /\ clone \in {"up", "back"}
  /\ Release
  /\ clone' = IF atOnceBack THEN clone ELSE "grace"
  /\ UNCHANGED <<optIn, flash, presented, due, deferred, gated, outcome>>

GraceEnds ==
  /\ InGrace
  /\ deferred' = FALSE
  /\ IF clone = "grace" THEN clone' = "down" /\ Release /\ UNCHANGED presented
     ELSE /\ clone' = "up"
          /\ IF deferred THEN Represent(stored) ELSE UNCHANGED <<presented, tables>>
  /\ UNCHANGED <<optIn, flash, due, gated, outcome, calls>>

-----------------------------------------------------------------------------
OptionsInit ==
  /\ optIn \in BOOLEAN /\ settings = {}
  /\ stored = <<>> /\ presented = <<>> /\ patchFull = FALSE
  /\ rules = {} /\ rulesFull = FALSE /\ transforms = {} /\ transformsFull = FALSE
  /\ consuming = FALSE /\ clone = "up" /\ due = FALSE /\ deferred = FALSE
  /\ gated = NoGated /\ outcome = NoResult /\ calls = 0

OptionsNext ==
  \/ set_rewrite \/ apply_patch \/ SendGated \/ clear_patch \/ bind_consuming
  \/ clear_rewrite \/ clear_transforms \/ reset \/ factory_reset \/ Restart \/ PresentDue \/ BootEnds \/ Attach \/ GraceEnds
  \/ \E r \in OfferedRules(calls, rules) : remove_rewrite(r)
  \/ \E t \in Transforms : transform(t) \/ untransform(t)
  \/ \E key \in PatchKeys, len \in 0..2 : set_patch(key, len)
  \/ \E s \in Settings : set_option(s)
  \/ \E b \in BOOLEAN : allow_imperfect_clones(b) \/ Detach(b)

OptionsSpec == OptionsInit /\ [][OptionsNext]_optionVars

-----------------------------------------------------------------------------
\* What needs the opt-in never outlives it, in whatever order it is turned off, the clone is
\* presented, the device leaves and the chip boots: no rule and no consuming trigger is left
\* (mock/mod.rs:1218), and a clone that still serves patches is about to be presented again.
GatedNeedOptIn ==
  ~optIn =>
    /\ rules = {} /\ ~consuming
    /\ presented # <<>> => due \/ deferred \/ clone = "down"

\* What the crate's own checks let through the box takes, or reports as full: set_rewrite under
\* the opt-in, and transform on fields the clone declares (device/rewrite.rs:236, "Mirrors the
\* box's head caps"; device/transform.rs:155, "Mirrors the box's transform_tab_set").
AcceptedIsTaken == outcome.call = "set" /\ outcome.on => outcome.taken

\* remove_rewrite drops the rule with the key it is given, and no other (device/rewrite.rs:95,
\* "drop the rule with this rule's `(class, id, direction, match, mask)` key").
RemoveDropsOne ==
  outcome.call = "remove" => \A q \in outcome.lost : RuleKey(q) = outcome.key

=============================================================================
