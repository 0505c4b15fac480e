------------------------------ MODULE MCParts ------------------------------
(***************************************************************************)
(* The parts that share no state with the others, each run by itself: what *)
(* goes to the box in many frames (a firmware update, a clip, the packet   *)
(* triggers that start one), what it keeps in flash, and the edges of the  *)
(* crate (the bytes of a frame, waiting for them on Windows, the stamps of *)
(* events, the C calls).                                                   *)
(***************************************************************************)
EXTENDS Update, ClipUpload, ClipTriggers, Options, Wire, WinRead, Timeline, CApi

CONSTANTS c1, c2, t1, t2, r1, r2, i1, i2, device, host, name

VARIABLE part
partVars == <<part, updateVars, uploadVars, triggerVars, optionVars, wireVars, winVars, timelineVars, apiVars>>

MCLength == [i \in Images |-> 3]

-----------------------------------------------------------------------------
(* Clips: with the box's limits halved or so, a frame of each kind, one     *)
(* that is as long as a payload, and one that is too long, or refused for   *)
(* each of the other reasons.                                               *)

Moves == [Idle EXCEPT !.xy = TRUE]
Report(n) == [dir |-> "IN", len |-> n]
Xfer(in, length, out) == [in |-> in, length |-> length, out |-> out]

Long == [Idle EXCEPT !.wheel = TRUE, !.raw = <<Report(3), Report(3)>>, !.edges = 1]
Full == [Idle EXCEPT !.raw = <<Report(10)>>, !.transfers = <<Xfer(TRUE, 4, 0)>>]
Bad == {[Idle EXCEPT !.raw = <<Report(11)>>, !.transfers = <<Xfer(TRUE, 4, 0)>>],
        [Idle EXCEPT !.edges = 3], [Idle EXCEPT !.raw = <<[dir |-> "BOTH", len |-> 1]>>],
        [Idle EXCEPT !.transfers = <<Xfer(FALSE, 4, 3)>>]}

MCClips == {
  <<Moves, Idle>>,
  <<Full, [Idle EXCEPT !.gap = 5], [Idle EXCEPT !.pan = TRUE, !.transfers = <<Xfer(FALSE, 4, 4)>>], Long>>,
  <<Full, Full>>} \cup {<<Moves, f>> : f \in Bad}

-----------------------------------------------------------------------------
(* Triggers: every one that the rules tell apart, alone in the table, and   *)
(* three that packets of one stream meet together.                          *)

Trig(class, id, dir, match, mask, consume, run, slen) ==
  [class |-> class, id |-> id, dir |-> dir, match |-> match, mask |-> mask,
   consume |-> consume, run |-> run, slen |-> slen, action |-> "Start"]

Odd == {Trig(class, id, dir, match, mask, consume, run, slen) :
          class \in {"HidIn", "HidOut", "Vendor", "Control", "Bus"}, id \in {AnyId, 1},
          dir \in {"BOTH", "IN", "OUT", "FORWARD"}, match \in {<<>>, <<{1}>>, <<{}, {1}>>, <<{1}, {}>>},
          mask \in {<<>>, <<{1, 2}>>, <<{1}, {}>>, <<{1}, {1}>>},
          consume \in BOOLEAN, run \in BOOLEAN, slen \in 0..1}
         \cup {Trig("Vendor", 1, "IN", <<{}, {}, {}>>, <<{1}, {1}, {1}>>, FALSE, FALSE, 0),
               Trig("Emit", 1, "OUT", <<>>, <<>>, FALSE, FALSE, 0)}

Pressed == Trig("HidIn", 1, "IN", <<{1}, {2}>>, <<{1}, {2}>>, FALSE, TRUE, 1)
Released == Trig("HidIn", 1, "IN", <<{1}, {}>>, <<{1}, {2}>>, FALSE, TRUE, 1)
Few == {Pressed, Released, [Pressed EXCEPT !.action = "Stop"], [Released EXCEPT !.consume = TRUE],
        Trig("HidIn", AnyId, "IN", <<{1}, {2}>>, <<{1, 2}, {1, 2}>>, FALSE, FALSE, 0),
        Trig("HidIn", 1, "IN", <<{1}, {2}>>, <<{1, 2}, {2}>>, FALSE, FALSE, 0),
        Trig("HidIn", 1, "BOTH", <<{1}>>, <<{1}>>, TRUE, FALSE, 0)}

MCTriggers == Odd \cup Few
MCOffered(bound) ==
  IF bound = {} THEN MCTriggers ELSE IF bound \subseteq Few THEN Few ELSE bound

MCPackets == [class : {"HidIn"}, id : {1}, dir : {"IN"},
              head : {<<{1}, {2}>>, <<{1}, {}>>, <<{1}>>, <<{2}, {2}>>}]

-----------------------------------------------------------------------------
(* Rewrite rules: at first every one that the checks of the crate and of    *)
(* the box tell apart, then a few that meet in one table.                   *)

Rule(class, id, dir, action, offset, match, mask, plen) ==
  [class |-> class, id |-> id, dir |-> dir, action |-> action, offset |-> offset,
   match |-> match, mask |-> mask, plen |-> plen]
Plainly(class, dir, action, plen) == Rule(class, 1, dir, action, 0, <<>>, <<>>, plen)

OddRules ==
  {Rule(class, 1, "IN", action, offset, match, match, plen) :
     class \in {"Emit", "Control", "Any"}, offset \in {0, 2}, match \in {<<>>, <<0, 0>>},
     plen \in {0, 5, 6, 8, 9},
     action \in {"Pass", "Drop", "Patch", "Replace", "Answer", "ReplyPatch"}}
  \cup {Plainly("Emit", "WITH", "Pass", 0), Plainly("Emit", "IN", "Pass", 10),
        Rule("Emit", 1, "IN", "Pass", 0, <<0>>, <<>>, 0),
        Rule("Emit", 1, "IN", "Pass", 0, <<0, 0, 0>>, <<0, 0, 0>>, 0)}

FewRules == {Plainly("Emit", "IN", "Pass", 0), Plainly("Emit", "IN", "Patch", 1),
             Plainly("Control", "IN", "Answer", 2), Rule("Any", AnyIdent, "BOTH", "Pass", 0, <<>>, <<>>, 0)}

MCOfferedRules(done, table) ==
  IF done = 0 THEN OddRules \cup FewRules
  ELSE IF table \subseteq FewRules THEN FewRules ELSE table

Fields == {<<"Axis", 1>>, <<"Axis", 2>>, <<"Button", 1>>, <<"Key", 1>>}
MCTransforms == [op : {"Swap", "Remap"}, src : Fields, dst : Fields]
MCDeclared == Fields \ {<<"Axis", 2>>}

-----------------------------------------------------------------------------
(* Frames: with an opcode the crate knows and with one it does not, with a  *)
(* start byte inside, and with checksum bytes that collide with others.     *)

Sends(ty, payload, crc) == [ty |-> ty, seq |-> 1, payload |-> payload, crc |-> crc]
MCSendable == {Sends(1, <<>>, <<0, 1>>), Sends(1, <<0, 1>>, <<2, 1>>), Sends(2, <<3>>, <<3, 3>>),
               Sends(0, <<1>>, <<2, 1>>)}

-----------------------------------------------------------------------------

Init ==
  /\ part \in {"update", "upload", "triggers", "options", "wire", "winread", "timeline", "capi"}
  /\ UpdateInit /\ UploadInit /\ TriggersInit /\ OptionsInit
  /\ WireInit /\ WinInit /\ TimelineInit /\ ApiInit
  /\ part # "upload" => cloneUp
  /\ part # "triggers" => imperfect
  /\ part # "options" => optIn
  /\ part # "timeline" => boxBoot = 0

\* The part that runs, and the others, which stand still.
Transfers == <<updateVars, uploadVars, triggerVars>>
AtTheEdge == <<wireVars, winVars, timelineVars, apiVars>>

Next ==
  \/ /\ \/ part = "update" /\ UpdateNext /\ UNCHANGED <<uploadVars, triggerVars>>
        \/ part = "upload" /\ UploadNext /\ UNCHANGED <<updateVars, triggerVars>>
        \/ part = "triggers" /\ TriggersNext /\ UNCHANGED <<updateVars, uploadVars>>
     /\ UNCHANGED <<part, optionVars, AtTheEdge>>
  \/ part = "options" /\ OptionsNext /\ UNCHANGED <<part, Transfers, AtTheEdge>>
  \/ /\ \/ part = "wire" /\ WireNext /\ UNCHANGED <<winVars, timelineVars, apiVars>>
        \/ part = "winread" /\ WinNext /\ UNCHANGED <<wireVars, timelineVars, apiVars>>
        \/ part = "timeline" /\ TimelineNext /\ UNCHANGED <<wireVars, winVars, apiVars>>
        \/ part = "capi" /\ ApiNext /\ UNCHANGED <<wireVars, winVars, timelineVars>>
     /\ UNCHANGED <<part, Transfers, optionVars>>

Spec == Init /\ [][Next]_partVars

-----------------------------------------------------------------------------
\* The crate's own checks of a rule, a transform or a packet trigger are kept apart from the
\* box's, which refuses in silence: what the crate sends is refused only for what the box
\* alone can know (its limits, and the opt-in).
NoSilentRefusal == AcceptedIsTaken /\ ThreeChecks

=============================================================================
