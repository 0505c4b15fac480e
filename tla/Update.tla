------------------------------- MODULE Update -------------------------------
(***************************************************************************)
(* Firmware updates (src/src/device/update.rs).  A caller stages an image  *)
(* into the spare slot of one of the two chips, in windows of chunks that  *)
(* the box acknowledges, activates what is staged, or does both.  A reply  *)
(* names its operation and no caller: whoever takes a reply to another     *)
(* operation off the shared channel parks it.  A caller gives up after a   *)
(* while, and the box may answer later; a frame may be lost.  The wires    *)
(* keep their order.                                                       *)
(***************************************************************************)
EXTENDS Retain, SequencesExt

CONSTANTS
  Callers,      \* the threads that update
  Targets,      \* the chips: UpdateTarget
  Images,       \* the images at hand, and
  Length,       \* of how many chunks each is
  Credit,       \* OTA_CREDIT: the chunks of a window
  HeldMax,      \* HELD_UPDATES_MAX: the replies parked
  NoImage,
  MaxCalls,     \* bounds on the operations called,
  MaxGiveUps,   \* on the waits that end and the sends that fail, and
  MaxLost       \* on the frames lost on the way

ASSUME LengthAssumption ==
  NoImage \notin Images /\ Length \in [Images -> Nat \ {0}] /\ Targets # {}
ASSUME BoundAssumption ==
  {Credit, HeldMax} \subseteq Nat \ {0} /\ {MaxCalls, MaxGiveUps, MaxLost} \subseteq Nat

VARIABLES
  session,   \* the box: one MockUpdate for each target
  boot,      \* the box: where it is since an activation
  wire,      \* frames on their way to the box
  back,      \* replies on their way to the host
  updates,   \* the channel the reader thread fills
  held,      \* held_updates: the replies parked
  call,      \* what each caller is doing
  info,      \* what a caller's query of the firmware was answered
  last,      \* how each caller's last call ended
  spent      \* how much of the bounds is used up

updateVars == <<session, boot, wire, back, updates, held, call, info, last, spent>>
boxState == <<session, boot>>
queues == <<wire, back, updates, held>>

Ops == {"BEGIN", "DATA", "END", "ABORT", "ACTIVATE"}
Chunks(i) == [k \in 1..Length[i] |-> <<i, k>>]
Reply(op, st, arg) == [op |-> op, status |-> st, arg |-> arg]

-----------------------------------------------------------------------------
(* The box.                                                                 *)

NoSession == [active |-> FALSE, staged |-> NoImage, image |-> NoImage,
              got |-> <<>>, sinceAck |-> 0]
nextSeq(s) == Len(s.got)

\* What an operation makes of a target's session, and the reply it owes.
Begin(s, image) ==
  IF s.active THEN <<s, <<Reply("BEGIN", "BUSY", 0)>>>>
  ELSE <<[NoSession EXCEPT !.active = TRUE, !.image = image],
         <<Reply("BEGIN", "READY", Credit)>>>>

Refuses(s, st, arg) == <<[s EXCEPT !.active = FALSE], <<Reply("DATA", st, arg)>>>>

Data(s, seq, chunk) ==
  LET n == nextSeq(s)
      got == [s EXCEPT !.got = Append(@, chunk), !.sinceAck = @ + 1]
      owes == got.sinceAck >= Credit \/ Len(got.got) = Length[s.image]
  IN CASE ~s.active -> <<s, <<Reply("DATA", "BAD_STATE", 0)>>>>
       [] s.active /\ n > 0 /\ seq = n - 1 -> <<s, <<Reply("DATA", "ACK", n)>>>>
       [] s.active /\ seq # n /\ seq + 1 # n -> Refuses(s, "SEQ_GAP", n)
       [] s.active /\ seq = n /\ n = Length[s.image] -> Refuses(s, "TOO_BIG", n)
       [] s.active /\ seq = n /\ n < Length[s.image] ->
            IF owes THEN <<[got EXCEPT !.sinceAck = 0], <<Reply("DATA", "ACK", n + 1)>>>>
                    ELSE <<got, <<>>>>

End(s) ==
  LET over == [s EXCEPT !.active = FALSE]
  IN CASE ~s.active -> <<s, <<Reply("END", "BAD_STATE", 0)>>>>
       [] s.active /\ Len(s.got) # Length[s.image] ->
            <<over, <<Reply("END", "BAD_STATE", 1)>>>>
       [] s.active /\ Len(s.got) = Length[s.image] /\ s.got # Chunks(s.image) ->
            <<over, <<Reply("END", "BAD_SHA", 0)>>>>
       [] s.active /\ s.got = Chunks(s.image) ->
            <<[over EXCEPT !.staged = s.image], <<Reply("END", "STAGED", 0)>>>>

SessionOp(s, f) ==
  CASE f.op = "BEGIN" -> Begin(s, f.image)
    [] f.op = "DATA"  -> Data(s, f.seq, f.chunk)
    [] f.op = "END"   -> End(s)
    [] f.op = "ABORT" -> <<NoSession, <<Reply("ABORT", "OK", 0)>>>>

\* An activation commits every image that is staged, unless it is refused.
Activates ==
  LET staged == \E t \in Targets : session[t].staged # NoImage
  IN \/ /\ back' = Append(back, Reply("ACTIVATE", "REFUSED", 0))
        /\ UNCHANGED boxState
     \/ /\ ~staged
        /\ back' = Append(back, Reply("ACTIVATE", "NOTHING_STAGED", 0))
        /\ UNCHANGED boxState
     \/ /\ staged
        /\ back' = Append(back, Reply("ACTIVATE", "OK", 0))
        /\ session' = [t \in Targets |-> NoSession]
        /\ boot' = "down"

\* A query of the firmware: unanswered while the box boots, then with whether the
\* image is on probation.
Tells(f) ==
  /\ back' = IF boot = "down" THEN back
             ELSE Append(back, [op |-> "FIRMWARE", by |-> f.by, seq |-> f.seq, pending |-> boot = "probation"])
  /\ UNCHANGED boxState

Serve(f) ==
  LET r == SessionOp(session[f.target], f)
  IN /\ session' = [session EXCEPT ![f.target] = r[1]]
     /\ back' = back \o r[2]
     /\ UNCHANGED boot

update_op ==
  /\ wire # <<>>
  /\ wire' = Tail(wire)
  /\ LET f == Head(wire)
     IN CASE f.op = "FIRMWARE" -> Tells(f)
          [] f.op = "ACTIVATE" -> Activates
          [] f.op \in Ops \ {"ACTIVATE"} -> Serve(f)
  /\ UNCHANGED <<updates, held, call, info, last, spent>>

\* The box comes back on probation, and confirms the image it booted.
BoxBoots ==
  /\ boot # "up"
  /\ boot' = IF boot = "down" THEN "probation" ELSE "up"
  /\ UNCHANGED <<session, queues, call, info, last, spent>>

-----------------------------------------------------------------------------
(* The wires.                                                               *)

LoseFrame ==
  /\ spent.lost < MaxLost
  /\ wire # <<>>
  /\ wire' = Tail(wire)
  /\ spent' = [spent EXCEPT !.lost = @ + 1]
  /\ UNCHANGED <<boxState, back, updates, held, call, info, last>>

\* The reader thread: a reply goes to the channel, a query's answer to who awaits it.
Arrive ==
  /\ back # <<>>
  /\ back' = Tail(back)
  /\ LET p == Head(back)
     IN IF p.op = "FIRMWARE"
        THEN /\ info' = IF call[p.by].at = "asked" /\ call[p.by].sent = p.seq
                        THEN [info EXCEPT ![p.by] = IF p.pending THEN "pending" ELSE "confirmed"]
                        ELSE info
             /\ UNCHANGED updates
        ELSE updates' = Append(updates, p) /\ UNCHANGED info
  /\ UNCHANGED <<boxState, wire, held, call, last, spent>>

-----------------------------------------------------------------------------
(* A caller.  ChunkPlan: sent counts the chunks sent, and is their SEQ.      *)

NoCall == [at |-> "idle", verb |-> "none", target |-> CHOOSE t \in Targets : TRUE,
           image |-> NoImage, op |-> "BEGIN", sent |-> 0, unacked |-> 0]

Return(c, res) ==
  /\ last' = [last EXCEPT ![c] = [res |-> res, verb |-> call[c].verb,
                                  target |-> call[c].target, image |-> call[c].image]]
  /\ call' = [call EXCEPT ![c] = NoCall]

Enter(c, op) == call' = [call EXCEPT ![c].at = "drain", ![c].op = op]

FailsArmed(c) == Return(c, IF call[c].op = "ACTIVATE" THEN "refused" ELSE "error")

\* An operation of a call failed.  update_firmware aborts what it could not activate
\* and returns the activation's error.
Activating(c) == call[c].verb = "update" /\ call[c].op = "ACTIVATE"
Fails(c) ==
  IF Activating(c)
  THEN call' = [call EXCEPT ![c].at = "drain", ![c].op = "ABORT"] /\ UNCHANGED last
  ELSE Return(c, "error")

Call(c) ==
  /\ call[c].at = "idle"
  /\ spent.calls < MaxCalls
  /\ \E t \in Targets :
       \/ \E verb \in {"stage", "update"}, i \in Images :
            call' = [call EXCEPT ![c] = [NoCall EXCEPT !.at = "confirm", !.verb = verb,
                                                       !.target = t, !.image = i]]
       \/ \E verb \in {"abort", "activate"} :
            call' = [call EXCEPT ![c] =
              [NoCall EXCEPT !.at = "drain", !.verb = verb, !.target = t,
                             !.op = IF verb = "abort" THEN "ABORT" ELSE "ACTIVATE"]]
  /\ last' = [last EXCEPT ![c].res = "none"]
  /\ spent' = [spent EXCEPT !.calls = @ + 1]
  /\ UNCHANGED <<boxState, queues, info>>

\* wait_firmware_confirmed asks, and asks again while a chip is on probation.  The SEQ of
\* a query is that of none that was given up.
Ask(c) ==
  /\ call[c].at = "confirm"
  /\ wire' = Append(wire, [op |-> "FIRMWARE", by |-> c, seq |-> spent.giveUps])
  /\ info' = [info EXCEPT ![c] = "none"]
  /\ call' = [call EXCEPT ![c].at = "asked", ![c].sent = spent.giveUps]
  /\ UNCHANGED <<boxState, back, updates, held, last, spent>>

ToldUnheeded(c) ==
  /\ call[c].at = "asked"
  /\ info[c] # "none"
  /\ Enter(c, "BEGIN")
  /\ info' = [info EXCEPT ![c] = "none"]
  /\ UNCHANGED <<boxState, queues, last, spent>>

Told(c) ==
  /\ call[c].at = "asked"
  /\ info[c] # "none"
  /\ IF info[c] = "confirmed" THEN Enter(c, "BEGIN")
     ELSE call' = [call EXCEPT ![c].at = "confirm"]
  /\ info' = [info EXCEPT ![c] = "none"]
  /\ UNCHANGED <<boxState, queues, last, spent>>

\* The query times out: it is asked again, until the deadline.
Unanswered(c) ==
  /\ call[c].at = "asked"
  /\ info[c] = "none"
  /\ spent.giveUps < MaxGiveUps
  /\ \/ call' = [call EXCEPT ![c].at = "confirm"] /\ UNCHANGED last
     \/ Return(c, "error")
  /\ spent' = [spent EXCEPT !.giveUps = @ + 1]
  /\ UNCHANGED <<boxState, queues, info>>

\* hold_update: the oldest reply makes room.
Hold(h, ps) ==
  LET all == h \o ps
  IN SubSeq(all, (IF Len(all) > HeldMax THEN Len(all) - HeldMax ELSE 0) + 1, Len(all))
DropHeld(h, op) == Retain(h, {p \in ToSet(h) : p.op # op})

StaleKept(h, op) == h

\* What the channel holds for this op replies to an earlier frame.
Stale(h, op) == DropHeld(Hold(h, DropHeld(updates, op)), op)

Drain(c) ==
  /\ call[c].at = "drain"
  /\ updates' = <<>>
  /\ held' = Stale(held, call[c].op)
  /\ call' = [call EXCEPT ![c].at = "send"]
  /\ UNCHANGED <<boxState, wire, back, info, last, spent>>

Frame(k) ==
  IF k.op = "BEGIN" THEN [op |-> "BEGIN", target |-> k.target, image |-> k.image]
  ELSE [op |-> k.op, target |-> k.target]

Send(c) ==
  /\ call[c].at = "send"
  /\ wire' = Append(wire, Frame(call[c]))
  /\ call' = [call EXCEPT ![c].at = "recv"]
  /\ UNCHANGED <<boxState, back, updates, held, info, last, spent>>

\* next_frame: a chunk, while the window has room.
HasRoom(k) == k.sent < Length[k.image] /\ k.unacked < Credit

SendChunk(c) ==
  /\ call[c].at = "chunks"
  /\ HasRoom(call[c])
  /\ wire' = Append(wire, [op |-> "DATA", target |-> call[c].target, seq |-> call[c].sent,
                           chunk |-> Chunks(call[c].image)[call[c].sent + 1]])
  /\ call' = [call EXCEPT ![c].sent = @ + 1, ![c].unacked = @ + 1]
  /\ UNCHANGED <<boxState, back, updates, held, info, last, spent>>

\* awaiting_ack: the box owes a reply.
WindowFull(c) ==
  /\ call[c].at = "chunks"
  /\ ~HasRoom(call[c])
  /\ call' = [call EXCEPT ![c].at = "recv", ![c].op = "DATA"]
  /\ UNCHANGED <<boxState, queues, info, last, spent>>

\* on_ack.
OnAck(c, p) ==
  LET k == call[c]
  IN IF p.status \in {"OK", "ACK"} /\ p.arg = k.sent
     THEN /\ IF k.sent = Length[k.image] THEN Enter(c, "END")
             ELSE call' = [call EXCEPT ![c].at = "chunks", ![c].unacked = 0]
          /\ UNCHANGED last
     ELSE Fails(c)

\* What a reply to the operation in hand makes of the call.
Heed(c, p) ==
  LET k == call[c]
      ok == CASE k.op = "BEGIN" -> p.status = "READY"
              [] k.op = "END" -> p.status = "STAGED"
              [] k.op \in {"ABORT", "ACTIVATE"} -> p.status = "OK"
              [] k.op = "DATA" -> TRUE
  IN IF ~ok THEN Fails(c)
     ELSE CASE k.op = "DATA" -> OnAck(c, p)
            [] k.op = "BEGIN" ->
                 /\ call' = [call EXCEPT ![c].at = "chunks", ![c].sent = 0, ![c].unacked = 0]
                 /\ UNCHANGED last
            [] k.op = "END" /\ k.verb = "update" ->
                 /\ Enter(c, "ACTIVATE")
                 /\ UNCHANGED last
            [] k.op = "END" /\ k.verb = "stage" -> Return(c, "ok")
            [] k.op \in {"ABORT", "ACTIVATE"} ->
                 Return(c, IF k.op = "ABORT" /\ k.verb = "update" THEN "refused" ELSE "ok")

\* Once the box is ready, what it still said of earlier chunks is dropped.
AfterReply(c, p, h) ==
  IF call[c].op = "BEGIN" /\ p.status = "READY" THEN DropHeld(h, "DATA") ELSE h

TakeHeld(c) ==
  /\ call[c].at = "recv"
  /\ \E i \in DOMAIN held :
       /\ held[i].op = call[c].op
       /\ \A j \in 1..(i - 1) : held[j].op # call[c].op
       /\ Heed(c, held[i])
       /\ held' = AfterReply(c, held[i], RemoveAt(held, i))
  /\ UNCHANGED <<boxState, wire, back, updates, info, spent>>

TakeUpdate(c) ==
  /\ call[c].at = "recv"
  /\ \A i \in DOMAIN held : held[i].op # call[c].op
  /\ updates # <<>>
  /\ updates' = Tail(updates)
  /\ LET p == Head(updates)
     IN IF p.op = call[c].op
        THEN Heed(c, p) /\ held' = AfterReply(c, p, held)
        ELSE held' = Hold(held, <<p>>) /\ UNCHANGED <<call, last>>
  /\ UNCHANGED <<boxState, wire, back, info, spent>>

\* The wait ends without a reply, or a send fails.
GiveUp(c) ==
  /\ spent.giveUps < MaxGiveUps
  /\ \/ call[c].at = "send"
     \/ call[c].at = "chunks" /\ HasRoom(call[c])
     \/ call[c].at = "recv" /\ \A i \in DOMAIN held : held[i].op # call[c].op
  /\ Fails(c)
  /\ spent' = [spent EXCEPT !.giveUps = @ + 1]
  /\ UNCHANGED <<boxState, queues, info>>

CallerStep(c) ==
  \/ Ask(c) \/ Told(c) \/ Unanswered(c) \/ Drain(c) \/ Send(c)
  \/ SendChunk(c) \/ WindowFull(c) \/ TakeHeld(c) \/ TakeUpdate(c) \/ GiveUp(c)

-----------------------------------------------------------------------------

UpdateInit ==
  /\ session = [t \in Targets |-> NoSession]
  /\ boot = "up"
  /\ wire = <<>> /\ back = <<>> /\ updates = <<>> /\ held = <<>>
  /\ call = [c \in Callers |-> NoCall]
  /\ info = [c \in Callers |-> "none"]
  /\ last = [c \in Callers |-> [res |-> "none", verb |-> "none",
                                target |-> NoCall.target, image |-> NoImage]]
  /\ spent = [calls |-> 0, giveUps |-> 0, lost |-> 0]

UpdateNext ==
  \/ update_op \/ BoxBoots \/ LoseFrame \/ Arrive
  \/ \E c \in Callers : Call(c) \/ CallerStep(c)

UpdateSpec == UpdateInit /\ [][UpdateNext]_updateVars

-----------------------------------------------------------------------------

\* A stage that returned Ok staged that very image, whatever late replies of calls that
\* were given up were about and whatever was lost (stage_firmware).
OkMeansStaged ==
  \A c \in Callers :
    last[c].res = "ok" /\ last[c].verb = "stage" /\ call[c].at = "idle"
      => session[last[c].target].staged = last[c].image

\* An update_firmware that could not activate what it staged and whose abort was answered
\* leaves nothing for a later activation to boot (update_firmware).
Disarmed ==
  \A c \in Callers :
    last[c].res = "refused" /\ call[c].at = "idle"
      => session[last[c].target].staged = NoImage

\* No box is asked to begin while it boots or is on probation, whatever was given up
\* before (wait_firmware_confirmed).
BeginsConfirmed ==
  wire # <<>> /\ Head(wire).op = "BEGIN" => boot = "up"

=============================================================================
