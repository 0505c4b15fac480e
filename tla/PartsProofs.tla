---------------------------- MODULE PartsProofs ----------------------------
(***************************************************************************)
(* Proofs about the parts that share no state with the rest: the options   *)
(* (what needs the opt-in does not outlive it, and nothing the checks let  *)
(* through is dropped by the box), the packet triggers (one act a run),    *)
(* the clip (every piece fits a frame, and the box reads what was sent),   *)
(* the Windows port (the kernel never writes to freed memory, and no       *)
(* reader sleeps through a byte or a wake) and the C calls (no body        *)
(* follows a null pointer, a thread's last error is that of its last call, *)
(* and the connection is open exactly while a handle needs it).            *)
(***************************************************************************)
EXTENDS MCParts, UpdateProofs, FiniteSetTheorems, SequenceTheorems

(* The options.                                                             *)

GatedInv == optIn \in BOOLEAN /\ GatedNeedOptIn

\* What presenting a set of patches leaves with the opt-in off.
LEMMA PresentKeeps ==
  ASSUME GatedNeedOptIn, ~optIn, optIn' = optIn, NEW patches, present_patches(patches),
         UNCHANGED clone
  PROVE  /\ rules' = {} /\ ~consuming'
         /\ deferred' \/ presented' = <<>>
  BY DEF GatedNeedOptIn, present_patches, InGrace, Defers, Represent, Served, Release, ClearRules,
         ClearTransforms, tables

LEMMA GatedStep == GatedInv /\ [OptionsNext]_optionVars => GatedInv'
<1> SUFFICES ASSUME GatedInv, [OptionsNext]_optionVars PROVE GatedInv' OBVIOUS
<1> USE DEF GatedInv, tables, showing, flash, ClearRules, ClearTransforms, Release
<1>1. ASSUME NEW req, AskOptIn(req) PROVE GatedInv' BY <1>1 DEF AskOptIn, GatedNeedOptIn
<1>2. CASE set_rewrite \/ apply_patch BY <1>1, <1>2 DEF set_rewrite, apply_patch
<1>3. CASE SendGated
  <2>1. UNCHANGED <<optIn, clone, due>> BY <1>3 DEF SendGated
  <2>2. CASE gated.call = "rule" /\ SetRule(gated.rule) /\ UNCHANGED <<consuming, presented, deferred>>
    BY <2>1, <2>2 DEF SetRule, GatedNeedOptIn
  <2>3. CASE IF optIn THEN present_patches(stored) ELSE UNCHANGED <<presented, deferred, tables>>
    BY <2>1, <2>3 DEF GatedNeedOptIn
  <2> QED BY <1>3, <2>2, <2>3 DEF SendGated
<1>4. ASSUME NEW r, remove_rewrite(r) PROVE GatedInv'
  BY <1>4 DEF remove_rewrite, RemoveRule, GatedNeedOptIn
<1>5. CASE clear_rewrite \/ clear_transforms BY <1>5 DEF clear_rewrite, clear_transforms, GatedNeedOptIn
<1>6. ASSUME NEW t, transform(t) \/ untransform(t) PROVE GatedInv'
  BY <1>6 DEF transform, untransform, GatedNeedOptIn
<1>7. ASSUME NEW key, NEW len, set_patch(key, len) PROVE GatedInv' BY <1>7 DEF set_patch, GatedNeedOptIn
<1>8. CASE clear_patch
  <2>1. present_patches(<<>>) /\ UNCHANGED <<optIn, clone, due>> BY <1>8 DEF clear_patch
  <2> QED BY <2>1, PresentKeeps DEF GatedNeedOptIn
<1>9. CASE bind_consuming BY <1>9 DEF bind_consuming, GatedNeedOptIn
<1>10. ASSUME NEW s, set_option(s) PROVE GatedInv' BY <1>10 DEF set_option, GatedNeedOptIn
<1>11. ASSUME NEW allow \in BOOLEAN, allow_imperfect_clones(allow) PROVE GatedInv'
  BY <1>11 DEF allow_imperfect_clones, OptOut, GatedNeedOptIn
<1>12. CASE reset BY <1>12 DEF reset, GatedNeedOptIn
<1>13. CASE factory_reset \/ Restart
  BY <1>13 DEF factory_reset, Restart, PresentAfresh, Served, GatedNeedOptIn
<1>14. CASE PresentDue
  <2>1. present_patches(stored) /\ UNCHANGED <<optIn, clone>> BY <1>14 DEF PresentDue
  <2> QED BY <2>1, PresentKeeps DEF GatedNeedOptIn
<1>15. CASE BootEnds BY <1>15 DEF BootEnds, GatedNeedOptIn
<1>16. CASE Attach BY <1>16 DEF Attach, Served, GatedNeedOptIn
<1>17. ASSUME NEW b \in BOOLEAN, Detach(b) PROVE GatedInv' BY <1>17 DEF Detach, GatedNeedOptIn
<1>18. CASE GraceEnds BY <1>18 DEF GraceEnds, InGrace, Represent, Served, GatedNeedOptIn
<1>19. CASE UNCHANGED optionVars BY <1>19 DEF optionVars, GatedNeedOptIn
<1> QED
  BY <1>2, <1>3, <1>4, <1>5, <1>6, <1>7, <1>8, <1>9, <1>10, <1>11, <1>12, <1>13, <1>14, <1>15, <1>16,
     <1>17, <1>18, <1>19
  DEF OptionsNext

\* With the opt-in off there is no rule and no consuming trigger, and a clone that still serves
\* patches is about to be presented without them: whichever of the opt-out, a boot, a detach's
\* grace and a call that read the opt-in before comes when.
THEOREM GatedCorrect == OptionsSpec => []GatedNeedOptIn
<1>1. OptionsInit => GatedInv BY DEF OptionsInit, GatedInv, GatedNeedOptIn
<1>2. GatedInv => GatedNeedOptIn BY DEF GatedInv
<1> QED BY <1>1, GatedStep, <1>2, PTL DEF OptionsSpec

-----------------------------------------------------------------------------
(* The Windows port.                                                        *)

\* One thread at a time is inside a read, and none once the transport is dropped.
OneReads ==
  /\ \A t \in Readers : at[t] \notin {"out", "gone"} => rx = t
  /\ op # "held" => rx = NoReader /\ waker = "out"

\* The wait the kernel still has to end is the owner's, and the owner's has ended if it is not
\* pending any more.
OneWait ==
  /\ event => pending = NoReader
  /\ pending # NoReader => pending = owner
  /\ owner # NoReader => pending = owner \/ event

\* A reader past its arming that was not told of a byte at once has a wait, and what comes after
\* its drain ends it.
Armed ==
  \A t \in Readers :
    /\ at[t] \in {"drain", "look", "wait"} /\ ~fired => owner = t
    /\ at[t] = "wait" => ~fired
    /\ at[t] \in {"look", "wait"} /\ ~fired /\ unread => event

WinInv == WinTypeOK /\ OneReads /\ OneWait /\ Armed /\ OpAlive /\ NothingSleptThrough

LEMMA WinBase == WinInit => WinInv
<1> SUFFICES ASSUME WinInit PROVE WinInv OBVIOUS
<1> USE ReaderAssumption DEF WinInit
<1>1. WinTypeOK
  <2>1. used \in [bytes : Nat, wakes : Nat] OBVIOUS
  <2>2. at \in [Readers -> {"out", "arm", "drain", "look", "wait", "gone"}] OBVIOUS
  <2> QED BY <2>1, <2>2 DEF WinTypeOK
<1>2. OneReads BY DEF OneReads
<1>3. OneWait BY DEF OneWait
<1>4. Armed BY DEF Armed
<1>5. OpAlive /\ NothingSleptThrough BY DEF OpAlive, NothingSleptThrough
<1> QED BY <1>1, <1>2, <1>3, <1>4, <1>5 DEF WinInv

-----------------------------------------------------------------------------
LEMMA WinType == WinTypeOK /\ [WinNext]_winVars => WinTypeOK'
<1> SUFFICES ASSUME WinTypeOK, [WinNext]_winVars PROVE WinTypeOK' OBVIOUS
<1> USE ReaderAssumption, ArrivalAssumption DEF WinTypeOK, EndWait, KeepWait
<1>1. CASE ByteArrives
  <2>1. used.bytes + 1 \in Nat OBVIOUS
  <2>2. used' \in [bytes : Nat, wakes : Nat] BY <1>1, <2>1 DEF ByteArrives
  <2> QED BY <1>1, <2>2 DEF ByteArrives
<1>2. CASE DriverSticks BY <1>2 DEF DriverSticks
<1>3. CASE Wake
  <2>1. used.wakes + 1 \in Nat OBVIOUS
  <2>2. used' \in [bytes : Nat, wakes : Nat] BY <1>3, <2>1 DEF Wake
  <2>3. {history', event', woken'} \subseteq BOOLEAN /\ pending' \in Readers \cup {NoReader}
    BY <1>3 DEF Wake, SetCommMask
  <2>4. /\ waker' \in {"out", "interrupt"}
        /\ UNCHANGED <<unread, stuck, op, owner, rx, at, fired>>
    BY <1>3 DEF Wake
  <2> QED BY <2>2, <2>3, <2>4
<1>4. CASE Drop BY <1>4 DEF Drop, Retire, SetCommMask
<1>5. ASSUME NEW t \in Readers, ReaderStep(t) PROVE WinTypeOK'
  <2>1. CASE Read(t) BY <2>1 DEF Read, Go
  <2>2. CASE KeepArmed(t) BY <2>2 DEF KeepArmed, Go
  <2>3. CASE RetireOther(t) BY <2>3 DEF RetireOther, Retire, SetCommMask, ReadReturns, Go
  <2>4. CASE Arm(t) BY <2>4 DEF Arm, WaitCommEvent, Go
  <2>5. CASE DrainRx(t) BY <2>5 DEF DrainRx, ReadReturns, Go
  <2>6. CASE ReadFails(t) BY <2>6 DEF ReadFails, ReadReturns, Go
  <2>7. CASE Look(t) BY <2>7 DEF Look, ReadReturns, Go
  <2>8. CASE WaitEnds(t) BY <2>8 DEF WaitEnds, Go
  <2>9. CASE WaitTimesOut(t) BY <2>9 DEF WaitTimesOut, ReadReturns, Go
  <2>10. CASE release_read(t) BY <2>10 DEF release_read, Retire, SetCommMask
  <2>11. CASE ThreadExits(t) BY <2>11 DEF ThreadExits
  <2> QED BY <1>5, <2>1, <2>2, <2>3, <2>4, <2>5, <2>6, <2>7, <2>8, <2>9, <2>10, <2>11 DEF ReaderStep
<1>6. CASE UNCHANGED winVars BY <1>6 DEF winVars
<1> QED BY <1>1, <1>2, <1>3, <1>4, <1>5, <1>6 DEF WinNext

LEMMA WinStep == WinInv /\ [WinNext]_winVars => WinInv'
<1> SUFFICES ASSUME WinInv, [WinNext]_winVars PROVE WinInv' OBVIOUS
<1>0. WinTypeOK' BY WinType DEF WinInv
<1> DEFINE Rest == OneReads' /\ OneWait' /\ Armed' /\ OpAlive' /\ NothingSleptThrough'
<1> SUFFICES Rest BY <1>0 DEF WinInv
<1> USE ReaderAssumption
    DEF WinInv, WinTypeOK, OneReads, OneWait, Armed, OpAlive, NothingSleptThrough, EndWait, KeepWait
<1>1. CASE ByteArrives BY <1>1 DEF ByteArrives
<1>2. CASE DriverSticks BY <1>2 DEF DriverSticks
<1>3. CASE Wake
  <2>1. CASE waker = "out" BY <1>3, <2>1 DEF Wake
  <2>2. CASE waker = "interrupt" BY <1>3, <2>2 DEF Wake, SetCommMask
  <2> QED BY <2>1, <2>2
<1>4. CASE Drop BY <1>4 DEF Drop, Retire, SetCommMask
<1>5. ASSUME NEW t \in Readers, ReaderStep(t) PROVE Rest
  <2>1. CASE Read(t) BY <2>1 DEF Read, Go
  <2>2. CASE KeepArmed(t) BY <2>2 DEF KeepArmed, Go
  <2>3. CASE RetireOther(t) BY <2>3 DEF RetireOther, Retire, SetCommMask, ReadReturns, Go
  <2>4. CASE Arm(t) BY <2>4 DEF Arm, WaitCommEvent, Go
  <2>5. CASE DrainRx(t) BY <2>5 DEF DrainRx, ReadReturns, Go
  <2>6. CASE ReadFails(t) BY <2>6 DEF ReadFails, ReadReturns, Go
  <2>7. CASE Look(t) BY <2>7 DEF Look, ReadReturns, Go
  <2>8. CASE WaitEnds(t) BY <2>8 DEF WaitEnds, Go
  <2>9. CASE WaitTimesOut(t) BY <2>9 DEF WaitTimesOut, ReadReturns, Go
  <2>10. CASE release_read(t) BY <2>10 DEF release_read, Retire, SetCommMask
  <2>11. CASE ThreadExits(t) BY <2>11 DEF ThreadExits
  <2> QED BY <1>5, <2>1, <2>2, <2>3, <2>4, <2>5, <2>6, <2>7, <2>8, <2>9, <2>10, <2>11 DEF ReaderStep
<1>6. CASE UNCHANGED winVars BY <1>6 DEF winVars
<1> QED BY <1>1, <1>2, <1>3, <1>4, <1>5, <1>6 DEF WinNext

-----------------------------------------------------------------------------
\* The memory of a wait outlives the wait, whichever thread armed it, exits, retires it or drops
\* the transport, and whether the driver ends the wait when told to or not.
THEOREM OpAliveCorrect == WinSpec => []OpAlive
<1>1. WinInv => OpAlive BY DEF WinInv
<1> QED BY WinBase, WinStep, <1>1, PTL DEF WinSpec

\* No reader sleeps through a byte or a finished wake_read, unless the driver is stuck: it arms
\* before it drains, and a wake sets its flag before it ends the wait.
THEOREM WokenCorrect == WinSpec => []NothingSleptThrough
<1>1. WinInv => NothingSleptThrough BY DEF WinInv
<1> QED BY WinBase, WinStep, <1>1, PTL DEF WinSpec

-----------------------------------------------------------------------------
(* The C calls.                                                             *)

Refusals == {"ErrInvalidArg", "ErrEmptySubscription"}
CheckRecords ==
  [test : {"null", "unnamed", "empty", "missing", "image"}, of : SUBSET Pointers, status : Refusals]

\* The check that refuses a null `p`.  One of an optional slice lets it pass when there is none.
Covers(check, p, family) ==
  \/ check.test = "null" /\ p \in check.of
  \/ check.test = "image" /\ p = "data"
  \/ check.test = "missing" /\ p = "data" /\ p \notin family.always

WellChecked(family) ==
  /\ DOMAIN family.checks = 1..Len(family.checks)
  /\ \A i \in DOMAIN family.checks : family.checks[i] \in CheckRecords
  /\ family.follows \subseteq Pointers /\ family.always \subseteq family.follows
  /\ \A p \in family.follows : \E i \in DOMAIN family.checks : Covers(family.checks[i], p, family)

-----------------------------------------------------------------------------
(* Every family makes the checks its body needs.                            *)

LEMMA DeviceChecked ==
  \A family \in UNION {Opens, Finds, Lists, Identified, Motions, Injections, Locking, Verbs, Raw,
    Exchanges, OfRules, OfPatches, OfTransforms, Configuring, Firmware, Queries, Counters} :
    WellChecked(family)
<1> USE DEF WellChecked, Covers, CheckRecords, Refusals, Pointers, Calls, Status, Value, WithData,
      Null, Unnamed, Empty, Missing, ImageGiven, Handle, HandleAndOut, HandleAndData
<1>1. ASSUME NEW f \in Opens \cup Finds \cup Lists \cup Identified PROVE WellChecked(f)
  BY <1>1 DEF Opens, Finds, Lists, Identified, Opening
<1>2. WellChecked(with_device) BY DEF with_device
<1>3. WellChecked(query) BY DEF query
<1>4. WellChecked(ThenNamed) BY DEF ThenNamed
<1>5. WellChecked(NamedFirst) BY DEF NamedFirst
<1>6. WellChecked(OfStruct) BY DEF OfStruct
<1>7. WellChecked(Staging) BY DEF Staging
<1>8. ASSUME NEW f \in Injections PROVE WellChecked(f) BY <1>4 DEF Injections
<1>9. ASSUME NEW f \in Raw \cup Exchanges PROVE WellChecked(f) BY DEF Raw, Exchanges
<1> HIDE DEF WellChecked
<1>10. ASSUME NEW f \in {with_device, query, ThenNamed, NamedFirst, OfStruct, Staging}
       PROVE  WellChecked(f)
  BY ONLY <1>10, <1>2, <1>3, <1>4, <1>5, <1>6, <1>7
<1>11. UNION {Motions, Locking, Verbs, OfRules, OfPatches, OfTransforms, Configuring, Firmware,
         Queries, Counters} \subseteq {with_device, query, ThenNamed, NamedFirst, OfStruct, Staging}
  BY ONLY <1>10 DEF Motions, Locking, Verbs, OfRules, OfPatches, OfTransforms, Configuring, Firmware, Queries, Counters
<1> QED BY ONLY <1>1, <1>8, <1>9, <1>10, <1>11

LEMMA StreamChecked ==
  \A family \in UNION {Events, Inputs, InputReads, Logs, Timelines} : WellChecked(family)
<1> USE DEF WellChecked, Covers, CheckRecords, Refusals, Pointers, Calls, Status, Value,
      Null, Unnamed, Empty, Handle, HandleAndOut
<1>1. ASSUME NEW kind PROVE WellChecked(Subscribes(kind)) BY DEF Subscribes
<1>2. ASSUME NEW kind, NEW f \in Receives(kind) \cup Polls(kind) PROVE WellChecked(f)
  BY DEF Receives, Polls
<1>3. ASSUME NEW f \in Held PROVE WellChecked(f) BY DEF Held
<1>4. ASSUME NEW f \in Logs PROVE WellChecked(f) BY <1>2 DEF Logs
<1>5. ASSUME NEW f \in Timelines PROVE WellChecked(f) BY DEF Timelines, Observes
<1> QED BY ONLY <1>1, <1>2, <1>3, <1>4, <1>5 DEF Events, Inputs, InputReads

LEMMA ClipChecked ==
  \A family \in UNION {Frames, Builders, ClipOf, AppendsClip, Autolock, Binds, BindsPacket, Plays,
    Lost, Reads} : WellChecked(family)
<1> USE DEF WellChecked, Covers, CheckRecords, Refusals, Pointers, Calls, Status, Value,
      Null, Unnamed, Missing, Handle, HandleAndOut, HandleAndData
<1>1. ASSUME NEW f \in Frames PROVE WellChecked(f) BY DEF Frames, Building
<1>2. ASSUME NEW f \in Builders PROVE WellChecked(f) BY DEF Builders, Building
<1>3. ASSUME NEW f \in ClipOf \cup AppendsClip PROVE WellChecked(f) BY DEF ClipOf, AppendsClip
<1>4. ASSUME NEW f \in Autolock \cup Binds PROVE WellChecked(f) BY DEF Autolock, Binds
<1>5. ASSUME NEW f \in BindsPacket \cup Plays PROVE WellChecked(f) BY DEF BindsPacket, Plays, with_clip
<1>6. ASSUME NEW f \in Lost \cup Reads PROVE WellChecked(f) BY DEF Lost, Reads
<1> QED BY ONLY <1>1, <1>2, <1>3, <1>4, <1>5, <1>6

LEMMA MockChecked ==
  \A family \in UNION {MockHandles, MockIdentity, MockTables, MockTransfer, MockOptions, MockClip,
    MockSession, MockPushes, MockReads, MockOpens} : WellChecked(family)
<1> USE DEF WellChecked, Covers, CheckRecords, Refusals, Pointers, Calls, Status, Value,
      Null, Unnamed, Missing, Handle, HandleAndOut, HandleAndData, with_mock, ScriptsNamed
<1>1. ASSUME NEW f \in {with_mock, ScriptsNamed} PROVE WellChecked(f) OBVIOUS
<1>2. ASSUME NEW f \in MockHandles PROVE WellChecked(f) BY DEF MockHandles
<1>3. ASSUME NEW f \in MockClip PROVE WellChecked(f) BY DEF MockClip
<1>4. ASSUME NEW f \in MockPushes PROVE WellChecked(f) BY DEF MockPushes
<1>5. ASSUME NEW f \in MockOpens PROVE WellChecked(f) BY DEF MockOpens, Opening
<1>6. UNION {MockIdentity, MockTables, MockTransfer, MockOptions, MockSession, MockReads}
        \subseteq {with_mock, ScriptsNamed}
  BY ONLY DEF MockIdentity, MockTables, MockTransfer, MockOptions, MockSession, MockReads
<1> QED BY ONLY <1>1, <1>2, <1>3, <1>4, <1>5, <1>6

LEMMA AllChecked == \A family \in Families : WellChecked(family)
  BY DeviceChecked, StreamChecked, ClipChecked, MockChecked DEF Families
-----------------------------------------------------------------------------
(* The calls that passed their checks.                                      *)

Checked ==
  {it \in MadeCalls : \A i \in DOMAIN it.call.checks : ~Rejects(it.call.checks[i], it.args)}
InsideType == inside \in [ApiThreads -> Seq(Checked)]

LEMMA FrontType ==
  ASSUME NEW S, NEW s \in Seq(S), s # <<>>
  PROVE  Front(s) \in Seq(S)
  BY DEF Front

LEMMA MadeFields ==
  ASSUME NEW it \in MadeCalls
  PROVE  it.call \in Families /\ it.args \in ArgumentsOf(it.call)
  BY DEF MadeCalls

LEMMA LeaveInside ==
  ASSUME InsideType, NEW t \in ApiThreads, Leave(t)
  PROVE  InsideType'
  BY FrontType DEF InsideType, Leave

LEMMA InsideStep == InsideType /\ [ApiNext]_apiVars => InsideType'
<1> SUFFICES ASSUME InsideType, [ApiNext]_apiVars PROVE InsideType' OBVIOUS
<1>1. ASSUME NEW t \in ApiThreads, EnterCall(t) PROVE InsideType'
  <2> PICK it \in MadeCalls :
        \/ UNCHANGED inside
        \/ /\ \A i \in DOMAIN it.call.checks : ~Rejects(it.call.checks[i], it.args)
           /\ inside' = [inside EXCEPT ![t] = Append(@, it)]
    BY <1>1 DEF EnterCall
  <2>1. CASE UNCHANGED inside BY <2>1 DEF InsideType
  <2>2. CASE /\ \A i \in DOMAIN it.call.checks : ~Rejects(it.call.checks[i], it.args)
             /\ inside' = [inside EXCEPT ![t] = Append(@, it)]
    <3>1. it \in Checked BY <2>2 DEF Checked
    <3>2. Append(inside[t], it) \in Seq(Checked) BY <3>1 DEF InsideType
    <3> QED BY <2>2, <3>2 DEF InsideType
  <2> QED BY <2>1, <2>2
<1>2. ASSUME NEW t \in ApiThreads, CallSucceeds(t) PROVE InsideType'
  BY <1>2, LeaveInside DEF CallSucceeds
<1>3. ASSUME NEW t \in ApiThreads, CallPanics(t) PROVE InsideType'
  BY <1>3, LeaveInside DEF CallPanics
<1>4. ASSUME NEW t \in ApiThreads, NEW e \in Errors, CallFails(t, e) PROVE InsideType'
  BY <1>4, LeaveInside DEF CallFails
<1>5. ASSUME NEW kind \in Kinds, CloneHandle(kind) \/ FreeHandle(kind) \/ CloseStream(kind)
      PROVE  InsideType'
  BY <1>5 DEF InsideType, CloneHandle, FreeHandle, CloseStream
<1>6. CASE UNCHANGED apiVars BY <1>6 DEF InsideType, apiVars
<1> QED BY <1>1, <1>2, <1>3, <1>4, <1>5, <1>6 DEF ApiNext, Kinds

\* A call that passed its checks gave no null its body follows.
LEMMA CheckedIsSafe ==
  ASSUME NEW it \in Checked
  PROVE  it.args.null \cap (IF it.args.empty THEN it.call.always ELSE it.call.follows) = {}
<1>1. it \in MadeCalls BY DEF Checked
<1>2. it.call \in Families /\ it.args \in ArgumentsOf(it.call) BY <1>1, MadeFields
<1>3. WellChecked(it.call) BY <1>2, AllChecked
<1> SUFFICES ASSUME NEW p, p \in it.args.null,
                    p \in IF it.args.empty THEN it.call.always ELSE it.call.follows
             PROVE  FALSE
  OBVIOUS
<1>4. p \in it.call.follows BY <1>3 DEF WellChecked
<1> PICK i \in DOMAIN it.call.checks : Covers(it.call.checks[i], p, it.call)
  BY <1>3, <1>4 DEF WellChecked
<1>5. ~Rejects(it.call.checks[i], it.args) BY DEF Checked
<1>6. it.args.empty \in BOOLEAN BY <1>2 DEF ArgumentsOf, Arguments
<1> QED BY <1>5, <1>6 DEF Covers, Rejects

-----------------------------------------------------------------------------
(* What a thread was last told.                                             *)

Stated == [message : Errors \cup Refusals \cup {"ErrPanic", ""}, proto_ver : {0, 1}, update : BOOLEAN]
Outcomes == [status : Refusals \cup {"ErrPanic", "ErrBadProtoVer", "ErrUpdate", "ErrDisconnected",
                                "ErrUnknown", "Ok", "none"},
         error : Errors \cup Refusals \cup {"ErrPanic", "none"}]
ToldType == lastError \in [ApiThreads -> Stated] /\ returned \in [ApiThreads -> Outcomes]

LEMMA TellsHow ==
  ASSUME ToldType, LastErrorIsLast, NEW t \in ApiThreads,
         \/ \E status \in Refusals \cup {"ErrPanic"} : fail(t, status)
         \/ \E e \in Errors : record(t, e)
         \/ clear_error(t)
         \/ Unheard
  PROVE  ToldType' /\ LastErrorIsLast'
<1> USE ApiAssumption DEF ToldType, LastErrorIsLast
<1>1. ASSUME NEW status \in Refusals \cup {"ErrPanic"}, fail(t, status) PROVE ToldType' /\ LastErrorIsLast'
  <2>1. [message |-> status, proto_ver |-> 0, update |-> FALSE] \in Stated BY DEF Stated
  <2>2. [status |-> status, error |-> status] \in Outcomes BY DEF Outcomes
  <2> QED BY <1>1, <2>1, <2>2 DEF fail, Stored, Refusals
<1>2. ASSUME NEW e \in Errors, record(t, e) PROVE ToldType' /\ LastErrorIsLast'
  <2>1. PICK got \in Got(e) : Stored(t, e, got, e = "Update") BY <1>2 DEF record
  <2>2. got \in {0, 1} /\ (e # "BadProtoVer" => got = 0) BY DEF Got
  <2>3. [message |-> e, proto_ver |-> got, update |-> e = "Update"] \in Stated BY <2>2 DEF Stated
  <2>4. [status |-> status_for(e), error |-> e] \in Outcomes BY DEF Outcomes, status_for
  <2>5. ToldType' BY <1>2, <2>1, <2>3, <2>4 DEF record, Stored
  <2> DEFINE status == status_for(e)
  <2>6. /\ e = "BadProtoVer" => status = "ErrBadProtoVer"
        /\ e = "Update" => status = "ErrUpdate"
        /\ e \notin {"BadProtoVer", "Update"} => status \in {"ErrDisconnected", "ErrUnknown"}
    BY DEF status_for
  <2>7. /\ lastError'[t].message = e /\ lastError'[t].proto_ver = got
        /\ lastError'[t].update <=> (e = "Update")
    BY <2>1 DEF Stored
  <2>8. returned'[t].status = status BY <1>2 DEF record
  <2>9. \A u \in ApiThreads \ {t} : lastError'[u] = lastError[u] /\ returned'[u] = returned[u]
    BY <1>2, <2>1 DEF record, Stored
  <2> HIDE DEF status
  <2>10. /\ (lastError'[t].message = "") <=> (returned'[t].status \in {"Ok", "none"})
         /\ lastError'[t].proto_ver # 0 => returned'[t].status = "ErrBadProtoVer"
         /\ lastError'[t].update <=> (returned'[t].status = "ErrUpdate")
    BY <2>2, <2>6, <2>7, <2>8
  <2>11. LastErrorIsLast' BY <2>9, <2>10
  <2> QED BY <2>5, <2>11
<1>3. CASE clear_error(t)
  <2>1. [message |-> "", proto_ver |-> 0, update |-> FALSE] \in Stated BY DEF Stated
  <2>2. [status |-> "Ok", error |-> "none"] \in Outcomes BY DEF Outcomes
  <2> QED BY <1>3, <2>1, <2>2 DEF clear_error, Stored
<1>4. CASE Unheard BY <1>4 DEF Unheard
<1> QED BY <1>1, <1>2, <1>3, <1>4

LEMMA ToldStep ==
  InsideType /\ ToldType /\ LastErrorIsLast /\ [ApiNext]_apiVars => ToldType' /\ LastErrorIsLast'
<1> SUFFICES ASSUME InsideType, ToldType, LastErrorIsLast, [ApiNext]_apiVars
             PROVE  ToldType' /\ LastErrorIsLast'
  OBVIOUS
<1>1. ASSUME NEW t \in ApiThreads, EnterCall(t) PROVE ToldType' /\ LastErrorIsLast'
  <2> PICK it \in MadeCalls :
        \/ \E i \in DOMAIN it.call.checks : CallRefused(t, it.call, it.call.checks[i])
        \/ Unheard
    BY <1>1 DEF EnterCall
  <2>1. WellChecked(it.call) BY MadeFields, AllChecked
  <2>2. ASSUME NEW i \in DOMAIN it.call.checks, CallRefused(t, it.call, it.call.checks[i])
        PROVE  fail(t, it.call.checks[i].status) \/ Unheard
    BY <2>2 DEF CallRefused
  <2>3. \A i \in DOMAIN it.call.checks : it.call.checks[i].status \in Refusals
    BY <2>1 DEF WellChecked, CheckRecords
  <2> QED BY <2>2, <2>3, TellsHow
<1>2. ASSUME NEW t \in ApiThreads, CallSucceeds(t) PROVE ToldType' /\ LastErrorIsLast'
  <2>1. clear_error(t) \/ Unheard BY <1>2 DEF CallSucceeds
  <2> QED BY <2>1, TellsHow
<1>3. ASSUME NEW t \in ApiThreads, CallPanics(t) PROVE ToldType' /\ LastErrorIsLast'
  <2>1. fail(t, "ErrPanic") \/ Unheard BY <1>3 DEF CallPanics, Panicked
  <2> QED BY <2>1, TellsHow
<1>4. ASSUME NEW t \in ApiThreads, NEW e \in Errors, CallFails(t, e) PROVE ToldType' /\ LastErrorIsLast'
  <2>1. record(t, e) \/ Unheard BY <1>4 DEF CallFails
  <2> QED BY <2>1, TellsHow
<1>5. ASSUME NEW kind \in Kinds, CloneHandle(kind) \/ FreeHandle(kind) \/ CloseStream(kind)
      PROVE  ToldType' /\ LastErrorIsLast'
  BY <1>5 DEF ToldType, LastErrorIsLast, CloneHandle, FreeHandle, CloseStream
<1>6. CASE UNCHANGED apiVars BY <1>6 DEF ToldType, LastErrorIsLast, apiVars
<1> QED BY <1>1, <1>2, <1>3, <1>4, <1>5, <1>6 DEF ApiNext, Kinds

-----------------------------------------------------------------------------
(* The owners of the connection.                                            *)

One(n) == IF n > 0 THEN 1 ELSE 0

OwnersCounted ==
  /\ live \in [Kinds -> Nat]
  /\ live["input"] <= 1
  /\ refs = live["device"] + live["clip"] + One(live["events"]) + live["input"]

LEMMA OwnersStep == OwnersCounted /\ [ApiNext]_apiVars => OwnersCounted'
<1> SUFFICES ASSUME OwnersCounted, [ApiNext]_apiVars PROVE OwnersCounted' OBVIOUS
<1> USE DEF OwnersCounted, One, Kinds
<1>1. ASSUME UNCHANGED <<live, refs>> PROVE OwnersCounted' BY <1>1
<1>2. ASSUME NEW t \in ApiThreads, CallSucceeds(t) PROVE OwnersCounted'
  <2> DEFINE kind == Running(t).call.makes
  <2>0. Makes(kind) BY <1>2 DEF CallSucceeds
  <2>1. CASE kind \in Kinds
    <3>1. /\ MayMake(kind)
          /\ live' = [live EXCEPT ![kind] = @ + 1]
          /\ refs' = IF Owns(kind) THEN refs + 1 ELSE refs
      BY ONLY <2>0, <2>1 DEF Makes
    <3> HIDE DEF kind
    <3>2. CASE kind \in {"device", "clip"} BY <3>1, <3>2 DEF Owns
    <3>3. CASE kind \in {"events", "input"}
      <4>1. live[kind] = 0 BY <3>1, <3>3 DEF MayMake
      <4> QED BY <3>1, <3>3, <4>1 DEF Owns
    <3>4. CASE kind = "logs" BY <3>1, <3>4 DEF Owns
    <3> QED BY <2>1, <3>2, <3>3, <3>4
  <2>2. CASE kind \notin Kinds BY ONLY <2>0, <2>2, <1>1 DEF Makes
  <2> QED BY <2>1, <2>2
<1>3. ASSUME NEW kind \in {"device", "events", "logs"}, CloneHandle(kind) PROVE OwnersCounted'
  BY <1>3 DEF CloneHandle
<1>4. ASSUME NEW kind \in Kinds, FreeHandle(kind) PROVE OwnersCounted'
  <2>1. live[kind] > 0 BY <1>4 DEF FreeHandle
  <2> QED BY <1>4, <2>1 DEF FreeHandle, Releases, Owns
<1> QED
  BY <1>1, <1>2, <1>3, <1>4
  DEF ApiNext, EnterCall, CallFails, CallPanics, CloseStream, apiVars

-----------------------------------------------------------------------------
\* No body follows a null pointer, whatever the order its family makes its checks in.
THEOREM NoNullCorrect == ApiSpec => []NoNullFollowed
<1>1. ApiInit => InsideType BY DEF ApiInit, InsideType
<1>2. InsideType => NoNullFollowed
  BY CheckedIsSafe DEF InsideType, NoNullFollowed
<1> QED BY <1>1, InsideStep, <1>2, PTL DEF ApiSpec

\* A thread's last error is that of the last call that told it how it ended, callbacks and panics
\* included.
THEOREM LastErrorCorrect == ApiSpec => []LastErrorIsLast
<1> DEFINE Inv == InsideType /\ ToldType /\ LastErrorIsLast
<1>1. ApiInit => Inv
  <2> SUFFICES ASSUME ApiInit PROVE Inv OBVIOUS
  <2>1. InsideType BY DEF ApiInit, InsideType
  <2>2. NoError \in Stated /\ NotTold \in Outcomes BY DEF Stated, Outcomes, NoError, NotTold
  <2>3. ToldType BY <2>2 DEF ApiInit, ToldType
  <2>4. LastErrorIsLast BY DEF ApiInit, LastErrorIsLast, NoError, NotTold
  <2> QED BY <2>1, <2>3, <2>4
<1>2. Inv /\ [ApiNext]_apiVars => Inv' BY InsideStep, ToldStep
<1>3. Inv => LastErrorIsLast OBVIOUS
<1> HIDE DEF Inv
<1> QED BY <1>1, <1>2, <1>3, PTL DEF ApiSpec

\* The connection is open exactly while a device, clip, event or input handle lives, in whatever
\* order they are cloned and freed.
THEOREM OpenCorrect == ApiSpec => []OpenWhileHeld
<1>1. ApiInit => OwnersCounted BY DEF ApiInit, OwnersCounted, One, Kinds
<1>2. OwnersCounted => OpenWhileHeld BY DEF OwnersCounted, OpenWhileHeld, One, Kinds
<1> QED BY <1>1, OwnersStep, <1>2, PTL DEF ApiSpec

-----------------------------------------------------------------------------
(* What the crate's checks let through, and the runs of the triggers.        *)

\* A rule that waits for its frame was validated.
OfferedInv ==
  /\ AcceptedIsTaken
  /\ gated.call = "rule" => validate_rule(gated.rule)

\* What the crate lets through is what the box takes.
LEMMA ValidIsTaken ==
  ASSUME NEW r, validate_rule(r) PROVE Rewritable(r) /\ Admissible(r)
<1>1. Rewritable(r) BY DEF validate_rule, Rewritable
<1>2. HeadFits(r) /\ is_valid_for(r.action, r.class) BY DEF validate_rule
<1> DEFINE act == r.action
           caps == CASE act \in {"Patch", "ReplyPatch"} -> r.offset + r.plen <= HeadOf(r.class)
                     [] act = "Replace" -> r.plen <= HeadOf(r.class)
                     [] act \in {"Answer", "ReplyReplace"} -> r.plen <= HeadControl
                     [] OTHER -> TRUE
           fits == CASE act \in {"Pass", "Patch", "Replace"} -> TRUE
                     [] act = "Drop" -> r.class \notin {"Control", "Any"}
                     [] OTHER -> r.class = "Control"
<1>3. Admissible(r) <=> caps /\ fits BY DEF Admissible
<1>4. /\ act \in {"Patch", "ReplyPatch"} => r.offset + r.plen <= HeadOf(r.class)
      /\ act = "Replace" => r.plen <= HeadOf(r.class)
      /\ act \in {"Answer", "ReplyReplace"} => r.plen <= HeadControl
  BY <1>2 DEF HeadFits
<1>5. \/ act \in {"Pass", "Patch", "Replace"}
      \/ act = "Drop" /\ r.class \notin {"Control", "Any"}
      \/ act \in {"Answer", "Stall", "Nak", "ReplyPatch", "ReplyReplace"} /\ r.class = "Control"
  BY <1>2 DEF is_valid_for, IsControl
<1> HIDE DEF act
<1>6. caps BY ONLY <1>4
<1>7. fits BY ONLY <1>5
<1> QED BY <1>1, <1>3, <1>6, <1>7

LEMMA AdmittedIsOk ==
  ASSUME NEW t \in Transforms, admits(t) PROVE PairOk(t)
<1>1. /\ t.op \in {"Swap", "Remap"}
      /\ t.src = <<t.src[1], t.src[2]>> /\ t.dst = <<t.dst[1], t.dst[2]>>
  BY TransformAssumption
<1>2. t.src # t.dst BY DEF admits
<1>3. ~(t.src[1] = t.dst[1] /\ t.src[2] = t.dst[2]) BY ONLY <1>1, <1>2
<1>4. CASE t.op = "Swap" BY <1>3, <1>4 DEF admits, PairOk
<1>5. CASE t.op = "Remap" BY <1>3, <1>5 DEF admits, PairOk
<1> QED BY <1>1, <1>4, <1>5

LEMMA OfferedStep == OfferedInv /\ [OptionsNext]_optionVars => OfferedInv'
<1> SUFFICES ASSUME OfferedInv, [OptionsNext]_optionVars PROVE OfferedInv' OBVIOUS
<1>1. ASSUME UNCHANGED <<gated, outcome>> PROVE OfferedInv' BY <1>1 DEF OfferedInv, AcceptedIsTaken
<1>2. CASE set_rewrite
  <2>1. PICK r : validate_rule(r) /\ AskOptIn([call |-> "rule", rule |-> r]) BY <1>2 DEF set_rewrite
  <2> QED BY <2>1 DEF AskOptIn, OfferedInv, AcceptedIsTaken
<1>3. CASE apply_patch BY <1>3 DEF apply_patch, AskOptIn, OfferedInv, AcceptedIsTaken
<1>4. CASE SendGated
  <2>1. gated'.call # "rule" BY <1>4 DEF SendGated, NoGated
  <2>2. CASE UNCHANGED outcome BY <2>1, <2>2 DEF OfferedInv, AcceptedIsTaken
  <2>3. CASE /\ gated.call = "rule" /\ SetRule(gated.rule)
             /\ outcome' = [call |-> "set", on |-> optIn, taken |-> gated.rule \in rules' \/ rulesFull']
    <3>1. Rewritable(gated.rule) /\ Admissible(gated.rule) BY <2>3, ValidIsTaken DEF OfferedInv
    <3>2. optIn => gated.rule \in rules' \/ rulesFull' BY <2>3, <3>1 DEF SetRule
    <3> QED BY <2>1, <2>3, <3>2 DEF OfferedInv, AcceptedIsTaken
  <2> QED BY <1>4, <2>2, <2>3 DEF SendGated
<1>5. ASSUME NEW r, remove_rewrite(r) PROVE OfferedInv'
  BY <1>5 DEF remove_rewrite, OfferedInv, AcceptedIsTaken
<1>6. ASSUME NEW t \in Transforms, transform(t) PROVE OfferedInv'
  <2>1. PairOk(t) BY <1>6, AdmittedIsOk DEF transform
  <2>2. Declares(t.src) /\ Declares(t.dst) => t \in transforms' \/ transformsFull'
    BY <1>6, <2>1 DEF transform, SetTransform
  <2> QED BY <1>6, <2>2 DEF transform, OfferedInv, AcceptedIsTaken
<1> QED
  BY <1>1, <1>2, <1>3, <1>4, <1>5, <1>6
  DEF OptionsNext, optionVars, clear_patch, bind_consuming, clear_rewrite, clear_transforms, reset,
      factory_reset, Restart, PresentDue, BootEnds, Attach, GraceEnds, untransform, set_patch, set_option,
      allow_imperfect_clones, Detach

-----------------------------------------------------------------------------
(* The packet triggers.                                                     *)

LEMMA ValidIsGood ==
  ASSUME NEW t \in Triggers, validate_packet_trigger(t) PROVE ~BadTrigger(t)
<1>1. validate_packet_key(t) BY DEF validate_packet_trigger
<1>2. ~BadKey(t)
  <2>1. t.class \in Surfaces /\ (t.dir # "BOTH" => class_carries(t.class, t.dir))
    BY <1>1 DEF validate_packet_key
  <2>2. /\ t.class \in {"HidIn", "Emit"} => (class_carries(t.class, t.dir) <=> t.dir = "IN")
        /\ t.class = "HidOut" => (class_carries(t.class, t.dir) <=> t.dir = "OUT")
    BY DEF class_carries
  <2>3. ~(t.dir = "OUT" /\ t.class \in {"HidIn", "Emit"}) /\ ~(t.dir = "IN" /\ t.class = "HidOut")
    BY ONLY <2>1, <2>2
  <2>4. /\ t.dir \in {"BOTH", "IN", "OUT"} /\ Len(t.match) = Len(t.mask)
        /\ ~(Len(t.match) > MatchMax) /\ BitsInMask(t)
    <3>1. Len(t.match) \in Nat BY TriggerAssumption
    <3>2. MatchMax \in Nat BY LimitAssumption
    <3> QED BY <1>1, <3>1, <3>2 DEF validate_packet_key
  <2> QED BY <2>1, <2>3, <2>4 DEF BadKey
<1>3. CASE t.run
  <2>1. ~BadRun(t) BY <1>3 DEF validate_packet_trigger, BadRun, OneStream
  <2> QED BY <1>2, <1>3, <2>1 DEF validate_packet_trigger, BadTrigger
<1>4. CASE ~t.run BY <1>2, <1>4 DEF validate_packet_trigger, BadTrigger
<1> QED BY <1>3, <1>4

LEMMA ThreeChecksStep == ThreeChecks /\ [TriggersNext]_triggerVars => ThreeChecks'
<1> SUFFICES ASSUME ThreeChecks, [TriggersNext]_triggerVars PROVE ThreeChecks' OBVIOUS
<1>1. CASE BindPacket
  <2>1. PICK t \in Triggers :
          /\ validate_packet_trigger(t)
          /\ \/ refusal' = IF BadTrigger(t) THEN "rule" ELSE IF NoRoom(t) THEN "room" ELSE "optin"
             \/ refusal' = "none"
    BY <1>1 DEF BindPacket
  <2> QED BY <2>1, ValidIsGood DEF ThreeChecks
<1> QED
  BY <1>1 DEF ThreeChecks, TriggersNext, UnbindPacket, ClearTriggers, AllowImperfect, Packet, triggerVars

\* What the crate sends is refused only for what the box alone can know, whichever part runs.
THEOREM NothingRefused == Spec => []NoSilentRefusal
<1> DEFINE Inv == OfferedInv /\ ThreeChecks
<1>1. Init => Inv
  BY DEF Init, OptionsInit, TriggersInit, OfferedInv, AcceptedIsTaken, ThreeChecks, NoGated, NoResult
<1>2. Inv /\ [Next]_partVars => Inv'
  <2> SUFFICES ASSUME Inv, [Next]_partVars PROVE Inv' OBVIOUS
  <2>1. [OptionsNext]_optionVars BY DEF Next, partVars
  <2>2. [TriggersNext]_triggerVars BY DEF Next, partVars, Transfers
  <2> QED BY <2>1, <2>2, OfferedStep, ThreeChecksStep
<1>3. Inv => NoSilentRefusal BY DEF OfferedInv, NoSilentRefusal
<1> QED BY <1>1, <1>2, <1>3, PTL DEF Spec

-----------------------------------------------------------------------------
\* What is held: a key the crate let through; a run is over one stream, its selector is shorter than its match, and one
\* that has acted is on.
Held1(r) ==
  /\ r.t \in Triggers /\ validate_packet_key(r.t)
  /\ r.t.run => OneStream(r.t) /\ r.t.slen < Len(r.t.match)
RunsKnown(R, K) ==
  /\ \A r \in R : Held1(r) /\ (r.t.run /\ Key(r.t) \in K => r.live)
  /\ \A r, s \in R : Key(r.t) = Key(s.t) => r.t = s.t

RunsInv == ~twice /\ rows \in Seq(ToSet(rows)) /\ RunsKnown(ToSet(rows), acted)

LEMMA SeqOfOwn ==
  ASSUME NEW T, NEW s \in Seq(T) PROVE s \in Seq(ToSet(s))
<1>1. DOMAIN s = 1..Len(s) /\ Len(s) \in Nat /\ s = [i \in 1..Len(s) |-> s[i]] OBVIOUS
<1>2. \A i \in 1..Len(s) : s[i] \in ToSet(s) BY <1>1 DEF ToSet
<1>3. s \in [1..Len(s) -> ToSet(s)] BY ONLY <1>1, <1>2
<1> QED BY ONLY <1>1, <1>3, SeqDef

\* Fewer rows, and fewer that acted.
LEMMA RunsFewer ==
  ASSUME NEW R, NEW K, RunsKnown(R, K), NEW S \in SUBSET R, NEW L \in SUBSET K
  PROVE  RunsKnown(S, L)
BY DEF RunsKnown

LEMMA RetainRuns ==
  ASSUME RunsInv, NEW kept, rows' = Retain(rows, kept), acted' \subseteq acted, UNCHANGED twice
  PROVE  RunsInv'
<1>1. rows \in Seq(ToSet(rows)) /\ RunsKnown(ToSet(rows), acted) BY DEF RunsInv
<1>2. rows' \in Seq(ToSet(rows)) /\ ToSet(rows') \subseteq ToSet(rows) BY <1>1, RetainSet
<1>3. rows' \in Seq(ToSet(rows')) BY <1>2, SeqOfOwn
<1>4. RunsKnown(ToSet(rows'), acted') BY <1>1, <1>2, RunsFewer
<1> QED BY <1>3, <1>4 DEF RunsInv

LEMMA BindRuns ==
  ASSUME RunsInv, NEW t \in Triggers, validate_packet_trigger(t), rows' = Set(t), UNCHANGED twice,
         acted' = acted \ {k \in acted : k = Key(t) /\ \A r \in ToSet(rows) : r.t # t}
  PROVE  RunsInv'
<1> DEFINE new == [t |-> t, live |-> FALSE]
           T == ToSet(rows) \cup {new}
<1>1. rows \in Seq(ToSet(rows)) /\ RunsKnown(ToSet(rows), acted) BY DEF RunsInv
<1>2. rows \in Seq(T) /\ DOMAIN rows = 1..Len(rows) /\ Len(rows) \in Nat
      /\ \A i \in DOMAIN rows : rows[i] \in ToSet(rows)
  BY <1>1 DEF ToSet
<1>3. /\ rows' \in Seq(T)
      /\ \A r \in ToSet(rows') :
           \/ r \in ToSet(rows) /\ (Key(r.t) = Key(t) => r.t = t)
           \/ r = new /\ \A q \in ToSet(rows) : q.t # t
  <2>1. CASE Found(t) = {}
    <3>1. rows' = Append(rows, new) BY <2>1 DEF Set
    <3>2. \A q \in ToSet(rows) : Key(q.t) # Key(t) BY <2>1 DEF Found, ToSet
    <3>3. \A q \in ToSet(rows) : q.t # t BY <3>2
    <3> HIDE DEF new
    <3>4. rows' \in Seq(T) /\ ToSet(rows') = ToSet(rows) \cup {new} BY <1>2, <3>1, AppendSet
    <3> QED BY <3>2, <3>3, <3>4
  <2>2. CASE Found(t) # {}
    <3>1. rows' = [i \in DOMAIN rows |-> IF i \in Found(t) /\ rows[i].t # t THEN new ELSE rows[i]]
      BY <2>2 DEF Set
    <3> HIDE DEF new
    <3>2. rows' \in Seq(T) /\ DOMAIN rows' = DOMAIN rows BY <1>2, <3>1
    <3>3. ASSUME NEW i \in DOMAIN rows
          PROVE  \/ rows'[i] \in ToSet(rows) /\ (Key(rows'[i].t) = Key(t) => rows'[i].t = t)
                 \/ rows'[i] = new /\ \A q \in ToSet(rows) : q.t # t
      <4>1. CASE i \in Found(t) /\ rows[i].t # t
        <5>1. Key(rows[i].t) = Key(t) /\ rows[i] \in ToSet(rows) BY <1>2, <4>1 DEF Found
        <5>2. \A q \in ToSet(rows) : q.t # t BY <1>1, <4>1, <5>1 DEF RunsKnown
        <5> QED BY <3>1, <4>1, <5>2
      <4>2. CASE ~(i \in Found(t) /\ rows[i].t # t)
        <5>1. rows'[i] = rows[i] BY <3>1, <4>2
        <5> QED BY <1>2, <4>2, <5>1 DEF Found
      <4> QED BY <4>1, <4>2
    <3> QED BY <3>2, <3>3 DEF ToSet
  <2> QED BY <2>1, <2>2
<1>4. rows' \in Seq(ToSet(rows')) BY <1>3, SeqOfOwn
<1>5. new.t = t /\ Held1(new) BY DEF Held1, validate_packet_trigger
<1>6. (\A q \in ToSet(rows) : q.t # t) => Key(t) \notin acted' OBVIOUS
<1>7. acted' \subseteq acted OBVIOUS
<1> HIDE DEF new, T
<1>8. \A r \in ToSet(rows') : Held1(r) /\ (r.t.run /\ Key(r.t) \in acted' => r.live)
  BY <1>1, <1>3, <1>5, <1>6, <1>7 DEF RunsKnown
<1>9. \A r, s \in ToSet(rows') : Key(r.t) = Key(s.t) => r.t = s.t
  BY <1>1, <1>3, <1>5 DEF RunsKnown
<1> QED BY <1>4, <1>8, <1>9 DEF RunsInv, RunsKnown

LEMMA PacketRuns ==
  ASSUME RunsInv, Packet PROVE RunsInv'
<1> PICK p \in Packets :
      LET acts == {i \in Tops(p) : ~(rows[i].t.run /\ rows[i].live)}
          over == {Key(rows[i].t) : i \in {j \in DOMAIN rows : EndsRun(rows[j].t, p)}}
          runs == {Key(rows[i].t) : i \in {j \in acts : rows[j].t.run}}
      IN /\ rows' = Runs(p)
         /\ twice' = (twice \/ runs \cap acted # {})
         /\ acted' = (acted \ over) \cup runs
  BY DEF Packet
<1> DEFINE acts == {i \in Tops(p) : ~(rows[i].t.run /\ rows[i].live)}
           over == {Key(rows[i].t) : i \in {j \in DOMAIN rows : EndsRun(rows[j].t, p)}}
           runs == {Key(rows[i].t) : i \in {j \in acts : rows[j].t.run}}
           Meets(t) == HeadEq(t, Len(t.match), p.head)
           Stream(t) == <<t.class, t.id, t.dir>> = <<p.class, p.id, p.dir>>
<1>1. rows' = Runs(p) /\ twice' = (twice \/ runs \cap acted # {}) /\ acted' = (acted \ over) \cup runs
  OBVIOUS
<1>2. rows \in Seq(ToSet(rows)) /\ RunsKnown(ToSet(rows), acted) /\ ~twice BY DEF RunsInv
<1>3. DOMAIN rows = 1..Len(rows) /\ Len(rows) \in Nat /\ \A i \in DOMAIN rows : rows[i] \in ToSet(rows)
  BY <1>2 DEF ToSet
\* A run that acts is over the packet's own stream, and the packet meets it.
<1>4. ASSUME NEW k \in runs
      PROVE  \E i \in DOMAIN rows : /\ k = Key(rows[i].t) /\ rows[i].t.run /\ ~rows[i].live
                                    /\ Stream(rows[i].t) /\ Meets(rows[i].t)
  <2>1. PICK i \in acts : rows[i].t.run /\ k = Key(rows[i].t) OBVIOUS
  <2>2. i \in DOMAIN rows /\ Candidate(rows[i].t, p) /\ ~rows[i].live BY <2>1 DEF Tops, Candidates
  <2>3. OneStream(rows[i].t) BY <1>2, <1>3, <2>1, <2>2 DEF RunsKnown, Held1
  <2>4. Stream(rows[i].t) BY <2>2, <2>3 DEF Candidate, OneStream
  <2> QED BY <2>1, <2>2, <2>4 DEF Candidate
<1>5. \A r, s : Key(r) = Key(s) => (Meets(r) <=> Meets(s)) /\ (Stream(r) <=> Stream(s))
  BY DEF Key, HeadEq
<1> HIDE DEF acts, runs
<1>6. ~twice'
  <2>1. \A k \in runs : k \notin acted BY <1>2, <1>3, <1>4 DEF RunsKnown
  <2> QED BY <1>1, <1>2, <2>1
<1>7. /\ DOMAIN rows' = DOMAIN rows
      /\ \A i \in DOMAIN rows :
           /\ rows'[i].t = rows[i].t
           /\ InStream(rows[i], p) => rows'[i].live = Meets(rows[i].t)
           /\ ~InStream(rows[i], p) => rows'[i] = rows[i]
  BY <1>1 DEF Runs
<1>8. ASSUME NEW i \in DOMAIN rows
      PROVE  Held1(rows'[i]) /\ (rows'[i].t.run /\ Key(rows'[i].t) \in acted' => rows'[i].live)
  <2> DEFINE r == rows[i]
  <2>1. Held1(r) /\ (r.t.run /\ Key(r.t) \in acted => r.live) BY <1>2, <1>3 DEF RunsKnown
  <2>2. Held1(rows'[i]) BY <1>7, <2>1 DEF Held1
  <2> SUFFICES ASSUME r.t.run, Key(r.t) \in acted' PROVE rows'[i].live BY <1>7, <2>2
  <2>3. CASE InStream(r, p)
    <3> SUFFICES ASSUME ~Meets(r.t) PROVE FALSE BY <1>7, <2>3
    <3>1. EndsRun(r.t, p) BY <2>3 DEF InStream, EndsRun
    <3>2. Key(r.t) \in over  BY <3>1
    <3>3. Key(r.t) \in runs BY <1>1, <3>2
    <3> QED BY <1>4, <1>5, <3>3
  <2>4. CASE ~InStream(r, p)
    <3>1. rows'[i] = r BY <1>7, <2>4
    <3>2. Key(r.t) \notin runs
      <4> SUFFICES ASSUME Key(r.t) \in runs PROVE FALSE OBVIOUS
      <4>1. Stream(r.t) /\ Meets(r.t) BY <1>4, <1>5
      <4>2. r.t.slen \in Nat /\ Len(r.t.match) \in Nat /\ r.t.slen < Len(r.t.match)
        BY <2>1, TriggerAssumption DEF Held1
      <4>3. HeadEq(r.t, r.t.slen, p.head) BY <4>1, <4>2 DEF HeadEq
      <4> QED BY <2>4, <4>1, <4>3 DEF InStream
    <3>3. Key(r.t) \in acted BY <1>1, <3>2
    <3> QED BY <2>1, <3>1, <3>3
  <2> QED BY <2>3, <2>4
<1>9. \A i, j \in DOMAIN rows : Key(rows'[i].t) = Key(rows'[j].t) => rows'[i].t = rows'[j].t
  BY <1>2, <1>3, <1>7 DEF RunsKnown
<1>10. RunsKnown(ToSet(rows'), acted') BY <1>7, <1>8, <1>9 DEF RunsKnown, ToSet
<1>11. rows' \in Seq(ToSet(rows'))
  <2>1. rows' = [i \in 1..Len(rows) |-> rows'[i]] BY <1>1, <1>3 DEF Runs
  <2>2. \A i \in 1..Len(rows) : rows'[i] \in ToSet(rows') BY <1>3, <1>7 DEF ToSet
  <2> QED BY ONLY <1>3, <2>1, <2>2, SeqDef
<1> QED BY <1>6, <1>10, <1>11 DEF RunsInv

LEMMA RunsAlways == TriggersSpec => []RunsInv
<1>1. TriggersInit => RunsInv
  <2> SUFFICES ASSUME TriggersInit PROVE RunsInv OBVIOUS
  <2>1. rows = <<>> /\ ~twice BY DEF TriggersInit
  <2>2. ToSet(rows) = {} BY <2>1 DEF ToSet
  <2> QED BY <2>1, <2>2 DEF RunsInv, RunsKnown
<1>2. RunsInv /\ [TriggersNext]_triggerVars => RunsInv'
  <2> SUFFICES ASSUME RunsInv, [TriggersNext]_triggerVars PROVE RunsInv' OBVIOUS
  <2>1. CASE UNCHANGED <<rows, acted, twice>> BY <2>1 DEF RunsInv
  <2>2. CASE BindPacket
    <3>1. PICK t \in Triggers :
            /\ validate_packet_trigger(t)
            /\ \/ UNCHANGED <<rows, acted>>
               \/ /\ rows' = Set(t)
                  /\ acted' = acted \ {k \in acted : k = Key(t) /\ \A r \in ToSet(rows) : r.t # t}
      BY <2>2 DEF BindPacket
    <3>2. UNCHANGED twice BY <2>2 DEF BindPacket
    <3> QED BY <2>1, <3>1, <3>2, BindRuns
  <2>3. CASE UnbindPacket
    <3>1. \E kept : rows' = Retain(rows, kept) BY <2>3 DEF UnbindPacket
    <3>2. acted' \subseteq acted /\ UNCHANGED twice BY <2>3 DEF UnbindPacket
    <3> QED BY <3>1, <3>2, RetainRuns
  <2>4. CASE ClearTriggers
    <3>1. rows' = <<>> /\ UNCHANGED twice BY <2>4 DEF ClearTriggers
    <3>2. ToSet(rows') = {} BY <3>1 DEF ToSet
    <3> QED BY <3>1, <3>2 DEF RunsInv, RunsKnown
  <2>5. CASE AllowImperfect
    <3>1. UNCHANGED twice /\ acted' \subseteq acted BY <2>5 DEF AllowImperfect
    <3>2. CASE imperfect
      <4>1. \E kept : rows' = Retain(rows, kept) BY <2>5, <3>2 DEF AllowImperfect
      <4> QED BY <3>1, <4>1, RetainRuns
    <3>3. CASE ~imperfect BY <2>1, <2>5, <3>3 DEF AllowImperfect
    <3> QED BY <3>2, <3>3
  <2>6. CASE Packet BY <2>6, PacketRuns
  <2>7. CASE UNCHANGED triggerVars BY <2>1, <2>7 DEF triggerVars
  <2> QED BY <2>2, <2>3, <2>4, <2>5, <2>6, <2>7 DEF TriggersNext
<1> QED BY <1>1, <1>2, PTL DEF TriggersSpec

\* Between two acts of a run comes a packet of its stream that does not meet it, or another bind
\* (PacketTriggers::packet).
THEOREM RunsActOnce == TriggersSpec => []OncePerRun
<1>1. RunsInv => OncePerRun BY DEF RunsInv, OncePerRun
<1> QED BY <1>1, RunsAlways, PTL

-----------------------------------------------------------------------------
(* The rank of a trigger.                                                   *)

\* A mask has no more bits than its bytes.
LEMMA BitsFit ==
  ASSUME NEW t \in Triggers, validate_packet_key(t)
  PROVE  MaskedBits(t) \in Nat /\ MaskedBits(t) < 10000
<1> DEFINE S == UNION {{i} \X t.mask[i] : i \in DOMAIN t.mask}
           T == (1..MatchMax) \X (0..7)
<1>1. MatchMax \in Nat /\ MatchMax * 8 < 10000 BY LimitAssumption, ScoreAssumption
<1>2. t.mask \in Seq(SUBSET (0..7)) /\ t.match \in Seq(SUBSET (0..7)) BY TriggerAssumption
<1>3. Len(t.mask) \in Nat /\ Len(t.mask) <= MatchMax BY <1>2 DEF validate_packet_key
<1>4. DOMAIN t.mask \subseteq 1..MatchMax /\ \A i \in DOMAIN t.mask : t.mask[i] \subseteq 0..7
  BY <1>1, <1>2, <1>3
<1>5. S \subseteq T BY <1>4
<1>6. IsFiniteSet(1..MatchMax) /\ Cardinality(1..MatchMax) = MatchMax BY <1>1, FS_Interval
<1>7. IsFiniteSet(0..7) /\ Cardinality(0..7) = 8
  <2>1. IsFiniteSet(0..7) /\ Cardinality(0..7) = IF 0 > 7 THEN 0 ELSE 7 - 0 + 1
    BY ONLY FS_Interval, 0 \in Int, 7 \in Int
  <2>2. (IF 0 > 7 THEN 0 ELSE 7 - 0 + 1) = 8 OBVIOUS
  <2> QED BY ONLY <2>1, <2>2
<1>8. IsFiniteSet(T) /\ Cardinality(T) = MatchMax * 8
  <2> DEFINE I == 1..MatchMax
             J == 0..7
  <2>1. IsFiniteSet(I) /\ Cardinality(I) = MatchMax /\ IsFiniteSet(J) /\ Cardinality(J) = 8
    BY <1>6, <1>7
  <2>2. T = I \X J OBVIOUS
  <2> HIDE DEF I, J, T
  <2>3. IsFiniteSet(I \X J) /\ Cardinality(I \X J) = Cardinality(I) * Cardinality(J)
    BY ONLY <2>1, FS_Product
  <2> QED BY ONLY <2>1, <2>2, <2>3
<1> HIDE DEF S, T
<1>9. Cardinality(S) \in Nat /\ Cardinality(S) <= Cardinality(T)
  BY <1>5, <1>8, FS_Subset, FS_CardinalityType
<1>10. MaskedBits(t) = Cardinality(S) BY DEF MaskedBits, S
<1> QED BY ONLY <1>1, <1>8, <1>9, <1>10

\* The first of three ranks that differs decides.
LEMMA RanksApart ==
  ASSUME NEW r \in Triggers, NEW s \in Triggers, validate_packet_key(r), validate_packet_key(s),
         MoreSpecific(r, s)
  PROVE  score(s) < score(r)
<1> DEFINE a(t) == IF t.id = AnyId THEN 1 ELSE 2
           b(t) == MaskedBits(t)
           e(t) == IF t.dir # "BOTH" THEN 1 ELSE 0
<1>1. \A t \in {r, s} : b(t) \in Nat /\ b(t) < 10000 BY BitsFit
<1>2. \A t : a(t) \in {1, 2} /\ e(t) \in {0, 1} OBVIOUS
<1>3. \A t : score(t) = a(t) * 100000 + b(t) * 10 + e(t) BY DEF score
<1>4. \/ a(r) = 2 /\ a(s) = 1
      \/ a(r) = a(s) /\ b(r) > b(s)
      \/ a(r) = a(s) /\ b(r) = b(s) /\ e(r) = 1 /\ e(s) = 0
  BY DEF MoreSpecific
<1> HIDE DEF a, b, e
<1> QED BY ONLY <1>1, <1>2, <1>3, <1>4

\* Of the triggers that a packet matches the most specific acts, for any bytes a match may have:
\* an id's rank is above that of all the bits of a mask, and theirs above a direction's
\* (pkt_match_score).
THEOREM BestActs == TriggersSpec => []MostSpecificActs
<1>1. RunsInv => MostSpecificActs
  <2> SUFFICES ASSUME RunsInv, NEW p \in Packets, NEW i \in Tops(p), NEW j \in Candidates(p),
                      MoreSpecific(rows[j].t, rows[i].t)
               PROVE  FALSE
    BY DEF MostSpecificActs
  <2>1. i \in DOMAIN rows /\ j \in DOMAIN rows BY DEF Tops, Candidates
  <2>2. rows[i] \in ToSet(rows) /\ rows[j] \in ToSet(rows) BY <2>1 DEF ToSet
  <2>3. Held1(rows[i]) /\ Held1(rows[j]) BY <2>2 DEF RunsInv, RunsKnown
  <2>4. score(rows[i].t) < score(rows[j].t) BY <2>3, RanksApart DEF Held1
  <2>5. score(rows[j].t) < score(rows[i].t) \/ score(rows[j].t) = score(rows[i].t) BY DEF Tops
  <2>6. \A t \in Triggers : validate_packet_key(t) => score(t) \in Nat
    <3> SUFFICES ASSUME NEW t \in Triggers, validate_packet_key(t) PROVE score(t) \in Nat OBVIOUS
    <3>1. MaskedBits(t) \in Nat BY BitsFit
    <3> QED BY <3>1 DEF score
  <2>7. score(rows[i].t) \in Nat /\ score(rows[j].t) \in Nat BY <2>3, <2>6 DEF Held1
  <2> QED BY ONLY <2>4, <2>5, <2>7
<1> QED BY <1>1, RunsAlways, PTL DEF TriggersSpec

-----------------------------------------------------------------------------
(* The length of an entry.                                                  *)

\* A set of numbers has a least.
LEMMA Lowest ==
  ASSUME NEW S \in SUBSET Nat, S # {}
  PROVE  \E n \in S : \A m \in S : n <= m
<1> DEFINE R == OpToRel(<, Nat)
<1>1. IsWellFoundedOn(R, Nat) BY NatLessThanWellFounded
<1>2. \A m, n \in Nat : <<m, n>> \in R <=> m < n BY DEF OpToRel
<1>3. PICK n \in S : \A m \in S : ~(<<m, n>> \in R)
  <2> HIDE DEF R
  <2> QED BY <1>1, WFMin
<1>4. ASSUME NEW m \in S PROVE n <= m
  <2>1. m \in Nat /\ n \in Nat BY <1>3
  <2>2. ~(m < n) BY <1>2, <1>3, <2>1
  <2> QED BY ONLY <2>1, <2>2
<1> QED BY <1>4

\* The sum of a sequence, through the function that sums its beginnings.
TotalTo(s, n, f) == f = [i \in 0..n |-> IF i = 0 THEN 0 ELSE f[i - 1] + s[i]]

LEMMA TotalUpTo ==
  ASSUME NEW T, NEW s \in Seq(T)
  PROVE  \A n \in 0..Len(s) : \E f : TotalTo(s, n, f)
<1> DEFINE Unsummed == {n \in 0..Len(s) : ~ \E f : TotalTo(s, n, f)}
<1>1. Len(s) \in Nat OBVIOUS
<1> SUFFICES ASSUME Unsummed # {} PROVE FALSE OBVIOUS
<1>2. Unsummed \in SUBSET Nat BY <1>1
<1>3. PICK n \in Unsummed : \A m \in Unsummed : n <= m
  <2> HIDE DEF Unsummed
  <2> QED BY <1>2, Lowest
<1>4. n \in Nat /\ n <= Len(s) BY <1>1
<1>5. n # 0
  <2>1. TotalTo(s, 0, [i \in 0..0 |-> 0]) BY DEF TotalTo
  <2> QED BY <2>1
<1>6. n - 1 \in 0..Len(s) /\ n - 1 \notin Unsummed
  <2>1. n - 1 \in Nat /\ ~(n <= n - 1) /\ n - 1 \in 0..Len(s) BY ONLY <1>1, <1>4, <1>5
  <2> HIDE DEF Unsummed
  <2> QED BY <1>3, <2>1
<1>7. PICK f : TotalTo(s, n - 1, f) BY <1>6
<1> DEFINE newest == f[n - 1] + s[n]
           g == [i \in 0..n |-> IF i = n THEN newest ELSE f[i]]
<1>8. TotalTo(s, n, g)
  <2> HIDE DEF newest
  <2>1. \A i \in 0..(n - 1) : g[i] = f[i] BY <1>4, <1>5
  <2>2. \A i \in 0..(n - 1) : f[i] = IF i = 0 THEN 0 ELSE f[i - 1] + s[i] BY <1>7 DEF TotalTo
  <2>3. g[n] = newest BY <1>4
  <2>4. ASSUME NEW i \in 0..n PROVE g[i] = IF i = 0 THEN 0 ELSE g[i - 1] + s[i]
    <3>1. CASE i = n
      <4>1. n - 1 \in 0..(n - 1) BY <1>4, <1>5
      <4>2. g[n - 1] = f[n - 1] BY <2>1, <4>1
      <4> QED BY <1>5, <2>3, <3>1, <4>2 DEF newest
    <3>2. CASE i # n
      <4>1. i \in 0..(n - 1) /\ (i # 0 => i - 1 \in 0..(n - 1)) BY <1>4, <3>2
      <4> HIDE DEF g
      <4> QED BY <2>1, <2>2, <4>1
    <3> QED BY <3>1, <3>2
  <2>5. g = [i \in 0..n |-> g[i]] OBVIOUS
  <2> HIDE DEF g
  <2> QED BY <2>4, <2>5 DEF TotalTo
<1> QED BY <1>3, <1>8

LEMMA TotalIs ==
  ASSUME NEW s \in Seq(Nat)
  PROVE  \E f : /\ f[0] = 0 /\ Total(s) = f[Len(s)]
                /\ \A i \in 1..Len(s) : f[i] = f[i - 1] + s[i]
                /\ \A i \in 0..Len(s) : f[i] \in Nat
<1>1. Len(s) \in Nat /\ Len(s) \in 0..Len(s) OBVIOUS
<1>2. \E f : TotalTo(s, Len(s), f) BY <1>1, TotalUpTo
<1>3. PICK f : TotalTo(s, Len(s), f) /\ Total(s) = f[Len(s)] BY <1>2 DEF TotalTo, Total
<1>4. \A i \in 0..Len(s) : f[i] = IF i = 0 THEN 0 ELSE f[i - 1] + s[i] BY <1>3 DEF TotalTo
<1>5. f[0] = 0 /\ \A i \in 1..Len(s) : f[i] = f[i - 1] + s[i] BY <1>1, <1>4
<1> DEFINE Odd1 == {i \in 0..Len(s) : f[i] \notin Nat}
<1>6. Odd1 = {}
  <2> SUFFICES ASSUME Odd1 # {} PROVE FALSE OBVIOUS
  <2>1. Odd1 \in SUBSET Nat BY <1>1
  <2>2. PICK n \in Odd1 : \A m \in Odd1 : n <= m
    <3> HIDE DEF Odd1
    <3> QED BY <2>1, Lowest
  <2>3. n \in Nat /\ n <= Len(s) /\ f[n] \notin Nat BY <1>1
  <2>4. n # 0 BY <1>5, <2>3
  <2>5. n - 1 \in 0..Len(s) /\ n - 1 \notin Odd1
    <3>1. n - 1 \in Nat /\ ~(n <= n - 1) /\ n - 1 \in 0..Len(s) BY ONLY <1>1, <2>3, <2>4
    <3> HIDE DEF Odd1
    <3> QED BY <2>2, <3>1
  <2>6. f[n - 1] \in Nat BY <2>5
  <2>7. n \in 1..Len(s) BY ONLY <1>1, <2>3, <2>4
  <2>8. f[n] = f[n - 1] + s[n] /\ s[n] \in Nat BY <1>5, <2>7
  <2> QED BY ONLY <2>3, <2>6, <2>8
<1> QED BY <1>3, <1>5, <1>6

LEMMA TotalNat ==
  ASSUME NEW s \in Seq(Nat)
  PROVE  Total(s) \in Nat
<1>1. Len(s) \in 0..Len(s) OBVIOUS
<1> QED BY <1>1, TotalIs

LEMMA TotalNothing == Total(<<>>) = 0
<1>1. <<>> \in Seq(Nat) /\ Len(<<>>) = 0 OBVIOUS
<1> QED BY <1>1, TotalIs

LEMMA TotalMore ==
  ASSUME NEW s \in Seq(Nat), NEW n \in Nat
  PROVE  Total(Append(s, n)) = Total(s) + n
<1> DEFINE t == Append(s, n)
           len == Len(s)
<1>1. /\ t \in Seq(Nat) /\ Len(t) = len + 1 /\ len \in Nat /\ t[len + 1] = n
      /\ \A i \in 1..len : t[i] = s[i]
  OBVIOUS
<1> HIDE DEF t
<1>2. PICK f : /\ f[0] = 0 /\ Total(s) = f[len]
               /\ \A i \in 1..len : f[i] = f[i - 1] + s[i]
               /\ \A i \in 0..len : f[i] \in Nat
  BY TotalIs
<1>3. PICK g : /\ g[0] = 0 /\ Total(t) = g[Len(t)]
               /\ \A i \in 1..Len(t) : g[i] = g[i - 1] + t[i]
               /\ \A i \in 0..Len(t) : g[i] \in Nat
  BY <1>1, TotalIs
<1> HIDE DEF len
<1> DEFINE Differ == {i \in 0..len : g[i] # f[i]}
<1>4. Differ = {}
  <2> SUFFICES ASSUME Differ # {} PROVE FALSE OBVIOUS
  <2>1. Differ \in SUBSET Nat BY <1>1
  <2>2. PICK m \in Differ : \A k \in Differ : m <= k
    <3> HIDE DEF Differ
    <3> QED BY <2>1, Lowest
  <2>3. m \in Nat /\ m <= len /\ g[m] # f[m] BY <1>1
  <2>4. m # 0 BY <1>2, <1>3, <2>3
  <2>5. m - 1 \in 0..len /\ m - 1 \notin Differ
    <3>1. m - 1 \in Nat /\ ~(m <= m - 1) /\ m - 1 \in 0..len BY ONLY <1>1, <2>3, <2>4
    <3> HIDE DEF Differ
    <3> QED BY <2>2, <3>1
  <2>6. g[m - 1] = f[m - 1] BY <2>5
  <2>7. m \in 1..len /\ m \in 1..Len(t) BY ONLY <1>1, <2>3, <2>4
  <2>8. g[m] = g[m - 1] + t[m] /\ f[m] = f[m - 1] + s[m] /\ t[m] = s[m] BY <1>1, <1>2, <1>3, <2>7
  <2> QED BY ONLY <2>3, <2>6, <2>8
<1>5. len \in 0..len /\ len + 1 \in 1..Len(t) /\ (len + 1) - 1 = len BY <1>1
<1>6. g[len] = f[len] BY <1>4, <1>5
<1>7. g[len + 1] = g[(len + 1) - 1] + t[len + 1] BY <1>3, <1>5
<1> QED BY <1>1, <1>2, <1>3, <1>5, <1>6, <1>7 DEF t

\* Reports and transfers have lengths.
LEMMA ReportsSum ==
  ASSUME NEW s \in Seq([dir : {"IN", "OUT", "BOTH"}, len : Nat])
  PROVE  Total([i \in DOMAIN s |-> 4 + s[i].len]) \in Nat
<1>1. ASSUME NEW i \in 1..Len(s) PROVE 4 + s[i].len \in Nat
  <2>1. s[i] \in [dir : {"IN", "OUT", "BOTH"}, len : Nat] BY ElementOfSeq
  <2>2. s[i].len \in Nat BY ONLY <2>1
  <2> QED BY ONLY <2>2
<1>2. DOMAIN s = 1..Len(s) /\ Len(s) \in Nat OBVIOUS
<1>3. [i \in DOMAIN s |-> 4 + s[i].len] \in Seq(Nat) BY <1>1, <1>2
<1> QED BY ONLY <1>3, TotalNat

LEMMA TransfersSum ==
  ASSUME NEW s \in Seq([in : BOOLEAN, length : Nat, out : Nat])
  PROVE  Total([i \in DOMAIN s |-> 9 + s[i].out]) \in Nat
<1>1. ASSUME NEW i \in 1..Len(s) PROVE 9 + s[i].out \in Nat
  <2>1. s[i] \in [in : BOOLEAN, length : Nat, out : Nat] BY ElementOfSeq
  <2>2. s[i].out \in Nat BY ONLY <2>1
  <2> QED BY ONLY <2>2
<1>2. DOMAIN s = 1..Len(s) /\ Len(s) \in Nat OBVIOUS
<1>3. [i \in DOMAIN s |-> 9 + s[i].out] \in Seq(Nat) BY <1>1, <1>2
<1> QED BY ONLY <1>3, TotalNat

\* The arithmetic of byte_len, in the two ways it is summed.
LEMMA Summed ==
  ASSUME NEW w \in Nat, NEW p \in Nat, NEW dy \in Nat, NEW r \in Nat, NEW x \in Nat,
         NEW cr \in Nat, NEW cx \in Nat, NEW four \in Nat
  PROVE  /\ 1 + four + (2 * w + 2 * p) + (dy + r + cr + x + cx)
              = 1 + four + 2 * w + 2 * p + dy + (r + cr) + (x + cx)
         /\ 1 + four + (2 * w + 2 * p) + (dy + r + cr + x + cx) \in Nat
         /\ (2 * w + 2 * p) + (dy + r + cr + x + cx) = 0
              <=> w = 0 /\ p = 0 /\ dy = 0 /\ r + cr = 0 /\ x + cx = 0
<1>1. /\ 2 * w \in Nat /\ 2 * p \in Nat /\ 2 * w + 2 * p \in Nat
      /\ dy + r \in Nat /\ dy + r + cr \in Nat /\ dy + r + cr + x \in Nat /\ dy + r + cr + x + cx \in Nat
  OBVIOUS
<1>2. 1 + four + (2 * w + 2 * p) + (dy + r + cr + x + cx)
        = 1 + four + 2 * w + 2 * p + dy + (r + cr) + (x + cx)
  OBVIOUS
<1>3. 1 + four + (2 * w + 2 * p) + (dy + r + cr + x + cx) \in Nat
  <2> DEFINE m == 2 * w + 2 * p
             k == dy + r + cr + x + cx
  <2>1. m \in Nat /\ k \in Nat BY <1>1
  <2> HIDE DEF m, k
  <2> QED BY <2>1
<1>4. (2 * w + 2 * p) + (dy + r + cr + x + cx) = 0
        <=> w = 0 /\ p = 0 /\ dy = 0 /\ r + cr = 0 /\ x + cx = 0
  <2> DEFINE m == 2 * w + 2 * p
             k == dy + r + cr + x + cx
  <2>1. m \in Nat /\ k \in Nat BY <1>1
  <2>2. m = 0 <=> w = 0 /\ p = 0 OBVIOUS
  <2>3. k = 0 <=> dy = 0 /\ r + cr = 0 /\ x + cx = 0
    <3> DEFINE y == r + cr
               z == x + cx
    <3>1. y \in Nat /\ z \in Nat /\ k = dy + y + z OBVIOUS
    <3> HIDE DEF k, y, z
    <3>2. k = 0 <=> dy = 0 /\ y = 0 /\ z = 0 BY ONLY <3>1, dy \in Nat
    <3> QED BY <3>2 DEF y, z
  <2>4. m + k = 0 <=> m = 0 /\ k = 0
    <3> HIDE DEF m, k
    <3> QED BY <2>1
  <2> HIDE DEF m, k
  <2>5. m + k = 0 <=> w = 0 /\ p = 0 /\ dy = 0 /\ r + cr = 0 /\ x + cx = 0 BY <2>2, <2>3, <2>4
  <2> QED BY ONLY <2>5 DEF m, k
<1> QED BY ONLY <1>2, <1>3, <1>4

LEMMA Counts ==
  ASSUME NEW b \in BOOLEAN
  PROVE  /\ Count(b) \in Nat /\ Count(b) \in {0, 1} /\ (Count(b) = 0 <=> ~b)
         /\ 2 * Count(b) = IF b THEN 2 ELSE 0
         /\ 4 * Count(b) = IF b THEN 4 ELSE 0
         /\ \A n \in Nat : Count(b) * n = IF b THEN n ELSE 0
         /\ \A n \in Nat : (~b => n = 0) => n + Count(b) = IF b THEN 1 + n ELSE 0
<1>1. CASE b = TRUE BY <1>1 DEF Count
<1>2. CASE b = FALSE BY <1>2 DEF Count
<1> QED BY <1>1, <1>2

\* What a frame is flagged with, and the length of each of its fields.
LEMMA FlagsAre ==
  ASSUME NEW e
  PROVE  LET some == e.xy \/ e.wheel \/ e.pan \/ e.edges # 0 \/ e.raw # <<>> \/ e.transfers # <<>>
         IN /\ "XY" \in Flags(e) <=> e.xy \/ ~some
            /\ "WHEEL" \in Flags(e) <=> e.wheel
            /\ "PAN" \in Flags(e) <=> e.pan
            /\ "EDGES" \in Flags(e) <=> e.edges # 0
            /\ "RAW" \in Flags(e) <=> e.raw # <<>>
            /\ "XFER" \in Flags(e) <=> e.transfers # <<>>
            /\ Flags(e) # {}
<1>1. /\ "XY" \in Carries(e) <=> e.xy
      /\ "WHEEL" \in Carries(e) <=> e.wheel
      /\ "PAN" \in Carries(e) <=> e.pan
      /\ "EDGES" \in Carries(e) <=> e.edges # 0
      /\ "RAW" \in Carries(e) <=> e.raw # <<>>
      /\ "XFER" \in Carries(e) <=> e.transfers # <<>>
      /\ Carries(e) \subseteq {"XY", "WHEEL", "PAN", "EDGES", "RAW", "XFER"}
  BY DEF Carries
<1>2. CASE Carries(e) = {}
  <2>1. Flags(e) = {"XY"} BY ONLY <1>2 DEF Flags
  <2> QED BY ONLY <1>1, <1>2, <2>1
<1>3. CASE Carries(e) # {}
  <2>1. Flags(e) = Carries(e) BY ONLY <1>3 DEF Flags
  <2> QED BY ONLY <1>1, <1>3, <2>1
<1> QED BY <1>2, <1>3

\* byte_len is the length of what is encoded.
LEMMA EncodedLength ==
  ASSUME NEW e \in Entries
  PROVE  byte_len(e) \in Nat /\ Encoded(e).len = byte_len(e)
<1>1. /\ e.gap \in Nat /\ e.xy \in BOOLEAN /\ e.wheel \in BOOLEAN /\ e.pan \in BOOLEAN /\ e.edges \in Nat
      /\ e.raw \in Seq([dir : {"IN", "OUT", "BOTH"}, len : Nat])
      /\ e.transfers \in Seq([in : BOOLEAN, length : Nat, out : Nat])
  BY DEF Entries
<1>2. CASE e.gap # 0 BY <1>2 DEF Encoded, byte_len
<1>3. CASE e.gap = 0
  <2>1. PICK edged \in BOOLEAN : edged <=> e.edges # 0 OBVIOUS
  <2>2. PICK reports \in BOOLEAN : reports <=> e.raw # <<>> OBVIOUS
  <2>3. PICK moves \in BOOLEAN : moves <=> e.transfers # <<>> OBVIOUS
  <2>4. PICK r \in Nat : r = RawLen(e) BY <1>1, ReportsSum DEF RawLen
  <2>5. PICK x \in Nat : x = XferLen(e) BY <1>1, TransfersSum DEF XferLen
  <2>6. ~reports => r = 0
    <3>1. e.raw = <<>> => [i \in DOMAIN e.raw |-> 4 + e.raw[i].len] = <<>> OBVIOUS
    <3> QED BY <2>2, <2>4, <3>1, TotalNothing DEF RawLen
  <2>7. ~moves => x = 0
    <3>1. e.transfers = <<>> => [i \in DOMAIN e.transfers |-> 9 + e.transfers[i].out] = <<>> OBVIOUS
    <3> QED BY <2>3, <2>5, <3>1, TotalNothing DEF XferLen
  <2>8. PICK dy \in Nat : dy = 1 + 4 * e.edges BY <1>1
  <2>9. PICK w \in Nat : w = Count(e.wheel) BY <1>1, Counts
  <2>10. PICK p \in Nat : p = Count(e.pan) BY <1>1, Counts
  <2>11. PICK cr \in Nat : cr = Count(reports) BY Counts
  <2>12. PICK cx \in Nat : cx = Count(moves) BY Counts
  <2>13. PICK dd \in Nat : dd = Count(edged) * dy /\ dd = IF edged THEN dy ELSE 0
    BY <2>8, Counts
  <2>14. PICK bare \in BOOLEAN : bare <=> e.xy \/ (2 * w + 2 * p) + (dd + r + cr + x + cx) = 0 OBVIOUS
  <2>15. PICK four \in Nat : four = 4 * Count(bare) /\ four = IF bare THEN 4 ELSE 0 BY Counts
  <2>16. Count(e.edges # 0) = Count(edged) BY ONLY <2>1 DEF Count
  <2>17. Count(e.raw # <<>>) = cr BY ONLY <2>2, <2>11 DEF Count
  <2>18. Count(e.transfers # <<>>) = cx BY ONLY <2>3, <2>12 DEF Count
  <2>19. 4 * Count(e.xy \/ (2 * w + 2 * p) + (dd + r + cr + x + cx) = 0) = four
    <3>1. Count(e.xy \/ (2 * w + 2 * p) + (dd + r + cr + x + cx) = 0) = Count(bare)
      BY ONLY <2>14 DEF Count
    <3> QED BY ONLY <3>1, <2>15
  <2>20. byte_len(e) = 1 + four + (2 * w + 2 * p) + (dd + r + cr + x + cx)
    <3>1. byte_len(e) =
            1 + 4 * Count(e.xy \/ (2 * Count(e.wheel) + 2 * Count(e.pan))
                                    + (Count(e.edges # 0) * (1 + 4 * e.edges) + RawLen(e)
                                         + Count(e.raw # <<>>) + XferLen(e)
                                         + Count(e.transfers # <<>>)) = 0)
              + (2 * Count(e.wheel) + 2 * Count(e.pan))
              + (Count(e.edges # 0) * (1 + 4 * e.edges) + RawLen(e)
                   + Count(e.raw # <<>>) + XferLen(e) + Count(e.transfers # <<>>))
      BY <1>3 DEF byte_len
    <3>2. Count(e.edges # 0) * (1 + 4 * e.edges) = dd BY ONLY <2>8, <2>13, <2>16
    <3>3. byte_len(e) =
            1 + 4 * Count(e.xy \/ (2 * w + 2 * p) + (dd + r + cr + x + cx) = 0)
              + (2 * w + 2 * p) + (dd + r + cr + x + cx)
      BY ONLY <3>1, <3>2, <2>4, <2>5, <2>9, <2>10, <2>17, <2>18
    <3> QED BY ONLY <2>19, <3>3
  <2>21. byte_len(e) = 1 + four + 2 * w + 2 * p + dd + (r + cr) + (x + cx) /\ byte_len(e) \in Nat
    BY ONLY <2>20, Summed
  <2>22. (2 * w + 2 * p) + (dd + r + cr + x + cx) = 0
           <=> w = 0 /\ p = 0 /\ dd = 0 /\ r + cr = 0 /\ x + cx = 0
    BY Summed
  <2>23. r + cr = IF reports THEN 1 + r ELSE 0 BY ONLY <2>6, <2>11, Counts
  <2>24. x + cx = IF moves THEN 1 + x ELSE 0 BY ONLY <2>7, <2>12, Counts
  <2>25. bare <=> e.xy \/ ~(e.wheel \/ e.pan \/ edged \/ reports \/ moves)
    <3>1. (w = 0 <=> ~e.wheel) /\ (p = 0 <=> ~e.pan) BY <1>1, <2>9, <2>10, Counts
    <3>2. dd = 0 <=> ~edged BY ONLY <1>1, <2>8, <2>13
    <3>3. r + cr = 0 <=> ~reports BY ONLY <2>4, <2>23
    <3>4. x + cx = 0 <=> ~moves BY ONLY <2>5, <2>24
    <3> QED BY ONLY <2>14, <2>22, <3>1, <3>2, <3>3, <3>4
  <2>26. /\ "XY" \in Flags(e) <=> bare
         /\ "WHEEL" \in Flags(e) <=> e.wheel
         /\ "PAN" \in Flags(e) <=> e.pan
         /\ "EDGES" \in Flags(e) <=> edged
         /\ "RAW" \in Flags(e) <=> reports
         /\ "XFER" \in Flags(e) <=> moves
    BY ONLY <2>1, <2>2, <2>3, <2>25, FlagsAre
  <2>27. /\ FieldLen(e, "XY") = four
         /\ FieldLen(e, "WHEEL") = 2 * w
         /\ FieldLen(e, "PAN") = 2 * p
         /\ FieldLen(e, "EDGES") = dd
         /\ FieldLen(e, "RAW") = r + cr
         /\ FieldLen(e, "XFER") = x + cx
    <3>1. FieldLen(e, "XY") = four
      <4>1. FieldLen(e, "XY") = IF "XY" \in Flags(e) THEN 4 ELSE 0 BY ONLY DEF FieldLen
      <4> QED BY ONLY <2>15, <2>26, <4>1
    <3>2. FieldLen(e, "WHEEL") = 2 * w
      <4>1. FieldLen(e, "WHEEL") = IF "WHEEL" \in Flags(e) THEN 2 ELSE 0 BY ONLY DEF FieldLen
      <4>2. 2 * w = IF e.wheel THEN 2 ELSE 0 BY ONLY <1>1, <2>9, Counts
      <4> QED BY ONLY <2>26, <4>1, <4>2
    <3>3. FieldLen(e, "PAN") = 2 * p
      <4>1. FieldLen(e, "PAN") = IF "PAN" \in Flags(e) THEN 2 ELSE 0 BY ONLY DEF FieldLen
      <4>2. 2 * p = IF e.pan THEN 2 ELSE 0 BY ONLY <1>1, <2>10, Counts
      <4> QED BY ONLY <2>26, <4>1, <4>2
    <3>4. FieldLen(e, "EDGES") = dd
      <4>1. FieldLen(e, "EDGES") = IF "EDGES" \in Flags(e) THEN 1 + 4 * e.edges ELSE 0
        BY ONLY DEF FieldLen
      <4> QED BY ONLY <2>8, <2>13, <2>26, <4>1
    <3>5. FieldLen(e, "RAW") = r + cr
      <4>1. FieldLen(e, "RAW") = IF "RAW" \in Flags(e) THEN 1 + RawLen(e) ELSE 0 BY ONLY DEF FieldLen
      <4> QED BY ONLY <2>4, <2>23, <2>26, <4>1
    <3>6. FieldLen(e, "XFER") = x + cx
      <4>1. FieldLen(e, "XFER") = IF "XFER" \in Flags(e) THEN 1 + XferLen(e) ELSE 0 BY ONLY DEF FieldLen
      <4> QED BY ONLY <2>5, <2>24, <2>26, <4>1
    <3> QED BY ONLY <3>1, <3>2, <3>3, <3>4, <3>5, <3>6
  <2>28. Encoded(e).len = 1 + FieldLen(e, "XY") + FieldLen(e, "WHEEL") + FieldLen(e, "PAN")
                            + FieldLen(e, "EDGES") + FieldLen(e, "RAW") + FieldLen(e, "XFER")
    BY <1>3 DEF Encoded
  <2> QED BY ONLY <2>21, <2>27, <2>28
<1> QED BY <1>1, <1>2, <1>3

-----------------------------------------------------------------------------
(* The bytes of an entry, and the pieces that a clip is cut into.           *)

\* What the entries that encode_frame lets through are encoded to.
Bytes == {Encoded(e) : e \in {f \in Entries : ~Refused(f)}}

\* A part of a clip that fits a frame.
Piece == {piece \in Seq(Bytes) : LenOf(piece) <= PayloadMax}

\* They fit a frame, and the box reads them as what they are of.
LEMMA BytesFit ==
  ASSUME NEW b \in Bytes
  PROVE  /\ b.len \in Nat /\ b.len <= PayloadMax
         /\ ReadEntry(b) = IF b.of.gap # 0 THEN "gap" ELSE "frame"
<1>1. PICK e \in Entries : ~Refused(e) /\ b = Encoded(e) BY DEF Bytes
<1>2. e.gap \in Nat BY DEF Entries
<1>3. b.len = byte_len(e) /\ byte_len(e) \in Nat BY <1>1, EncodedLength
<1>4. byte_len(e) <= PayloadMax
  <2>1. CASE e.gap # 0
    <3>1. byte_len(e) = 3 BY <2>1 DEF byte_len
    <3> QED BY <3>1, GapAssumption
  <2>2. CASE e.gap = 0
    <3>1. ~(byte_len(e) > PayloadMax) BY ONLY <1>1, <2>2 DEF Refused
    <3>2. PayloadMax \in Nat BY SizeAssumption
    <3> QED BY ONLY <1>3, <3>1, <3>2
  <2> QED BY <2>1, <2>2
<1>5. b.of = e /\ b.tag = IF e.gap # 0 THEN {} ELSE Flags(e)
  <2>1. CASE e.gap # 0 BY ONLY <1>1, <2>1 DEF Encoded
  <2>2. CASE e.gap = 0 BY ONLY <1>1, <2>2 DEF Encoded
  <2> QED BY <2>1, <2>2
<1>6. Flags(e) # {} BY FlagsAre
<1>7. ReadEntry(b) = IF e.gap # 0 THEN "gap" ELSE "frame" BY ONLY <1>5, <1>6 DEF ReadEntry
<1> QED BY ONLY <1>3, <1>4, <1>5, <1>7

\* The length of a piece.
LEMMA LenOfNothing == LenOf(<<>>) = 0
<1>1. [i \in DOMAIN <<>> |-> <<>>[i].len] = <<>> OBVIOUS
<1> QED BY <1>1, TotalNothing DEF LenOf

LEMMA LenOfMore ==
  ASSUME NEW p \in Seq(Bytes), NEW b \in Bytes
  PROVE  LenOf(p) \in Nat /\ LenOf(Append(p, b)) = LenOf(p) + b.len
<1> DEFINE lens == [i \in DOMAIN p |-> p[i].len]
           q == Append(p, b)
<1>1. Len(p) \in Nat /\ DOMAIN p = 1..Len(p) OBVIOUS
<1>2. \A i \in 1..Len(p) : p[i].len \in Nat
  <2> SUFFICES ASSUME NEW i \in 1..Len(p) PROVE p[i].len \in Nat OBVIOUS
  <2>1. p[i] \in Bytes BY ElementOfSeq
  <2> QED BY <2>1, BytesFit
<1>3. lens \in Seq(Nat) /\ Len(lens) = Len(p) BY <1>1, <1>2
<1>4. b.len \in Nat BY BytesFit
<1>5. /\ q \in Seq(Bytes) /\ Len(q) = Len(p) + 1 /\ DOMAIN q = 1..(Len(p) + 1)
      /\ q[Len(p) + 1] = b /\ \A i \in 1..Len(p) : q[i] = p[i]
  OBVIOUS
<1> HIDE DEF q
<1>6. [i \in DOMAIN q |-> q[i].len] = Append(lens, b.len)
  <2> DEFINE l == [i \in DOMAIN q |-> q[i].len]
             m == Append(lens, b.len)
  <2>1. \A i \in 1..Len(p) : q[i].len \in Nat BY <1>2, <1>5
  <2>2. q[Len(p) + 1].len \in Nat BY <1>4, <1>5
  <2>3. \A i \in 1..(Len(p) + 1) : q[i].len \in Nat
    <3> SUFFICES ASSUME NEW i \in 1..(Len(p) + 1) PROVE q[i].len \in Nat OBVIOUS
    <3>1. i \in 1..Len(p) \/ i = Len(p) + 1 BY ONLY <1>1
    <3> QED BY <2>1, <2>2, <3>1
  <2>4. l \in Seq(Nat) /\ Len(l) = Len(p) + 1 BY <1>1, <1>5, <2>3
  <2>5. m \in Seq(Nat) /\ Len(m) = Len(p) + 1 BY ONLY <1>3, <1>4
  <2>6. \A i \in 1..Len(p) : l[i] = m[i]
    <3> SUFFICES ASSUME NEW i \in 1..Len(p) PROVE l[i] = m[i] OBVIOUS
    <3>1. l[i] = p[i].len /\ lens[i] = p[i].len
      <4>1. i \in DOMAIN q /\ i \in DOMAIN p BY ONLY <1>1, <1>5
      <4> QED BY <1>5, <4>1
    <3>2. m[i] = lens[i]
      <4> HIDE DEF lens
      <4> QED BY <1>3, <1>4
    <3> QED BY ONLY <3>1, <3>2
  <2>7. l[Len(p) + 1] = m[Len(p) + 1]
    <3>1. l[Len(p) + 1] = b.len
      <4>1. Len(p) + 1 \in DOMAIN q BY ONLY <1>1, <1>5
      <4> QED BY <1>5, <4>1
    <3>2. m[Len(p) + 1] = b.len
      <4> HIDE DEF lens
      <4> QED BY <1>3, <1>4
    <3> QED BY ONLY <3>1, <3>2
  <2> HIDE DEF l, m
  <2>8. \A i \in 1..Len(l) : l[i] = m[i]
    <3> SUFFICES ASSUME NEW i \in 1..Len(l) PROVE l[i] = m[i] OBVIOUS
    <3>1. i \in 1..Len(p) \/ i = Len(p) + 1 BY ONLY <1>1, <2>4
    <3> QED BY ONLY <2>6, <2>7, <3>1
  <2>9. l = m BY ONLY <2>4, <2>5, <2>8, SeqEqual
  <2> QED BY ONLY <2>9 DEF l, m
<1>7. LenOf(p) = Total(lens) /\ LenOf(q) = Total(Append(lens, b.len)) BY ONLY <1>6 DEF LenOf, lens
<1> HIDE DEF lens
<1> QED BY <1>3, <1>4, <1>7, TotalNat, TotalMore DEF q

\* An entry goes into a piece that has room for it, or starts the next one.
LEMMA PlaceFits ==
  ASSUME NEW acc \in [out : Seq(Piece), cur : Piece], NEW b \in Bytes
  PROVE  Place(acc, b) \in [out : Seq(Piece), cur : Piece]
<1>1. acc.out \in Seq(Piece) /\ acc.cur \in Piece OBVIOUS
<1>2. acc.cur \in Seq(Bytes) /\ LenOf(acc.cur) <= PayloadMax BY <1>1 DEF Piece
<1>3. b.len \in Nat /\ b.len <= PayloadMax BY BytesFit
<1>4. LenOf(acc.cur) \in Nat /\ LenOf(Append(acc.cur, b)) = LenOf(acc.cur) + b.len
  BY ONLY <1>2, LenOfMore
<1>5. <<>> \in Seq(Bytes) OBVIOUS
<1>6. LenOf(Append(<<>>, b)) = 0 + b.len BY ONLY <1>5, LenOfMore, LenOfNothing
<1>7. <<b>> \in Piece
  <2>1. <<b>> = Append(<<>>, b) /\ <<b>> \in Seq(Bytes) OBVIOUS
  <2>2. LenOf(<<b>>) = b.len BY ONLY <1>3, <1>6, <2>1
  <2> QED BY ONLY <1>3, <2>1, <2>2 DEF Piece
<1>8. CASE acc.cur # <<>> /\ LenOf(acc.cur) + b.len > PayloadMax
  <2>1. Place(acc, b) = [out |-> Append(acc.out, acc.cur), cur |-> <<b>>] BY ONLY <1>8 DEF Place
  <2>2. Append(acc.out, acc.cur) \in Seq(Piece) BY ONLY <1>1
  <2> QED BY ONLY <1>7, <2>1, <2>2
<1>9. CASE ~(acc.cur # <<>> /\ LenOf(acc.cur) + b.len > PayloadMax)
  <2>1. Place(acc, b) = [out |-> acc.out, cur |-> Append(acc.cur, b)]
    <3>1. Place(acc, b) = [acc EXCEPT !.cur = Append(@, b)] BY ONLY <1>9 DEF Place
    <3> QED BY <3>1
  <2>2. Append(acc.cur, b) \in Seq(Bytes) BY ONLY <1>2
  <2>3. LenOf(Append(acc.cur, b)) <= PayloadMax
    <3>1. CASE acc.cur = <<>>
      <4>1. LenOf(Append(acc.cur, b)) = b.len BY ONLY <1>3, <1>6, <3>1
      <4> QED BY ONLY <1>3, <4>1
    <3>2. CASE ~(LenOf(acc.cur) + b.len > PayloadMax)
      <4>1. PayloadMax \in Nat BY SizeAssumption
      <4> QED BY ONLY <1>3, <1>4, <3>2, <4>1
    <3> QED BY ONLY <1>9, <3>1, <3>2
  <2>4. Append(acc.cur, b) \in Piece BY ONLY <2>2, <2>3 DEF Piece
  <2> QED BY ONLY <1>1, <2>1, <2>4
<1> QED BY <1>8, <1>9

\* The beginnings of a clip, cut.
ChunksTo(clip, n, f) ==
  f = [i \in 0..n |-> IF i = 0 THEN [out |-> <<>>, cur |-> <<>>] ELSE Place(f[i - 1], Encoded(clip[i]))]

LEMMA ChunksUpTo ==
  ASSUME NEW T, NEW clip \in Seq(T)
  PROVE  \A n \in 0..Len(clip) : \E f : ChunksTo(clip, n, f)
<1> DEFINE Uncut == {n \in 0..Len(clip) : ~ \E f : ChunksTo(clip, n, f)}
           none == [out |-> <<>>, cur |-> <<>>]
<1>1. Len(clip) \in Nat OBVIOUS
<1> SUFFICES ASSUME Uncut # {} PROVE FALSE OBVIOUS
<1>2. Uncut \in SUBSET Nat BY <1>1
<1>3. PICK n \in Uncut : \A m \in Uncut : n <= m
  <2> HIDE DEF Uncut
  <2> QED BY <1>2, Lowest
<1>4. n \in Nat /\ n <= Len(clip) BY <1>1
<1>5. n # 0
  <2>1. ChunksTo(clip, 0, [i \in 0..0 |-> none]) BY DEF ChunksTo
  <2> QED BY <2>1
<1>6. n - 1 \in 0..Len(clip) /\ n - 1 \notin Uncut
  <2>1. n - 1 \in Nat /\ ~(n <= n - 1) /\ n - 1 \in 0..Len(clip) BY ONLY <1>1, <1>4, <1>5
  <2> HIDE DEF Uncut
  <2> QED BY <1>3, <2>1
<1>7. PICK f : ChunksTo(clip, n - 1, f) BY <1>6
<1> DEFINE newest == Place(f[n - 1], Encoded(clip[n]))
           g == [i \in 0..n |-> IF i = n THEN newest ELSE f[i]]
<1>8. ChunksTo(clip, n, g)
  <2> HIDE DEF newest, none
  <2>1. \A i \in 0..(n - 1) : g[i] = f[i] BY <1>4, <1>5
  <2>2. \A i \in 0..(n - 1) : f[i] = IF i = 0 THEN none ELSE Place(f[i - 1], Encoded(clip[i]))
    BY <1>7 DEF ChunksTo, none
  <2>3. g[n] = newest BY <1>4
  <2>4. ASSUME NEW i \in 0..n PROVE g[i] = IF i = 0 THEN none ELSE Place(g[i - 1], Encoded(clip[i]))
    <3>1. CASE i = n
      <4>1. n - 1 \in 0..(n - 1) BY <1>4, <1>5
      <4>2. g[n - 1] = f[n - 1] BY <2>1, <4>1
      <4> HIDE DEF g
      <4> QED BY ONLY <1>5, <2>3, <3>1, <4>2 DEF newest
    <3>2. CASE i # n
      <4>1. i \in 0..(n - 1) /\ (i # 0 => i - 1 \in 0..(n - 1)) BY <1>4, <3>2
      <4> HIDE DEF g
      <4> QED BY <2>1, <2>2, <4>1
    <3> QED BY <3>1, <3>2
  <2>5. g = [i \in 0..n |-> g[i]] OBVIOUS
  <2> HIDE DEF g
  <2> QED BY <2>4, <2>5 DEF ChunksTo, none
<1> QED BY <1>3, <1>8

\* What a clip is cut into.
LEMMA ChunksFit ==
  ASSUME NEW clip \in Seq(Entries), ~ \E i \in DOMAIN clip : Refused(clip[i])
  PROVE  encode_chunks(clip) \in Seq(Piece)
<1> DEFINE Acc == [out : Seq(Piece), cur : Piece]
           none == [out |-> <<>>, cur |-> <<>>]
<1>1. Len(clip) \in Nat /\ Len(clip) \in 0..Len(clip) /\ DOMAIN clip = 1..Len(clip) OBVIOUS
<1>2. \E f : ChunksTo(clip, Len(clip), f) BY <1>1, ChunksUpTo
<1>3. PICK f : /\ ChunksTo(clip, Len(clip), f)
               /\ encode_chunks(clip) = IF f[Len(clip)].cur = <<>> THEN f[Len(clip)].out
                                        ELSE Append(f[Len(clip)].out, f[Len(clip)].cur)
  BY <1>2 DEF ChunksTo, encode_chunks
<1>4. \A i \in 0..Len(clip) : f[i] = IF i = 0 THEN none ELSE Place(f[i - 1], Encoded(clip[i]))
  BY <1>3 DEF ChunksTo
<1>5. f[0] \in Acc
  <2>1. <<>> \in Seq(Bytes) /\ <<>> \in Seq(Piece) OBVIOUS
  <2>2. PayloadMax \in Nat BY SizeAssumption
  <2>3. <<>> \in Piece BY <2>1, <2>2, LenOfNothing DEF Piece
  <2>4. f[0] = none BY <1>1, <1>4
  <2> QED BY ONLY <2>1, <2>3, <2>4
<1>6. \A i \in 1..Len(clip) : Encoded(clip[i]) \in Bytes
  <2> SUFFICES ASSUME NEW i \in 1..Len(clip) PROVE Encoded(clip[i]) \in Bytes OBVIOUS
  <2>1. clip[i] \in Entries BY ElementOfSeq
  <2>2. ~Refused(clip[i]) BY <1>1
  <2> QED BY ONLY <2>1, <2>2 DEF Bytes
<1>7. \A i \in 1..Len(clip) : f[i] = Place(f[i - 1], Encoded(clip[i])) BY <1>1, <1>4
<1> DEFINE Wrong == {i \in 0..Len(clip) : f[i] \notin Acc}
<1>8. Wrong = {}
  <2> HIDE DEF none
  <2> SUFFICES ASSUME Wrong # {} PROVE FALSE OBVIOUS
  <2>1. Wrong \in SUBSET Nat BY <1>1
  <2>2. PICK n \in Wrong : \A m \in Wrong : n <= m
    <3> HIDE DEF Wrong
    <3> QED BY <2>1, Lowest
  <2> HIDE DEF Acc
  <2>3. n \in Nat /\ n <= Len(clip) /\ f[n] \notin Acc BY <1>1
  <2>4. n # 0 BY <1>5, <2>3
  <2>5. n - 1 \in 0..Len(clip) /\ n - 1 \notin Wrong
    <3>1. n - 1 \in Nat /\ ~(n <= n - 1) /\ n - 1 \in 0..Len(clip) BY ONLY <1>1, <2>3, <2>4
    <3> HIDE DEF Wrong
    <3> QED BY <2>2, <3>1
  <2>6. f[n - 1] \in Acc BY <2>5
  <2>7. n \in 1..Len(clip) BY ONLY <1>1, <2>3, <2>4
  <2>8. Encoded(clip[n]) \in Bytes /\ f[n] = Place(f[n - 1], Encoded(clip[n])) BY <1>6, <1>7, <2>7
  <2>9. Place(f[n - 1], Encoded(clip[n])) \in Acc BY ONLY <2>6, <2>8, PlaceFits DEF Acc
  <2> QED BY ONLY <2>3, <2>8, <2>9
<1>9. f[Len(clip)] \in Acc BY <1>1, <1>8
<1>10. f[Len(clip)].out \in Seq(Piece) /\ f[Len(clip)].cur \in Piece BY ONLY <1>9
<1> QED BY ONLY <1>3, <1>10

-----------------------------------------------------------------------------
(* The threads that share a handle.                                         *)

Upload == [at : {"idle", "enter", "seq", "write", "record", "clear", "cleared"}, n : Nat,
           pieces : Seq(Piece), seq : 0..(SeqSpan - 1)]
Kept == [append : Nat, bytes : Bytes]

UploadTypes ==
  /\ up \in [Threads -> Upload]
  /\ ring \in Seq(Kept)
  /\ heard \in 0..SeqSpan /\ next \in 0..(SeqSpan - 1)
  /\ gap \in BOOLEAN /\ cloneUp \in BOOLEAN
  /\ budget \in [calls : Nat, failed : Nat]

\* One thread at a time is past the guard, and a frame is numbered only for a piece.
OneSends ==
  \A t \in Threads :
    /\ up[t].at \notin {"idle", "enter"} => guard = t
    /\ up[t].at \in {"write", "record"} => up[t].pieces # <<>>

\* The SEQ that the box expects is that of the frame about to be sent, else the next.
InStep(seq) == heard # NoSeq => cloneUp /\ (heard + 1) % SeqSpan = seq
SeqsFollow ==
  budget.failed = 0 =>
    /\ ~gap
    /\ (\A t \in Threads : up[t].at # "write") => InStep(next)
    /\ \A t \in Threads : up[t].at = "write" => InStep(up[t].seq) /\ next = (up[t].seq + 1) % SeqSpan

UploadInv == UploadTypes /\ OneSends /\ SeqsFollow

LEMMA UploadStart == UploadInit => UploadInv
<1> SUFFICES ASSUME UploadInit PROVE UploadInv OBVIOUS
<1>1. SeqSpan \in Nat /\ SeqSpan # 0 BY SizeAssumption
<1>2. 0 \in 0..(SeqSpan - 1) /\ SeqSpan \in 0..SeqSpan BY ONLY <1>1
<1>3. Resting \in Upload
  <2>1. <<>> \in Seq(Piece) /\ 0 \in Nat OBVIOUS
  <2> QED BY ONLY <1>2, <2>1 DEF Resting, Upload
<1>4. \A t \in Threads : up[t] = Resting BY DEF UploadInit
<1>5. Resting.at = "idle" BY DEF Resting
<1>6. UploadTypes
  <2>1. up \in [Threads -> Upload] BY <1>3 DEF UploadInit
  <2>2. ring \in Seq(Kept) BY DEF UploadInit
  <2>3. budget \in [calls : Nat, failed : Nat] BY DEF UploadInit
  <2>4. heard \in 0..SeqSpan /\ next \in 0..(SeqSpan - 1) BY <1>2 DEF UploadInit, NoSeq
  <2>5. gap \in BOOLEAN /\ cloneUp \in BOOLEAN BY DEF UploadInit
  <2> QED BY ONLY <2>1, <2>2, <2>3, <2>4, <2>5 DEF UploadTypes
<1>7. OneSends BY ONLY <1>4, <1>5 DEF OneSends
<1>8. SeqsFollow
  <2>1. gap = FALSE /\ heard = NoSeq BY DEF UploadInit
  <2> QED BY ONLY <1>4, <1>5, <2>1 DEF SeqsFollow, InStep
<1> QED BY ONLY <1>6, <1>7, <1>8 DEF UploadInv

\* What the rest of a step needs of the thread that takes it.
LEMMA OneMoves ==
  ASSUME UploadInv, NEW t \in Threads, NEW r \in Upload, up' = [up EXCEPT ![t] = r]
  PROVE  /\ up' \in [Threads -> Upload] /\ up'[t] = r /\ up[t] \in Upload
         /\ \A u \in Threads \ {t} : up'[u] = up[u]
BY DEF UploadInv, UploadTypes

\* While a thread is past the guard every other one is before it.
LEMMA OthersWait ==
  ASSUME UploadInv, NEW t \in Threads, up[t].at \notin {"idle", "enter"} \/ guard = None,
         NEW u \in Threads \ {t}
  PROVE  up[u].at \in {"idle", "enter"}
<1> SUFFICES ASSUME up[u].at \notin {"idle", "enter"} PROVE FALSE OBVIOUS
<1>1. guard = u BY DEF UploadInv, OneSends
<1>2. CASE up[t].at \notin {"idle", "enter"}
  <2>1. guard = t BY <1>2 DEF UploadInv, OneSends
  <2> QED BY ONLY <1>1, <2>1
<1>3. CASE guard = None BY ONLY <1>1, <1>3, NoneAssumption
<1> QED BY <1>2, <1>3

\* A step that neither sends nor numbers a frame leaves the SEQs in step.
LEMMA SeqsStay ==
  ASSUME UploadInv, UNCHANGED <<ring, heard, gap, cloneUp, next>>,
         NEW t \in Threads, NEW r \in Upload, up' = [up EXCEPT ![t] = r],
         budget' \in [calls : Nat, failed : Nat],
         budget'.failed = 0 => budget.failed = 0 /\ up[t].at # "write" /\ r.at # "write"
  PROVE  UploadTypes' /\ SeqsFollow'
<1>1. /\ up' \in [Threads -> Upload] /\ up'[t] = r /\ \A u \in Threads \ {t} : up'[u] = up[u]
  BY OneMoves
<1>2. UploadTypes' BY <1>1 DEF UploadInv, UploadTypes
<1>3. SeqsFollow'
  <2> SUFFICES ASSUME budget'.failed = 0
               PROVE  /\ ~gap'
                      /\ (\A u \in Threads : up'[u].at # "write") => InStep(next)'
                      /\ \A u \in Threads :
                           up'[u].at = "write" => InStep(up[u].seq)' /\ next' = (up'[u].seq + 1) % SeqSpan
    BY DEF SeqsFollow
  <2>1. /\ ~gap
        /\ (\A u \in Threads : up[u].at # "write") => InStep(next)
        /\ \A u \in Threads : up[u].at = "write" => InStep(up[u].seq) /\ next = (up[u].seq + 1) % SeqSpan
    BY DEF UploadInv, SeqsFollow
  <2>2. up[t].at # "write" /\ up'[t].at # "write" BY <1>1
  <2>3. \A u \in Threads : up'[u].at = "write" => up[u].at = "write" /\ up'[u] = up[u]
    BY ONLY <1>1, <2>2
  <2>4. \A u \in Threads : up[u].at = "write" => up'[u].at = "write" BY ONLY <1>1, <2>2
  <2>5. InStep(next)' <=> InStep(next) BY DEF InStep
  <2>6. ASSUME NEW u \in Threads, up'[u].at = "write"
        PROVE  InStep(up[u].seq)' /\ next' = (up'[u].seq + 1) % SeqSpan
    <3>1. up[u].at = "write" /\ up'[u] = up[u] BY ONLY <2>3, <2>6
    <3>2. InStep(up[u].seq)' <=> InStep(up[u].seq) BY <3>1 DEF InStep
    <3> QED BY <2>1, <3>1, <3>2
  <2> QED BY ONLY <2>1, <2>4, <2>5, <2>6, UNCHANGED gap
<1> QED BY ONLY <1>2, <1>3

-----------------------------------------------------------------------------
(* The steps of a thread.                                                  *)

LEMMA AppendCalledKeeps ==
  ASSUME UploadInv, NEW t \in Threads, AppendCalled(t)
  PROVE  UploadInv'
<1>1. /\ up[t].at = "idle" /\ budget' = [budget EXCEPT !.calls = @ + 1]
      /\ UNCHANGED <<ring, heard, gap, cloneUp, loaded, guard, next>>
  BY DEF AppendCalled
<1>2. PICK clip \in Clips :
        up' = IF \E i \in DOMAIN clip : Refused(clip[i]) THEN up
              ELSE [up EXCEPT ![t] = [at |-> "enter", n |-> budget.calls + 1,
                                      pieces |-> encode_chunks(clip), seq |-> 0]]
  BY DEF AppendCalled
<1>3. budget \in [calls : Nat, failed : Nat] /\ SeqSpan \in Nat /\ SeqSpan # 0
  BY SizeAssumption DEF UploadInv, UploadTypes
<1>4. budget' \in [calls : Nat, failed : Nat] /\ budget'.failed = budget.failed BY ONLY <1>1, <1>3
<1>5. CASE \E i \in DOMAIN clip : Refused(clip[i])
  <2>1. up' = up BY ONLY <1>2, <1>5
  <2> QED BY <1>1, <1>4, <2>1 DEF UploadInv, UploadTypes, OneSends, SeqsFollow, InStep
<1>6. CASE ~ \E i \in DOMAIN clip : Refused(clip[i])
  <2> DEFINE r == [at |-> "enter", n |-> budget.calls + 1, pieces |-> encode_chunks(clip), seq |-> 0]
  <2>1. up' = [up EXCEPT ![t] = r] BY ONLY <1>2, <1>6
  <2>2. r \in Upload
    <3>1. clip \in Seq(Entries) BY ClipsAssumption
    <3>2. encode_chunks(clip) \in Seq(Piece) BY ONLY <1>6, <3>1, ChunksFit
    <3>3. budget.calls + 1 \in Nat /\ 0 \in 0..(SeqSpan - 1) BY ONLY <1>3
    <3> QED BY ONLY <3>2, <3>3 DEF Upload
  <2>3. r.at = "enter" OBVIOUS
  <2> HIDE DEF r
  <2>4. UploadTypes' /\ SeqsFollow'
    <3>1. budget'.failed = 0 => budget.failed = 0 /\ up[t].at # "write" /\ r.at # "write"
      BY ONLY <1>1, <1>4, <2>3
    <3> QED BY ONLY UploadInv, <1>1, <1>4, <2>1, <2>2, <3>1, SeqsStay
  <2>5. OneSends'
    <3>1. up'[t] = r /\ \A u \in Threads \ {t} : up'[u] = up[u] BY <2>1, <2>2, OneMoves
    <3> QED BY <1>1, <2>3, <3>1 DEF UploadInv, OneSends
  <2> QED BY ONLY <2>4, <2>5 DEF UploadInv
<1> QED BY <1>5, <1>6

LEMMA RestingIs == Resting \in Upload /\ Resting.at = "idle"
<1>1. SeqSpan \in Nat /\ SeqSpan # 0 BY SizeAssumption
<1>2. 0 \in 0..(SeqSpan - 1) BY ONLY <1>1
<1>3. <<>> \in Seq(Piece) /\ 0 \in Nat OBVIOUS
<1> QED BY ONLY <1>2, <1>3 DEF Resting, Upload

LEMMA ClearCalledKeeps ==
  ASSUME UploadInv, NEW t \in Threads, ClearCalled(t)
  PROVE  UploadInv'
<1> DEFINE r == [Resting EXCEPT !.at = "enter", !.n = 0]
<1>1. /\ up[t].at = "idle" /\ budget' = [budget EXCEPT !.calls = @ + 1]
      /\ UNCHANGED <<ring, heard, gap, cloneUp, loaded, guard, next>>
      /\ up' = [up EXCEPT ![t] = r]
  BY DEF ClearCalled
<1>2. budget \in [calls : Nat, failed : Nat] BY DEF UploadInv, UploadTypes
<1>3. budget' \in [calls : Nat, failed : Nat] /\ budget'.failed = budget.failed BY ONLY <1>1, <1>2
<1>4. r \in Upload /\ r.at = "enter"
  <2>1. Resting \in Upload BY RestingIs
  <2> QED BY ONLY <2>1 DEF Upload
<1> HIDE DEF r
<1>5. UploadTypes' /\ SeqsFollow'
  <2>1. budget'.failed = 0 => budget.failed = 0 /\ up[t].at # "write" /\ r.at # "write"
    BY ONLY <1>1, <1>3, <1>4
  <2> QED BY ONLY UploadInv, <1>1, <1>3, <1>4, <2>1, SeqsStay
<1>6. OneSends'
  <2>1. up'[t] = r /\ \A u \in Threads \ {t} : up'[u] = up[u] BY <1>1, <1>4, OneMoves
  <2> QED BY <1>1, <1>4, <2>1 DEF UploadInv, OneSends
<1> QED BY ONLY <1>5, <1>6 DEF UploadInv

\* A thread that moves on within the guard, none of the box's state changed.
LEMMA OnlyMoves ==
  ASSUME UploadInv, UNCHANGED <<ring, heard, gap, cloneUp, next>>,
         NEW t \in Threads, NEW r \in Upload, up' = [up EXCEPT ![t] = r],
         budget' \in [calls : Nat, failed : Nat],
         budget'.failed = 0 => budget.failed = 0 /\ up[t].at # "write" /\ r.at # "write",
         up[t].at \notin {"idle", "enter"} \/ guard = None,
         r.at = "idle" \/ (guard' = t /\ r.at \notin {"write", "record"})
  PROVE  UploadInv'
<1>1. up'[t] = r /\ \A u \in Threads \ {t} : up'[u] = up[u] BY OneMoves
<1>2. \A u \in Threads \ {t} : up'[u].at \in {"idle", "enter"} BY <1>1, OthersWait
<1>3. UploadTypes' /\ SeqsFollow' BY SeqsStay
<1>4. OneSends' BY <1>1, <1>2 DEF OneSends
<1> QED BY ONLY <1>3, <1>4 DEF UploadInv

LEMMA GuardTakenKeeps ==
  ASSUME UploadInv, NEW t \in Threads, GuardTaken(t)
  PROVE  UploadInv'
<1> DEFINE r == [up[t] EXCEPT !.at = IF Appends(t) THEN "seq" ELSE "clear"]
<1>1. /\ up[t].at = "enter" /\ guard = None /\ guard' = t /\ budget' = budget
      /\ UNCHANGED <<ring, heard, gap, cloneUp, next>>
  BY DEF GuardTaken, Guarded
<1>2. up \in [Threads -> Upload] /\ budget \in [calls : Nat, failed : Nat]
  BY DEF UploadInv, UploadTypes
<1>3. up' = [up EXCEPT ![t] = r] BY <1>2 DEF GuardTaken
<1>4. r \in Upload /\ r.at \in {"seq", "clear"}
  <2>1. up[t] \in Upload BY <1>2
  <2> QED BY ONLY <2>1 DEF Upload
<1> HIDE DEF r
<1>5. budget' \in [calls : Nat, failed : Nat] /\ (budget'.failed = 0 => budget.failed = 0) BY <1>1, <1>2
<1> QED BY <1>1, <1>3, <1>4, <1>5, OnlyMoves

LEMMA DoneKeeps ==
  ASSUME UploadInv, NEW t \in Threads, Done(t), up[t].at \notin {"idle", "enter"},
         UNCHANGED <<ring, heard, gap, cloneUp, next>>,
         budget' \in [calls : Nat, failed : Nat],
         budget'.failed = 0 => budget.failed = 0 /\ up[t].at # "write"
  PROVE  UploadInv'
<1>1. up' = [up EXCEPT ![t] = Resting] BY DEF Done
<1>2. Resting \in Upload /\ Resting.at = "idle" BY RestingIs
<1> QED BY <1>1, <1>2, OnlyMoves

LEMMA TakeSeqKeeps ==
  ASSUME UploadInv, NEW t \in Threads, TakeSeq(t)
  PROVE  UploadInv'
<1>1. up[t].at = "seq" /\ budget' = budget /\ UNCHANGED <<ring, heard, gap, cloneUp>> BY DEF TakeSeq
<1>2. /\ up \in [Threads -> Upload] /\ budget \in [calls : Nat, failed : Nat]
      /\ ring \in Seq(Kept) /\ heard \in 0..SeqSpan /\ next \in 0..(SeqSpan - 1)
      /\ gap \in BOOLEAN /\ cloneUp \in BOOLEAN
  BY DEF UploadInv, UploadTypes
<1>3. CASE up[t].pieces = <<>>
  <2>1. Done(t) /\ next' = next BY <1>3 DEF TakeSeq
  <2> QED BY <1>1, <1>2, <2>1, DoneKeeps
<1>4. CASE up[t].pieces # <<>>
  <2> DEFINE r == [up[t] EXCEPT !.at = "write", !.seq = next]
  <2>1. next' = (next + 1) % SeqSpan /\ guard' = guard BY <1>4 DEF TakeSeq
  <2>2. up' = [up EXCEPT ![t] = r] BY <1>2, <1>4 DEF TakeSeq
  <2>3. up[t] \in Upload BY <1>2
  <2>4. r \in Upload /\ r.at = "write" /\ r.seq = next /\ r.pieces = up[t].pieces
    BY ONLY <1>2, <2>3 DEF Upload
  <2> HIDE DEF r
  <2>5. up' \in [Threads -> Upload] /\ up'[t] = r /\ \A u \in Threads \ {t} : up'[u] = up[u]
    BY <2>2, <2>4, OneMoves
  <2>6. \A u \in Threads \ {t} : up'[u].at \in {"idle", "enter"} BY <1>1, <2>5, OthersWait
  <2>7. next' \in 0..(SeqSpan - 1)
    <3>1. SeqSpan \in Nat \ {0} BY SizeAssumption
    <3>2. next + 1 \in Nat BY ONLY <1>2, <3>1
    <3> QED BY ONLY <2>1, <3>1, <3>2
  <2>8. UploadTypes' BY <1>1, <1>2, <2>5, <2>7 DEF UploadTypes
  <2>9. guard = t BY <1>1 DEF UploadInv, OneSends
  <2>10. OneSends' BY <1>4, <2>1, <2>4, <2>5, <2>6, <2>9 DEF OneSends
  <2>11. SeqsFollow'
    <3> SUFFICES ASSUME budget'.failed = 0
                 PROVE  /\ ~gap'
                        /\ (\A u \in Threads : up'[u].at # "write") => InStep(next)'
                        /\ \A u \in Threads :
                             up'[u].at = "write" => InStep(up[u].seq)' /\ next' = (up'[u].seq + 1) % SeqSpan
      BY DEF SeqsFollow
    <3>1. \A u \in Threads : up[u].at # "write"
      <4>1. \A u \in Threads \ {t} : up[u].at \in {"idle", "enter"} BY <1>1, OthersWait
      <4> QED BY ONLY <1>1, <4>1
    <3>2. ~gap /\ InStep(next) BY <1>1, <3>1 DEF UploadInv, SeqsFollow
    <3>3. \A u \in Threads : up'[u].at = "write" => u = t BY ONLY <2>6
    <3>4. up'[t].at = "write" /\ up'[t].seq = next BY ONLY <2>4, <2>5
    <3>5. InStep(up[t].seq)' BY <1>1, <3>2, <3>4 DEF InStep
    <3>6. next' = (up'[t].seq + 1) % SeqSpan BY ONLY <2>1, <3>4
    <3>7. ~gap' BY <1>1, <3>2
    <3>8. \A u \in Threads :
            up'[u].at = "write" => InStep(up[u].seq)' /\ next' = (up'[u].seq + 1) % SeqSpan
      <4> SUFFICES ASSUME NEW u \in Threads, up'[u].at = "write"
                   PROVE  InStep(up[u].seq)' /\ next' = (up'[u].seq + 1) % SeqSpan
        OBVIOUS
      <4>1. u = t BY ONLY <3>3, up'[u].at = "write", u \in Threads
      <4> QED BY ONLY <3>5, <3>6, <4>1
    <3> QED BY ONLY <3>4, <3>7, <3>8, t \in Threads
  <2> QED BY ONLY <2>8, <2>10, <2>11 DEF UploadInv
<1> QED BY <1>3, <1>4

LEMMA WriteChunkKeeps ==
  ASSUME UploadInv, NEW t \in Threads, WriteChunk(t)
  PROVE  UploadInv'
<1> DEFINE r == [up[t] EXCEPT !.at = "record"]
<1>1. /\ up[t].at = "write" /\ TakesAppend(up[t].n, up[t].seq, Head(up[t].pieces))
      /\ UNCHANGED <<cloneUp, loaded, guard, next, budget>>
  BY DEF WriteChunk
<1>2. /\ up \in [Threads -> Upload] /\ budget \in [calls : Nat, failed : Nat]
      /\ ring \in Seq(Kept) /\ heard \in 0..SeqSpan /\ next \in 0..(SeqSpan - 1)
      /\ gap \in BOOLEAN /\ cloneUp \in BOOLEAN
  BY DEF UploadInv, UploadTypes
<1>3. up' = [up EXCEPT ![t] = r] BY <1>2 DEF WriteChunk
<1>4. up[t] \in Upload BY <1>2
<1>5. r \in Upload /\ r.at = "record" /\ r.pieces = up[t].pieces BY ONLY <1>4 DEF Upload
<1> HIDE DEF r
<1>6. up' \in [Threads -> Upload] /\ up'[t] = r /\ \A u \in Threads \ {t} : up'[u] = up[u]
  BY <1>3, <1>5, OneMoves
<1>7. \A u \in Threads \ {t} : up'[u].at \in {"idle", "enter"} BY <1>1, <1>6, OthersWait
<1>8. guard = t /\ up[t].pieces # <<>> BY <1>1 DEF UploadInv, OneSends
<1>9. OneSends' BY <1>1, <1>5, <1>6, <1>7, <1>8 DEF OneSends
<1>10. up[t].n \in Nat /\ up[t].pieces \in Seq(Piece) /\ up[t].seq \in 0..(SeqSpan - 1)
  BY ONLY <1>4 DEF Upload
<1>11. Head(up[t].pieces) \in Seq(Bytes)
  <2>1. Head(up[t].pieces) \in Piece BY ONLY <1>8, <1>10
  <2> QED BY ONLY <2>1 DEF Piece
<1>12. SeqSpan \in Nat \ {0} BY SizeAssumption
<1>13. UploadTypes'
  <2>1. ring' \in Seq(Kept) /\ heard' \in 0..SeqSpan /\ gap' \in BOOLEAN
    <3>1. CASE ~cloneUp
      <4>1. UNCHANGED <<ring, heard, gap>> BY ONLY <1>1, <3>1 DEF TakesAppend
      <4> QED BY ONLY <1>2, <4>1
    <3>2. CASE cloneUp
      <4> DEFINE piece == Head(up[t].pieces)
                 more == [i \in DOMAIN piece |-> [append |-> up[t].n, bytes |-> piece[i]]]
      <4>1. ring' = ring \o more /\ heard' = up[t].seq
            /\ gap' = (gap \/ (heard # NoSeq /\ (heard + 1) % SeqSpan # up[t].seq))
        BY ONLY <1>1, <3>2 DEF TakesAppend
      <4>2. \A i \in DOMAIN piece : [append |-> up[t].n, bytes |-> piece[i]] \in Kept
        <5> SUFFICES ASSUME NEW i \in DOMAIN piece
                     PROVE  [append |-> up[t].n, bytes |-> piece[i]] \in Kept
          OBVIOUS
        <5>1. DOMAIN piece = 1..Len(piece) BY <1>11
        <5> HIDE DEF piece
        <5>2. piece \in Seq(Bytes) BY ONLY <1>11 DEF piece
        <5>3. i \in 1..Len(piece) BY <5>1
        <5>4. piece[i] \in Bytes BY ONLY <5>2, <5>3, ElementOfSeq
        <5> QED BY ONLY <1>10, <5>4 DEF Kept
      <4>3. more \in Seq(Kept)
        <5> HIDE DEF piece
        <5>1. piece \in Seq(Bytes) BY ONLY <1>11 DEF piece
        <5>2. DOMAIN piece = 1..Len(piece) /\ Len(piece) \in Nat BY ONLY <5>1
        <5> QED BY ONLY <4>2, <5>2 DEF more
      <4> HIDE DEF more
      <4>4. ring' \in Seq(Kept) BY ONLY <1>2, <4>1, <4>3
      <4>5. heard' \in 0..SeqSpan BY ONLY <1>10, <1>12, <4>1
      <4>6. gap' \in BOOLEAN BY <1>2, <4>1
      <4> QED BY ONLY <4>4, <4>5, <4>6
    <3> QED BY <3>1, <3>2
  <2> QED BY <1>1, <1>2, <1>6, <2>1 DEF UploadTypes
<1>14. SeqsFollow'
  <2> SUFFICES ASSUME budget'.failed = 0
               PROVE  /\ ~gap'
                      /\ (\A u \in Threads : up'[u].at # "write") => InStep(next)'
                      /\ \A u \in Threads :
                           up'[u].at = "write" => InStep(up[u].seq)' /\ next' = (up'[u].seq + 1) % SeqSpan
    BY DEF SeqsFollow
  <2>1. ~gap /\ InStep(up[t].seq) /\ next = (up[t].seq + 1) % SeqSpan BY <1>1 DEF UploadInv, SeqsFollow
  <2>2. \A u \in Threads : up'[u].at # "write" BY ONLY <1>5, <1>6, <1>7
  <2>3. CASE ~cloneUp
    <3>1. UNCHANGED <<heard, gap>> BY ONLY <1>1, <2>3 DEF TakesAppend
    <3>2. InStep(next)' BY <1>1, <2>1, <2>3, <3>1 DEF InStep
    <3> QED BY ONLY <2>1, <2>2, <3>1, <3>2
  <2>4. CASE cloneUp
    <3>1. heard' = up[t].seq /\ gap' = (gap \/ (heard # NoSeq /\ (heard + 1) % SeqSpan # up[t].seq))
      BY ONLY <1>1, <2>4 DEF TakesAppend
    <3>2. ~gap' BY ONLY <2>1, <3>1 DEF InStep
    <3>3. InStep(next)' BY <1>1, <2>1, <2>4, <3>1 DEF InStep
    <3> QED BY ONLY <2>2, <3>2, <3>3
  <2> QED BY ONLY <2>3, <2>4
<1> QED BY ONLY <1>9, <1>13, <1>14 DEF UploadInv

LEMMA RecordLoadedKeeps ==
  ASSUME UploadInv, NEW t \in Threads, RecordLoaded(t)
  PROVE  UploadInv'
<1> DEFINE r == [up[t] EXCEPT !.at = "seq", !.pieces = Tail(@)]
<1>1. up[t].at = "record" /\ UNCHANGED <<ring, heard, gap, cloneUp, guard, next, budget>>
  BY DEF RecordLoaded
<1>2. up \in [Threads -> Upload] /\ budget \in [calls : Nat, failed : Nat]
  BY DEF UploadInv, UploadTypes
<1>3. up' = [up EXCEPT ![t] = r] BY <1>2 DEF RecordLoaded
<1>4. guard = t /\ up[t].pieces # <<>> BY <1>1 DEF UploadInv, OneSends
<1>5. r \in Upload /\ r.at = "seq"
  <2>1. up[t] \in Upload BY <1>2
  <2>2. up[t].pieces \in Seq(Piece) BY ONLY <2>1 DEF Upload
  <2>3. Tail(up[t].pieces) \in Seq(Piece) BY ONLY <1>4, <2>2
  <2> QED BY ONLY <2>1, <2>3 DEF Upload
<1> HIDE DEF r
<1>6. budget' \in [calls : Nat, failed : Nat] /\ (budget'.failed = 0 => budget.failed = 0) BY <1>1, <1>2
<1> QED BY <1>1, <1>3, <1>4, <1>5, <1>6, OnlyMoves

LEMMA WriteClearKeeps ==
  ASSUME UploadInv, NEW t \in Threads, WriteClear(t)
  PROVE  UploadInv'
<1> DEFINE r == [up[t] EXCEPT !.at = "cleared"]
<1>1. /\ up[t].at = "clear" /\ ring' = <<>> /\ heard' = NoSeq /\ gap' = FALSE
      /\ UNCHANGED <<cloneUp, guard, next, budget>>
  BY DEF WriteClear, TakesClear
<1>2. /\ up \in [Threads -> Upload] /\ budget \in [calls : Nat, failed : Nat]
      /\ next \in 0..(SeqSpan - 1) /\ cloneUp \in BOOLEAN
  BY DEF UploadInv, UploadTypes
<1>3. up' = [up EXCEPT ![t] = r] BY <1>2 DEF WriteClear
<1>4. r \in Upload /\ r.at = "cleared"
  <2>1. up[t] \in Upload BY <1>2
  <2> QED BY ONLY <2>1 DEF Upload
<1> HIDE DEF r
<1>5. up' \in [Threads -> Upload] /\ up'[t] = r /\ \A u \in Threads \ {t} : up'[u] = up[u]
  BY <1>3, <1>4, OneMoves
<1>6. \A u \in Threads \ {t} : up'[u].at \in {"idle", "enter"} BY <1>1, <1>5, OthersWait
<1>7. guard = t BY <1>1 DEF UploadInv, OneSends
<1>8. OneSends' BY <1>1, <1>4, <1>5, <1>6, <1>7 DEF OneSends
<1>9. UploadTypes'
  <2>1. SeqSpan \in Nat \ {0} BY SizeAssumption
  <2>2. heard' \in 0..SeqSpan BY ONLY <1>1, <2>1 DEF NoSeq
  <2>3. ring' \in Seq(Kept) BY ONLY <1>1
  <2> QED BY <1>1, <1>2, <1>5, <2>2, <2>3 DEF UploadTypes
<1>10. SeqsFollow'
  <2>1. \A u \in Threads : up'[u].at # "write" BY ONLY <1>4, <1>5, <1>6
  <2>2. InStep(next)' /\ ~gap' BY <1>1 DEF InStep
  <2> QED BY <2>1, <2>2 DEF SeqsFollow
<1> QED BY ONLY <1>8, <1>9, <1>10 DEF UploadInv

LEMMA RecordClearedKeeps ==
  ASSUME UploadInv, NEW t \in Threads, RecordCleared(t)
  PROVE  UploadInv'
<1>1. up[t].at = "cleared" /\ Done(t) /\ UNCHANGED <<ring, heard, gap, cloneUp, next, budget>>
  BY DEF RecordCleared
<1>2. budget \in [calls : Nat, failed : Nat] BY DEF UploadInv, UploadTypes
<1> QED BY <1>1, <1>2, DoneKeeps

LEMMA SendFailsKeeps ==
  ASSUME UploadInv, NEW t \in Threads, SendFails(t)
  PROVE  UploadInv'
<1>1. /\ up[t].at \in {"write", "clear"} /\ Done(t) /\ UNCHANGED <<ring, heard, gap, cloneUp, next>>
      /\ budget' = [budget EXCEPT !.failed = @ + 1]
  BY DEF SendFails
<1>2. budget \in [calls : Nat, failed : Nat] BY DEF UploadInv, UploadTypes
<1>3. budget' \in [calls : Nat, failed : Nat] /\ budget'.failed # 0
  <2>1. budget.failed \in Nat /\ budget.calls \in Nat BY ONLY <1>2
  <2>2. budget.failed + 1 \in Nat /\ budget.failed + 1 # 0 BY ONLY <2>1
  <2>3. budget' = [calls |-> budget.calls, failed |-> budget.failed + 1] BY ONLY <1>1, <1>2
  <2> QED BY ONLY <2>1, <2>2, <2>3
<1> QED BY <1>1, <1>3, DoneKeeps

LEMMA CloneComesUpKeeps ==
  ASSUME UploadInv, CloneComesUp
  PROVE  UploadInv'
<1>1. cloneUp' = TRUE /\ UNCHANGED <<ring, heard, gap, loaded, guard, next, up, budget>>
  BY DEF CloneComesUp
<1>2. UploadTypes' /\ OneSends' BY <1>1 DEF UploadInv, UploadTypes, OneSends
<1>3. SeqsFollow' BY <1>1 DEF UploadInv, SeqsFollow, InStep
<1> QED BY ONLY <1>2, <1>3 DEF UploadInv

LEMMA UploadKept == UploadSpec => []UploadInv
<1>1. UploadInit => UploadInv BY UploadStart
<1>2. UploadInv /\ [UploadNext]_uploadVars => UploadInv'
  <2> SUFFICES ASSUME UploadInv, [UploadNext]_uploadVars PROVE UploadInv' OBVIOUS
  <2>1. CASE CloneComesUp BY <2>1, CloneComesUpKeeps
  <2>2. ASSUME NEW t \in Threads, UploadStep(t) PROVE UploadInv'
    BY <2>2, AppendCalledKeeps, ClearCalledKeeps, GuardTakenKeeps, TakeSeqKeeps, WriteChunkKeeps,
       RecordLoadedKeeps, WriteClearKeeps, RecordClearedKeeps, SendFailsKeeps DEF UploadStep
  <2>3. CASE UNCHANGED uploadVars
    BY <2>3 DEF uploadVars, UploadInv, UploadTypes, OneSends, SeqsFollow, InStep
  <2> QED BY <2>1, <2>2, <2>3 DEF UploadNext
<1> QED BY <1>1, <1>2, PTL DEF UploadSpec

\* The box reads what was appended: the appends of the threads that share a ClipHandle show it no
\* gap while every send succeeds, as the SEQ is taken and sent under reassert_guard (send_chunk);
\* every piece that encode_chunks cuts fits a frame, and a frame's tag is never a gap's.
THEOREM EntriesReadAsAppended == UploadSpec => []ReadAsAppended
<1>1. UploadInv => ReadAsAppended
  <2> SUFFICES ASSUME UploadInv PROVE ReadAsAppended OBVIOUS
  <2>1. up \in [Threads -> Upload] /\ ring \in Seq(Kept) /\ gap \in BOOLEAN BY DEF UploadInv, UploadTypes
  <2>2. budget.failed = 0 => ~gap BY DEF UploadInv, SeqsFollow
  <2>3. PiecesFit
    <3> SUFFICES ASSUME NEW t \in Threads, NEW i \in DOMAIN up[t].pieces
                 PROVE  LenOf(up[t].pieces[i]) <= PayloadMax
      BY DEF PiecesFit
    <3>1. up[t] \in Upload BY <2>1
    <3>2. up[t].pieces \in Seq(Piece) BY ONLY <3>1 DEF Upload
    <3>3. i \in 1..Len(up[t].pieces) BY <3>2
    <3>4. up[t].pieces[i] \in Piece BY ONLY <3>2, <3>3, ElementOfSeq
    <3> QED BY ONLY <3>4 DEF Piece
  <2>4. \A i \in DOMAIN ring :
          ReadEntry(ring[i].bytes) = IF ring[i].bytes.of.gap # 0 THEN "gap" ELSE "frame"
    <3> SUFFICES ASSUME NEW i \in DOMAIN ring
                 PROVE  ReadEntry(ring[i].bytes) = IF ring[i].bytes.of.gap # 0 THEN "gap" ELSE "frame"
      OBVIOUS
    <3>1. i \in 1..Len(ring) BY <2>1
    <3>2. ring[i] \in Kept BY ONLY <2>1, <3>1, ElementOfSeq
    <3>3. ring[i].bytes \in Bytes BY ONLY <3>2 DEF Kept
    <3> QED BY ONLY <3>3, BytesFit
  <2> QED BY ONLY <2>2, <2>3, <2>4 DEF ReadAsAppended
<1>2. UploadSpec => []UploadInv BY UploadKept
<1> QED BY <1>1, <1>2, PTL

=============================================================================
