-------------------------------- MODULE CApi --------------------------------
(***************************************************************************)
(* The C calls (src/medius-capi/src).  Each family of calls is the list of *)
(* checks it makes, in their order, and the pointers its body then follows.*)
(* A body may call back (the progress of a firmware image), and the        *)
(* callback may call in again.  What the crate does inside a body is the   *)
(* other modules'; here it succeeds, fails, or panics.                     *)
(***************************************************************************)
EXTENDS Naturals, Sequences, SequencesExt

CONSTANTS
  ApiThreads,    \* threads of the C program
  Errors,        \* names of the crate's errors
  MaxHandles,    \* bound on the handles of a kind
  MaxApiCalls    \* bound on the calls

ASSUME ApiAssumption ==
  /\ {"BadProtoVer", "Update", "Disconnected"} \subseteq Errors /\ "" \notin Errors
  /\ {MaxHandles, MaxApiCalls} \subseteq Nat

VARIABLES
  live,       \* handles of each kind that are not freed
  refs,       \* owners of the connection: LinkInner's count
  ended,      \* streams that are closed
  inside,     \* the calls of each thread that have passed their checks
  lastError,  \* LAST_ERROR of each thread
  returned,   \* the last failure, or success, each thread was told
  made        \* calls so far

apiVars == <<live, refs, ended, inside, lastError, returned, made>>

Kinds == {"device", "clip", "events", "input", "logs"}
NoError == [message |-> "", proto_ver |-> 0, update |-> FALSE]
NotTold == [status |-> "none", error |-> "none"]

-----------------------------------------------------------------------------
(* Checks.  An argument is null or not, a length zero or not, and a byte    *)
(* names a constant (a string is UTF-8) or does not.                        *)

Pointers == {"handle", "out", "data"}

Null(S) == [test |-> "null", of |-> S, status |-> "ErrInvalidArg"]
Unnamed == [test |-> "unnamed", of |-> {}, status |-> "ErrInvalidArg"]
Empty(status) == [test |-> "empty", of |-> {}, status |-> status]
Missing == [test |-> "missing", of |-> {"data"}, status |-> "ErrInvalidArg"]  \* opt_slice
ImageGiven == [test |-> "image", of |-> {"data"}, status |-> "ErrInvalidArg"]

Rejects(check, args) ==
  CASE check.test = "null"    -> check.of \cap args.null # {}
    [] check.test = "unnamed" -> ~args.named
    [] check.test = "empty"   -> args.empty
    [] check.test = "missing" -> ~args.empty /\ "data" \in args.null
    [] check.test = "image"   -> args.empty \/ "data" \in args.null

\* A family: what it returns, the handle it takes, its checks, the pointers it follows when a
\* length is not zero and when it is, and what it makes.
Calls(returns, on, checks, follows, always, makes) ==
  [returns |-> returns, on |-> on, checks |-> checks, follows |-> follows, always |-> always,
   makes |-> makes]
Status(on, checks, follows) == Calls("status", on, checks, follows, follows, "nothing")
Value(on, checks, follows) == Calls("value", on, checks, follows, follows, "nothing")
WithData(on, checks, always) == Calls("status", on, checks, always \cup {"data"}, always, "nothing")

-----------------------------------------------------------------------------
(* device.rs, in its order: the families each stretch of it is made of.     *)

Handle == {"handle"}
HandleAndOut == {"handle", "out"}
HandleAndData == {"handle", "data"}

with_device == Status("device", <<Null(Handle)>>, Handle)
query == Status("device", <<Null(HandleAndOut)>>, HandleAndOut)
ThenNamed == Status("device", <<Null(Handle), Unnamed>>, Handle)
NamedFirst == Status("device", <<Unnamed, Null(Handle)>>, Handle)
OfStruct == Status("device", <<Null(HandleAndData), Unnamed>>, HandleAndData)
Opening(checks, follows) == Calls("status", "none", checks, follows, follows, "device")

Opens == {Opening(<<Null({"data", "out"}), Unnamed>>, {"data", "out"})}
Finds == {Opening(<<Null({"out"})>>, {"out"})}
Lists == {Value("none", <<Null({"out"})>>, {"out"})}
Identified == Opens \cup Finds
Motions == {with_device}
Injections == {ThenNamed, Status("device", <<Unnamed, Null(Handle), Unnamed>>, Handle)}
Locking == {ThenNamed}
Verbs == {with_device, NamedFirst}
Raw == {WithData("device", <<Null(Handle), Unnamed, Missing>>, Handle)}
Exchanges == {WithData("device", <<Null(HandleAndOut), Missing>>, HandleAndOut)}
OfRules == {OfStruct, with_device, query}
OfPatches == {OfStruct, with_device, query}
OfTransforms == {OfStruct, with_device, NamedFirst, query}
Configuring == {with_device, NamedFirst, OfStruct, ThenNamed}
Staging == Calls("status", "device", <<Unnamed, ImageGiven, Null(Handle)>>, HandleAndData, HandleAndData, "progress")
Firmware == {query, Staging, NamedFirst, with_device}
Queries == {query}
Counters == {query}

-----------------------------------------------------------------------------
(* stream.rs.                                                               *)

SubscribesUnchecked(kind) ==
  Calls("status", "device", <<Null(HandleAndOut), Empty("ErrEmptySubscription"), Unnamed>>,
        HandleAndOut \cup {"data"}, HandleAndOut, kind)
Subscribes(kind) ==
  Calls("status", "device",
        <<Null(HandleAndOut), Empty("ErrEmptySubscription"), Null({"data"}), Unnamed>>,
        HandleAndOut \cup {"data"}, HandleAndOut, kind)
Receives(kind) == {Status(kind, <<Null(HandleAndOut)>>, HandleAndOut)}
Polls(kind) == {Value(kind, <<Null(HandleAndOut)>>, HandleAndOut), Value(kind, <<Null(Handle)>>, Handle)}
Held == {Value("input", <<Unnamed, Null(Handle)>>, Handle)}

Events == {Subscribes("events")} \cup Receives("events") \cup Polls("events")
Inputs == {Subscribes("input")}
InputReads == Receives("input") \cup Polls("input") \cup Held
Logs ==
  {Calls("status", "device", <<Null(HandleAndOut)>>, HandleAndOut, HandleAndOut, "logs")}
  \cup Receives("logs") \cup Polls("logs")

\* timeline_observe, after its callers' nulls: a null is told by false alone, a clock that is none
\* by the last error too.
Observes ==
  {Calls("bool", "none", <<Null({"data", "out"}), Unnamed>>, {"data", "out"}, {"data", "out"}, "nothing")}
Timelines == Observes \cup {Value("none", <<Null({"data"}), Unnamed>>, {"data"}), Value("none", <<Unnamed, Null({"data"})>>, {"data"})}

-----------------------------------------------------------------------------
(* clip.rs.  A frame and a builder hold no connection: they are data.       *)

Building == Status("none", <<Null({"data"})>>, {"data"})
Frames ==
  {Building, Status("none", <<Unnamed, Null({"data"})>>, {"data"}), Value("none", <<Null({"data"})>>, {"data"}),
   Calls("status", "none", <<Unnamed, Missing, Null({"out"})>>, {"data", "out"}, {"out"}, "nothing")}
Builders ==
  {Building, Status("none", <<Null({"data"}), Unnamed>>, {"data"}), Value("none", <<Null({"data"})>>, {"data"}),
   Status("none", <<Unnamed, Null({"data"}), Unnamed>>, {"data"}),
   Calls("status", "none", <<Unnamed, Missing, Null({"out"})>>, {"data", "out"}, {"out"}, "nothing"),
   Status("none", <<Null({"data", "out"})>>, {"data", "out"})}

with_clip == Status("clip", <<Null(Handle)>>, Handle)
ClipOf == {Calls("status", "device", <<Null(HandleAndOut)>>, HandleAndOut, HandleAndOut, "clip")}
AppendsClip == {Status("clip", <<Null(HandleAndData)>>, HandleAndData)}
Autolock == {Status("clip", <<Null(Handle), Unnamed>>, Handle)}
Binds == {Status("clip", <<Unnamed, Null(Handle)>>, Handle)}
BindsPacket == {Status("clip", <<Null(HandleAndData), Unnamed>>, HandleAndData)}
Plays == {with_clip}
Lost == {Value("clip", <<Null(Handle)>>, Handle)}
Reads == {Status("clip", <<Null(HandleAndOut)>>, HandleAndOut)}

(* mock.rs.  A mock box holds no connection either; the device opened over it does.  Its calls tell  *)
(* of no refusal, and a null out they skip is no pointer they follow.                                *)

with_mock == Value("none", <<Null(Handle)>>, Handle)
ScriptsNamed == Value("none", <<Null(Handle), Unnamed>>, Handle)
MockHandles == {Value("none", <<>>, {}), Value("none", <<Null(Handle)>>, Handle)}
MockIdentity == {with_mock, ScriptsNamed}
MockTables == {with_mock}
\* A transfer's reply with no data is an empty one: the body tests the pointer before it follows it.
MockTransfer == {with_mock}
MockOptions == {with_mock, ScriptsNamed}
MockClip ==
  {with_mock, ScriptsNamed,
   Calls("value", "none", <<Null(Handle), Unnamed, Missing>>, HandleAndData, Handle, "nothing")}
MockSession == {with_mock}
MockPushes ==
  {with_mock, Value("none", <<Null(Handle), Null({"data"})>>, HandleAndData),
   Value("none", <<Null(Handle), Null({"data"}), Unnamed>>, HandleAndData)}
MockReads == {with_mock, ScriptsNamed}
MockOpens == {Opening(<<Null(HandleAndOut)>>, HandleAndOut)}

Families == UNION
  {Opens, Finds, Lists, Identified, Motions, Injections, Locking, Verbs, Raw, Exchanges, OfRules,
   OfPatches, OfTransforms, Configuring, Firmware, Queries, Counters, Events, Inputs, InputReads, Logs,
   Timelines, Frames, Builders, ClipOf, AppendsClip, Autolock, Binds, BindsPacket, Plays, Lost, Reads, MockHandles,
   MockIdentity, MockTables, MockTransfer, MockOptions, MockClip, MockSession, MockPushes, MockReads,
   MockOpens}

Arguments == [null : SUBSET Pointers, empty : BOOLEAN, named : BOOLEAN]
Tests(family) == UNION {{c.test} : c \in ToSet(family.checks)}

\* The arguments of a call, those it does not take left at a harmless value.
ArgumentsOf(family) ==
  {a \in Arguments :
     /\ a.null \subseteq family.follows
     /\ a.named \/ "unnamed" \in Tests(family)
     /\ ~a.empty \/ Tests(family) \cap {"empty", "missing", "image"} # {}}

MadeCalls == UNION {{[call |-> family, args |-> a] : a \in ArgumentsOf(family)} : family \in Families}

-----------------------------------------------------------------------------
(* error.rs.                                                                *)

status_for(e) ==
  CASE e = "BadProtoVer"  -> "ErrBadProtoVer"
    [] e = "Update"       -> "ErrUpdate"
    [] e = "Disconnected" -> "ErrDisconnected"
    [] OTHER              -> "ErrUnknown"

Stored(t, message, proto_ver, update) ==
  lastError' = [lastError EXCEPT ![t] = [message |-> message, proto_ver |-> proto_ver, update |-> update]]

fail(t, status) ==
  /\ Stored(t, status, 0, FALSE)
  /\ returned' = [returned EXCEPT ![t] = [status |-> status, error |-> status]]

\* The version byte BadProtoVer carries: 0, or another that is not this build's.
Got(e) == IF e = "BadProtoVer" THEN {0, 1} ELSE {0}

\* Fault: the byte of the error before stays.
RecordOver(t, e) ==
  /\ \E got \in Got(e) :
       Stored(t, e, IF e = "BadProtoVer" THEN got ELSE lastError[t].proto_ver, e = "Update")
  /\ returned' = [returned EXCEPT ![t] = [status |-> status_for(e), error |-> e]]
record(t, e) ==
  /\ \E got \in Got(e) : Stored(t, e, got, e = "Update")
  /\ returned' = [returned EXCEPT ![t] = [status |-> status_for(e), error |-> e]]

clear_error(t) ==
  /\ Stored(t, "", 0, FALSE)
  /\ returned' = [returned EXCEPT ![t] = [status |-> "Ok", error |-> "none"]]

Unheard == UNCHANGED <<lastError, returned>>

\* guard_status and guard.
Panicked(t, family) == IF family.returns = "status" THEN fail(t, "ErrPanic") ELSE Unheard

\* Only a status, and timeline_observe's fail_bool, tell of a refusal.
CallRefused(t, family, check) ==
  IF family.returns = "status" \/ (family.returns = "bool" /\ check.test = "unnamed")
  THEN fail(t, check.status) ELSE Unheard

-----------------------------------------------------------------------------
(* Calls.                                                                   *)

Running(t) == Last(inside[t])
MayEnter(t) == inside[t] = <<>> \/ (Len(inside[t]) = 1 /\ Running(t).call.makes = "progress")
\* One connection, and one stream of a kind, at a time.
MayMake(kind) ==
  CASE kind = "device" -> refs = 0
    [] kind = "clip"   -> live[kind] < MaxHandles
    [] OTHER           -> live[kind] = 0

\* The first check that refuses ends the call; a call none refuses runs its body.
EnterCall(t) ==
  \E it \in MadeCalls :
    LET family == it.call
        refuses(i) == Rejects(family.checks[i], it.args)
    IN
    /\ made < MaxApiCalls /\ made' = made + 1
    /\ MayEnter(t)
    /\ family.on \in Kinds => live[family.on] > 0
    /\ family.makes \in Kinds => MayMake(family.makes)
    /\ \/ \E i \in DOMAIN family.checks :
            /\ refuses(i) /\ \A j \in 1..(i - 1) : ~refuses(j)
            /\ CallRefused(t, family, family.checks[i])
            /\ UNCHANGED inside
       \/ /\ \A i \in DOMAIN family.checks : ~refuses(i)
          /\ inside' = [inside EXCEPT ![t] = Append(@, it)]
          /\ Unheard
    /\ UNCHANGED <<live, refs, ended>>

\* A new handle: one on the connection owns it, a LOG stream does not.
Owns(kind) == kind \in {"device", "clip", "events", "input"}
Makes(kind) ==
  IF kind \in Kinds
  THEN /\ MayMake(kind)
       /\ live' = [live EXCEPT ![kind] = @ + 1]
       /\ refs' = IF Owns(kind) THEN refs + 1 ELSE refs
       /\ ended' = ended \ {kind}
  ELSE UNCHANGED <<live, refs, ended>>

Leave(t) == inside[t] # <<>> /\ inside' = [inside EXCEPT ![t] = Front(@)]

IsOver(kind) == kind \in ended \/ (kind = "logs" /\ refs = 0)

CallSucceeds(t) ==
  LET family == Running(t).call IN
  /\ Leave(t)
  /\ ~IsOver(family.on)
  /\ Makes(family.makes)
  /\ IF family.returns = "status" THEN clear_error(t) ELSE Unheard
  /\ UNCHANGED made

\* A call of a kind that cannot answer is false, zero or null, and says nothing.
CallFails(t, e) ==
  LET family == Running(t).call IN
  /\ Leave(t)
  /\ IsOver(family.on) => e = "Disconnected"
  /\ IF family.returns = "status" THEN record(t, e) ELSE Unheard
  /\ UNCHANGED <<live, refs, ended, made>>

CallPanics(t) ==
  /\ Leave(t)
  /\ Panicked(t, Running(t).call)
  /\ UNCHANGED <<live, refs, ended, made>>

\* Clones of an event stream share one subscription, which owns the connection once; an input
\* stream and a clip handle have no clone.
CloneHandle(kind) ==
  /\ made < MaxApiCalls /\ made' = made + 1
  /\ live[kind] \in 1..(MaxHandles - 1)
  /\ live' = [live EXCEPT ![kind] = @ + 1]
  /\ refs' = IF kind = "device" THEN refs + 1 ELSE refs
  /\ UNCHANGED <<ended, inside, lastError, returned>>

Releases(kind) == Owns(kind) /\ (kind \in {"device", "clip"} \/ live[kind] = 1)

InUse(kind) == \E t \in ApiThreads : \E i \in DOMAIN inside[t] : inside[t][i].call.on = kind

FreeHandle(kind) ==
  /\ made < MaxApiCalls /\ made' = made + 1
  /\ live[kind] > (IF InUse(kind) THEN 1 ELSE 0)
  /\ live' = [live EXCEPT ![kind] = @ - 1]
  /\ refs' = IF Releases(kind) THEN refs - 1 ELSE refs
  /\ UNCHANGED <<ended, inside, lastError, returned>>

CloseStream(kind) ==
  /\ made < MaxApiCalls /\ made' = made + 1
  /\ live[kind] > 0
  /\ ended' = ended \cup {kind}
  /\ UNCHANGED <<live, refs, inside, lastError, returned>>

-----------------------------------------------------------------------------
ApiInit ==
  /\ live = [kind \in Kinds |-> 0] /\ refs = 0 /\ ended = {}
  /\ inside = [t \in ApiThreads |-> <<>>]
  /\ lastError = [t \in ApiThreads |-> NoError]
  /\ returned = [t \in ApiThreads |-> NotTold]
  /\ made = 0

ApiNext ==
  \/ \E t \in ApiThreads :
       EnterCall(t) \/ CallSucceeds(t) \/ CallPanics(t) \/ \E e \in Errors : CallFails(t, e)
  \/ \E kind \in {"device", "events", "logs"} : CloneHandle(kind)
  \/ \E kind \in Kinds : FreeHandle(kind)
  \/ \E kind \in {"events", "input", "logs"} : CloseStream(kind)

ApiSpec == ApiInit /\ [][ApiNext]_apiVars

-----------------------------------------------------------------------------
\* No body follows a null pointer: the checks before it, in whatever order its family makes them,
\* have refused every call that would (a zero length excuses the data).
NoNullFollowed ==
  \A t \in ApiThreads : \A i \in DOMAIN inside[t] :
    LET family == inside[t][i].call args == inside[t][i].args IN
    args.null \cap (IF args.empty THEN family.always ELSE family.follows) = {}

\* The last error of a thread is that of the last call that told it how it ended: a success leaves
\* none, and the version byte and the update's detail belong to their own errors alone, whatever
\* was stored before and whatever a callback called meanwhile (error.rs:146).
LastErrorIsLast ==
  \A t \in ApiThreads :
    /\ (lastError[t].message = "") <=> (returned[t].status \in {"Ok", "none"})
    /\ lastError[t].proto_ver # 0 => returned[t].status = "ErrBadProtoVer"
    /\ lastError[t].update <=> (returned[t].status = "ErrUpdate")

\* The connection lives exactly as long as a handle that needs it: a device, a clip, an event or an
\* input stream, whichever is freed last (device.rs:125, "Freeing the last clone").
OpenWhileHeld == (refs > 0) <=> \E kind \in Kinds \ {"logs"} : live[kind] > 0

=============================================================================
