# medius in TLA+

`medius` is a Rust library that drives a *box* (a USB proxy made of two chips)
over a serial line. User threads and futures send commands and queries; a reader
thread takes what the box says and finds the box again when the line breaks; a
keepalive thread keeps the box's session alive and puts back what the box has
dropped. These modules model that machinery, and the parts around it, from the
code; TLC checks them on small instances, and TLAPS proves the safety that
matters most for every instance.

Paths below are relative to `src/src/` of the repository unless they start with
`medius-capi/`.

## The system's components

| component | state it keeps | operations | hard because |
|---|---|---|---|
| Query correlation (`link/correlation.rs`) | `pending` map from SEQ to (gen, selector, channel), `seq_counter` (u8), `query_gen` | register, send, deliver, cancel, wait (thread) and wait (future) | answers, timeouts and cancels race; SEQ wraps every 256 frames; every other frame takes SEQs too; a future may be dropped at any time |
| Restart watch and recovery (`link/restart.rs`) | armed, recovering, owed, booted, hellos, session baseline, refused | note a hello, take what is owed, read the session counter, `step` | five queries in a row while the box boots, releases and re-clones and users change what is held; any may go unanswered |
| Keepalive loop (`link/keepalive.rs`) | pending recovery, its backoff, next tick, close-watch window | tick, look at the session counter, re-assert, run a step | runs against users and reader, must never bring back what a user has dropped |
| Held state (`link/reconcile.rs`) | overrides, lock rows and media order, catch table, rewrites, transforms, clip ring, settings and triggers | apply and undo of each; clear; the frames that rebuild it | a failed send must undo exactly; the order of the tables must be the box's |
| Mutators (`device/lock.rs`, `inject.rs`, `rewrite.rs`, `transform.rs`, `options.rs`, `clip.rs`) | none | change the held state and send, under `catch_lock` | order of record and send; partial failure; checks that must agree with the box's |
| Reader, reconnect and transport slot (`link/reader.rs`, `reconnect.rs`, `slot.rs`) | current transport, generation, refused | read and route; find, probe, check identity, swap, send all again | writes race the swap; another box may answer; the held state changes meanwhile |
| Catch subscriptions (`link/catch.rs`, `types/catch.rs`) | subscribers and their filters, the table last sent | subscribe, unsubscribe, sync, reset | union, widening and merging of filters; a table refused or cut off half sent |
| Events and input (`link/catch.rs`, `device/catch.rs`, `device/input.rs`) | a bounded queue per stream, held usages, pending edges | deliver, receive in turn, close, decode snapshots into edges | a queue that drops its oldest in three steps; blocked receives; closes by others |
| Firmware update (`device/update.rs`) | offset, window credit, parked replies | stage in windowed chunks, activate, abort, wait for a confirmed image | replies are matched by op byte; late replies of an abandoned step |
| Clips (`device/clip.rs`, `types/clip.rs`) | the handle's SEQ; recorded ring and triggers | append in frames, clear, bind and unbind packet triggers | several threads on one handle; a table of ranked triggers whose rules are told twice |
| Options, patches and the opt-in (`device/options.rs`, `patch.rs`, `rewrite.rs`, `transform.rs`) | none but the held tables | set an option, store and clear patches, gate rules on the opt-in | the opt-in is asked before the lock is taken; a clone presented again later |
| Frame decoder (`protocol/frame.rs`) | bytes of the frame so far | feed bytes, resynchronise | lost and corrupted bytes, a decoder started in the middle of a frame |
| Windows transport (`transport/serial/windows.rs`) | one overlapped wait | arm, drain, wait, wake, retire, drop | the kernel writes to the wait's memory until it ends, whoever armed it |
| Timeline (`types/clock.rs`) | per-domain epoch, last stamp, lag blocks, offset | place a stamp, observe, reset | wrap, stragglers, stalls, a restarted chip |
| C ABI (`medius-capi/src`) | handles with counted owners, the last error of each thread | every call of the crate | orders of checks, callbacks that call in again, who owns the connection |
| Connect, discover, portable transport | ports | handshake, enumeration | operating-system I/O |
| Commands, responses, opcodes, wrappers, Python bindings | none | encode and decode | nothing concurrent |
| The simulated box (`mock/mod.rs`) | the firmware's tables, session counter, clone, detach grace, patches, updates, triggers | everything the firmware does | it is the other party of every protocol above |

They interact through: the serial line (both ways, ordered, lossy); the `pending`
map (callers, helper threads and the reader); `RestartWatch` (reader and
keepalive); `desired`, guarded for a whole change-and-send by `catch_lock` (users,
keepalive, reconnect); the transport slot with its `write_lock`; and the channels
of events and of update replies (reader to consumers).

## How the modules fit together

| module | what it models | run |
|---|---|---|
| `Correlation` | one query from its registration to its end | `correlation_mixed` |
| `Recovery` | *when* the crate sends its copy again: reader, keepalive loop, recovery step by step, boots and releases | `recovery_*` |
| `HeldLocks`, `HeldTables`, `CatchFilters` + `CatchTable` | *what* it sends: the three kinds of tables in full, crate against box | `tables_*` (`MCTables`) |
| `Feed` | what a stream promises, whatever its queue | |
| `Events` | the stream itself, from the reader to the receivers; implements `Feed` | `events_stream` |
| `Link` | the port in the slot, the reconnects, one key across them, and the end of both threads | `link_reconnect` |
| `Update`, `ClipUpload`, `ClipTriggers`, `Options` | the conversations with the box that share no state with the above | `parts_*` (`MCParts`) |
| `Wire`, `WinRead`, `Timeline`, `CApi` | the edges of the crate: bytes, the Windows port, stamps, C calls | `parts_*` |
| `Retain` | `Vec::retain`, for the proofs that look into it | |
| `*Proofs` | the theorems of the module they are named after; `EventsProofs` also those of `Timeline`, `PartsProofs` those of `Options`, `ClipTriggers`, `WinRead` and `CApi` | |

Several modules look at the same state from two sides, each in the detail its
question needs. `Recovery` keeps every thread, query and critical section of the
protocol and reduces what is held to a set of keys. `HeldLocks`, `HeldTables` and
`CatchTable` keep the copy and the box's tables in full and take a critical
section as one step (`CatchTable` a frame as one step, because a subscription's
frames can fail one by one). `Link` keeps the ports and the moment a frame's
transport is fetched, with one key; the recovery it leaves to the keepalive is
one step there, which `Recovery` opens up. `MCTables` and `MCParts` run modules
that share no variable side by side: an initial state picks the part that moves,
the others stand still, so that the state space is the sum and not the product.

### Correlation (`link/correlation.rs`)

| in the model | in the code |
|---|---|
| `pending`, `Entry` | the `pending` map and `PendingEntry`; `tx` is the channel's owner |
| `turn`, `gen` | `seq_counter` (its byte is `turn % SeqSpace`) and `query_gen` |
| `call[c]` | a caller's locals and its one-slot channel (`reply`) |
| `due` | an async helper thread past its timeout whose `cancel` has not run |
| `line` | queries and answers under way, in order |
| `Register` | `register`: skip SEQ 0 and the awaited, replace an entry after a whole turn |
| `SendRequest`, `SendFails` | `write_frame` after `register_query_with`; the failure gives the SEQ back |
| `Deliver` | `route_frame` and `deliver`: SEQ and selector must match, then the entry goes |
| `TakeAnswer`, `Expire`, `CancelExpired` | `recv_query`, its wait and its `cancel` two steps apart |
| `TimerElapses`, `CancelDue`, `SeeDisconnect`, `DropFuture` | `recv_query_async`, its helper thread and the future's drop |
| `SendCommand` | any fire-and-forget frame: it takes a SEQ too |
| `Lose` | the line or the box drops a query or an answer |

### Recovery (`link/restart.rs`, `link/keepalive.rs`, the box of `mock/mod.rs`)

Three actors. *Users* change `desired` under `catch_lock` (`SetKey`, `UnsetKey`,
`ResetAll`, and for the clip `ClipSend` and `ClipLoaded`: a frame sent and, later,
its effect recorded). The *reader* (`Hear`) takes hellos and answers one at a time
from `heard`. The *keepalive thread* is a program with a counter (`ka.pc`): each
action is one critical section or one query's question or answer, named after the
place in `keepalive_loop` and `restart::step`. The *box* boots, releases,
detaches in two parts (`Detach`, `ComeBack`, `GraceEnds`), brings its clone up,
plays a clip out; its session counter counts a release only after a command.

`Keys` stands for all that needs a clone to be held. `TickKeys` are those a tick
sends again. `fate` is a history of what became of the clip last appended, and
`blurred` of whether a reading of its ring was noted that the code cannot tell to be
wrong (`RingNote`, `NoteRing`, `ResetAll`; the first three findings below).
`MCRecovery` gives the budgets of each of its histories as a record (`Budgets`),
one chosen by the initial state.

### HeldLocks (`link/reconcile.rs`, `device/lock.rs` against `LockTable` of the mock)

`rows` is the crate's `locks` map, with a row at pass for one that is not in it;
`lockBox.rows` and `lockBox.media` are the box's table. `Writes` is `apply_lock` as
the sequence of rows it writes; `Apply` runs them and keeps the undo,
`LockRestored` runs the undo backwards. `Replayed` is a replay: `held_locks` and
`Slots::commands`, each command applied as the box applies it. `Lock`,
`LockFails`, `LocksReset`, `LocksResetFails`, `LocksReleased`, `LockCloneUp`,
`CapsNoted` and `Reapply` are the operations. `declared` is the crate's count of the
buttons (`button_count`), which a `CAPS` answer sets whenever its reader gets to run:
a clone is up, and users lock and unlock, before a recovery or a reconnect has read how
many buttons it has. `synced` is a history of whether the box has taken all the crate
holds, part of it, or keeps what the crate has forgotten.

### HeldTables (`device/rewrite.rs`, `transform.rs`, `options.rs`, packet triggers of `clip.rs`)

Each table is a sequence of `<<key, value>>`, in the crate and on the box.
`Recorded` is what the crate predicts (`apply_rewrite` moves a changed rule to the
end, the other two overwrite in place), `Taken` what the box does with the frame,
refusals included; that a transform's field is on the device
(`mock/mod.rs:1088`) and that an entry fits the byte pools is taken for granted
here. Each operation has its failed form. `RequireImperfect` is the
question `set_rewrite` asks before it takes the lock. `Tick`, `Recover` and
`Reconnect` send the tables; a reconnect takes the triggers from the box instead.
`tableRift` is a history of why the two sides may differ.

### CatchFilters and CatchTable (`types/catch.rs`, `link/catch.rs`, `device/catch.rs`)

`CatchFilters` is the pure half: `Collapse`, `Covers`, `Widened`, `Siblings` and
`Effective` are `collapse`, `covers`, the widening loop of `effective` and
`collapse_opposite_siblings`; `Matches`, `Outranks` and `Resolved` are what an
event resolves to on the box. `CatchTable` has the registry (`subs`), the table last computed
(`desired`), the box's (`catchBox`), and one *job*: what the holder of `catch_lock`
still has to send, removals first, then a clear, then entries, as `catch_sync`
orders them. `SendOff`, `SendClear` and `SendOn` are its frames; a write may fail at
any of them (`SubscribeFails` takes the subscription back and narrows the box,
`NarrowFails` gives up, `ResendFails` goes on), and the box may be released between
any two (`CatchReleased`). `Resend` is a tick or a replay: adds only.

### Feed and Events (`link/catch.rs`, `device/catch.rs`, `device/input.rs`)

`Feed` is the promise: numbered events come out in order, once each; one that is
skipped was counted, and something is skipped only when a whole queue waits.
`Events` is the code: `Report` (the first `try_send`), `Evict`, `SendAgain` and
`CountDrop` are the three further steps of `deliver_event` on a full channel, with
receivers free to run between them. `Begin`, `TakeTurn`, `CheckClosed`, `Pop`,
`Take`, `WaitEnds` and `Pump` are one receive under the stream's turn lock, in
its three forms (`recv`, `recv_timeout`, `try_recv`). `Close`, `Detach` and
`CloseReturns` are a close, `ResetEnds` a device's reset. `Decode` is
`Decoded::pump`: releases before presses, repeated usages once, usages nobody asked
for left out; a motion that moved no axis becomes nothing, and the receive waits on.

### Link (`link/slot.rs`, `reader.rs`, `reconnect.rs`, `device/inject.rs`)

The reader (`ReaderTop`, `ReadHello`, `ReadReply`, `ReadNothing`, `ReadError`) reads
the port it fetched from the slot and falls into `auto_reconnect` when that fails.
`reconnect` is run by it or by a user (`UserReconnects`): `Scan` swaps the slot to
`Disconnected`, sleeps until the reader is off the old port, lists ports by serial
number; `Open`, `ProbeAnswered`, `ProbeUnanswered` and `Overheard` are a candidate's
open and probes, a hello going past among them, and compare version and identity;
`CapsProbed` asks for the button count before any lock is taken; `Adopt` takes
`catch_lock`, asks for the clip of a box that did not boot, swaps the port in and owes
a recovery or starts a `Replay`; `NoneLeft` is the error. A press or release records under `catch_lock`
and then writes to the port it fetched (`CallBegins`, `CallSends`). The box is
unplugged, plugged, booted, reflashed to another protocol or silent; a neighbour
of the same make may answer on other ports.

### The conversations

- *Update*: `session` is the box's two `MockUpdate`s (`Begin`, `Data`, `End` as
  `SessionOp`), `call` a caller in `stage_firmware`, `activate_firmware` or
  `update_firmware`; `Enter`, `Drain`, `Send`, `TakeHeld`, `TakeUpdate`, `Hold` and `OnAck`
  are `update_op`, `recv_update`, `hold_update` and `ChunkPlan`. `LoseFrame` and `GiveUp`
  make the late replies; `Ask`, `Told` and `Unanswered` are
  `wait_firmware_confirmed`.
- *ClipUpload*: `encode_chunks` cuts a builder's entries at entry boundaries by
  `byte_len`; `encode_frame` is `Encoded`. A thread takes the re-assert guard, then
  for each piece takes a SEQ, writes, records. The box reads the ring as tags and
  lengths and notices a gap in the SEQs.
- *ClipTriggers*: `validate_packet_trigger` is the crate's check of a bind,
  `BadTrigger`, `NoRoom` and `Set` are `PacketTriggers::set`, `Packet` is `PacketTriggers::packet` with
  `pkt_match_score`'s rank and each trigger's run.
- *Options*: what is in flash, the patch store and what is presented; the opt-in
  and the tables it gates; a rule's and a transform's checks told twice, once by
  the crate (`rewrite_admissible`, `TransformOp::admits`) and once by the box;
  boots, a detach's grace, presentations deferred by it.

### The edges

- *Wire*: `encode` and the eight states of `FrameDecoder`, over a line that loses
  and changes bytes, and a decoder replaced in the middle of a frame.
- *WinRead*: one overlapped `WaitCommEvent`: `Arm`, `DrainRx`, `Look`, `WaitEnds`,
  `Wake`, `Retire`, `release_read`, `Drop`, against a driver that may remember, lose
  or stick.
- *Timeline*: `box_us_of` places a stamp, `observe_stamp` takes the lag, its floor over two
  blocks and the smoothing. A chip ticks, wraps and reboots; it may tap nothing for
  longer than its counter's range, and events may be as late. `placed.strayed` notes,
  beside the state, that an event was half a range from the newest one seen (`Strays`).
- *CApi*: a family of calls is the list of checks it makes, in its order, and the
  pointers its body follows. Bodies succeed, fail, panic or call back; handles are
  counted, and the connection they own with them. An error of a wrong protocol carries
  the version byte it got, 0 among them (`Got`). The calls of the simulated box
  (`medius-capi/src/mock.rs`) are families too: they check their pointers, tell no
  thread of a refusal and hold no connection; a device opened over one does.

## Runs

| run | result | what it shows |
|---|---|---|
| `correlation_mixed` | pass | a thread and a future, a SEQ of three values wrapping twice: no stale answer short of a whole wrap, no cancel of another's entry, no leak from a thread, every query ends |
| `recovery_restored` | pass | four histories (a key through a boot, a release or detach, a reset and a silent query; a lock and a rule through two boots; a clip through a boot and a release or detach; a clip through two of these, a reset and a silent query): nothing is lost unnoticed, nothing dropped comes back, a lost clip is reported and a kept one never, unless `blurred`, and in the end what is held is on the box |
| `recovery_cliptick` | `ClipLossReported` violated | a tick between a release and its recovery hides the loss |
| `tables_instep` | pass | locks, ordered tables and catch tables, each by itself, with failed frames, resets and releases: sent in full the crate's copy is the box's table, a failed call leaves no trace, each stream is served as if it were alone, what the box lost comes back |
| `tables_edges` | `CopyIsTable` violated | locking one edge of all buttons loses the other edge of a single lock from the copy |
| `tables_order` | `OrderKept` violated | a rule set between a release and its recovery changes the order for good |
| `tables_optin` | `InStep` violated | a failed opt-out reorders the packet triggers |
| `events_stream` | pass | two receivers, two closers, a reader whose channel overflows: the stream is a `Feed`, edges alternate, nothing stays pressed, a close lets nothing through and ends every receive |
| `link_reconnect` | pass | two unplugs, boots, reflashes or users' reconnects beside a foreign box, a press and a release anywhere: no other box is adopted, nothing held is lost or brought back unnoticed, the link heals, both threads end |
| `parts_all` | pass | eight parts, each by itself: what is reported staged is staged; no image stays armed; no box is asked to begin on probation; a clip is read as it was appended; a run of packets acts once and the most specific trigger acts; what needs the opt-in does not outlive it; the box refuses nothing the crate let through; no false frame, bounded loss; no wait outlives its memory and no reader sleeps through a byte; stamps are placed to the range always, and exactly until one strays; no C call follows a null, and the last error is the last call's |
| `parts_forgotten` | `HeldIsRecorded` violated | the crate forgets a trigger the box still holds |
| `parts_blanket` | `RemoveDropsOne` violated | removing a rule whose address is all wildcards empties the table |

Deadlock is not checked where bounds on calls or counters, or the end of the last
handle, stop the system; `recovery_restored` and `events_stream` check it.

### What the properties say

- *Correlation.* `StaleAnswerNeedsWrap`: an answer reaches a caller that did not
  ask it only if the SEQ went round once in between. `WaiterKeepsEntry`: as long as
  a caller waits, its entry is there, whoever cancels what. `NoOrphanEntry`: an
  entry has a caller that waits for it, a cancel that is due, or a future that was
  dropped.
- *Recovery.* `NoSilentLoss`: in a quiet state (nothing owed, pending or on the
  line) the box holds all the crate does. `NoGhostState`: the box holds nothing the
  user dropped. `ClipReportIsTrue`: `lost()` comes true of a dropped
  clip and never of a kept one, through boots, resets, unanswered queries and ticks
  alike, unless one of three readings came in between (`blurred`): a tick that empties
  the record of the ring while a recovery is owed or pending, a recovery whose
  `QUERY(CLIP)` got no answer, a reading that a reset crossed. The next append or clear
  that no reading crosses ends the exception.
- *Tables.* `CopyIsTable`: replaying the copy on an empty box gives the box's lock
  table, or the box is owed a replay. `InStep`: entry by entry and in order.
  `CatchInStep`: between calls the crate's table is the union of what is subscribed,
  and the box's is it, unless it was released, a removal failed, or a subscription
  failed after the table was cleared for it (then, and after a release, it holds no
  more than the union until the next tick); the box has room for every entry it is
  sent, unless a removal failed or the union itself outgrew it. `EachServed`: whatever the other streams
  ask for, each event a stream asked for is taken with as many bytes. `UndoIsExact`
  and `RollbackIsExact`: a call whose frame failed leaves the copy as it was.
- *Events.* `Refines`: `Feed!Spec`. `EdgesAlternate`: press and release alternate for
  each usage, decoded and undecoded taken together. `NothingStuck`: after it received
  everything, a consumer believes pressed what the last snapshot listed.
  `NothingAfterClose`: a receive begun after a close returned gets nothing.
- *Link.* `OnlyOurBox`; `GhostIsReported`: a key the box holds and the crate does not
  is due to a release that returned an error; `LossIsOwed`: a key the crate holds and
  a box in use does not is about to be sent by somebody.
- *Parts.* Each is stated above its definition, with the line it is about.

### Findings

The six violations above are entries of `PROJECT.json` "findings", each with the
line it contradicts. Narrower ones, seen while modelling, have no run here.

Recovery and held state:

- A recovery whose `QUERY(CLIP)` gets no answer settles all the same
  (`link/restart.rs:303`), and the next tick takes the emptied ring for a clip
  played out, so `lost()` stays false (`NoteRing` of a ring `"unread"` sets
  `blurred`).
- The same of a tick that looks at the ring when a hello has come since the top of its
  round (`link/keepalive.rs:44`): the recovery is owed and not begun, the hello is not
  newer than the reading, and the emptied ring is noted (`EmptiedEarly`, for this and
  for the tick of `recovery_cliptick`).
- `DesiredState::clear` puts `ring_gen` back to 0 with the rest of `ClipHeld`
  (`link/reconcile.rs:632`), so a reading taken before a reset is trusted after the
  append that follows it; the comment at `link/reconcile.rs:191` says it is not
  (`ResetAll` within `ReadingRing`).
- The check after a re-send takes a clone that came up again within the few
  milliseconds of a step for the one that was there (`link/restart.rs:293`;
  `Recovery` with `SlowClone = FALSE`).
- A boot that lands in a release's recovery is counted as two restarts
  (`link/restart.rs:307`; `tests/restart.rs:106` counts each boot once).
- A lock set while no clone is up and no release is pending is dropped by the box
  (`mock/mod.rs:2508`), and nothing sends it when the first clone comes up
  (`Recovery` with `BlindSets = TRUE`).
- A registration replaces a live entry when every SEQ is awaited
  (`link/correlation.rs:27` calls the SEQ "free").

Streams:

- A subscription whose frame fails after its wildcard's clear was written is taken
  back by a second `catch_sync` (`link/catch.rs:272`) of which only the difference is
  sent. When that has no clear of its own, the entries both unions hold, which the
  first clear removed, are not sent again before the next tick. The comment above it
  says the box is narrowed "back to `prev`" (`ClearedForGood`, "owed").
- When a stream leaves, a pair its wildcard direction had merged may come apart, so
  the union grows, and neither `catch_unsubscribe` nor `detach_sub` counts it against
  `CATCH_MAX_ENTRIES`: the box drops what does not fit, though the check of
  `catch_subscribe` (`link/catch.rs:255`) is there so that it never does ("over").
- A flood of motion events can push the last usage snapshot out of a full queue;
  what it listed then stays unknown until the next one (`NothingStuck` says so).
- An event of a bus class and direction "both" may be cut by a narrower entry.
- There is a momentary gap when two sibling entries merge or part, or a wildcard is
  removed and the table cleared and sent again.
- `dropped` may count one too many when a receiver empties the queue between the
  reader's two sends.
- A second `close()` returns while the first still waits for `catch_lock`.
- A blocked `recv` does not end when the box is unplugged, since the reader retries
  for ever, though `recv`'s doc says it ends.

Link:

- The reader reads `generation()` before `current()`, so a swap between them feeds
  the new port's first bytes to the old decoder.
- A boot's last hello that goes past in a probe, a clear or an unplug, with a
  session counter that restarts at the value it had, leaves what is held unsent
  (`swallowed` in `Link`).
- A release whose write fails in a short outage is forgotten, while the box may keep
  the key; the caller was told of the error.
- A user's reconnect that gives up leaves the link on no port until another call:
  the reader is content with `Disconnected`.
- `open_by_id` and `find_where` open the path an earlier scan picked without asking
  who answers (`device/discover.rs:106`), and `open`'s scan for the serial number
  after the handshake may see another adapter.

Updates and clips:

- A stage that fails midway leaves the box's session active, so the next is told
  BUSY until an abort; a stage whose END reply is late returns an error while the
  image stays armed.
- With two callers even an Ok may be another chip's: replies are matched by
  operation only (`device/update.rs:276`; `OkMeansStaged` fails with two `Callers`).
- Two `ClipHandle`s from two `Device::clip()` calls each count from 0 and show the box
  gaps that are none; an append before a clone is up is dropped by the box though
  it is recorded as loaded.

Elsewhere:

- After a silence of more than half a range (36 minutes) `Timeline` takes the next
  event for a late one, and after a whole range it does not count the roll-over:
  `clock.rs:252` promises exactness without saying so. `BoxExact` says what is left:
  from such an event on, places are off by whole ranges and nothing else.
- A single button written under a held blanket when the crate's count of buttons is an
  older device's (the clone is up, its `CAPS` not yet noted, `restart.rs:267-273`,
  `reconnect.rs:204-206`, where `probe_caps` may also get no answer) expands the blanket
  to that count only. The others stay locked on the box and are in no row of the crate:
  no re-send clears them, against "leaves the rest of the group held"
  (`link/reconcile.rs:442`). A re-send by such a count leaves them unlocked instead,
  while the copy says they are locked.
- A frame with a start byte in its payload can extend what is lost after a fault.
- `Transforms::table_full`'s doc says "or would be refused"; the mock sets it after a
  refusal only.
- "Freeing the last clone joins the background threads" (`medius-capi/src/device.rs:125`)
  is untrue while a stream's or clip's handle lives. An over-long `payload_len` or
  `len` in `MediusRewriteRule` and `MediusPatch` is cut without an error, and
  `set_autolock` with a null scope and a length that is not zero means "none" where
  other calls refuse.

## Bounds, and why they are enough

- *Correlation*: `SeqSpace = 3` makes SEQs collide, wrap and run out with two
  callers, where 256 would only make the same things rare; `MaxTurn = 8` wraps
  the counter twice, so an answer can be one whole turn old; `MaxGen = 3` lets
  one caller ask again while its first answer and its first cancel are under way.
  The theorems lift all of it.
- *Recovery*: each history bounds boots, releases, changes and unanswered queries
  by what its question needs: one boot and one release with a key on and off again
  is every pair of events that can overlap one recovery; two boots are what a
  doubled hello must be told from; two releases what a stale ring reading must
  cross. The hello's SEQ cannot wrap here (correlation is the other module's).
- *Locks*: one button declared of two is a device that gets wider; a blanket, one
  inside it and one beside it; two media slots and two usages have an order, and
  fill up; scales 0 and 100 are what the box tells apart on anything but an axis,
  whose scale is only copied. Three calls reach a blanket, its burst and one more lock,
  or an undo; one of them may fail, and the box may be released twice, with the narrow
  and the wide device in either order, and any count noted at any time.
- *Ordered tables*: two places and three keys fill a table, and of three triggers the
  box refuses one; two values overwrite; three calls, one failed, and two releases
  fill a table, outgrow it while it is owed, and change its order.
- *Catch*: the subscriptions offered contain every pair of addresses that shadow,
  tie, merge or overflow a table of three; three streams are two that disagree and
  one beside them, and among what they ask for is a pair whose merging another's
  leaving undoes; three calls, one failed write, one release. The theorem lifts all of
  it.
- *Events*: `Capacity = 1` makes every second report overflow; three reports are an
  eviction, one more and a snapshot that corrects; two usages one of which is listed
  twice, and one nobody asked for; two receivers, two closers.
- *Link*: two events of any kind are a boot during a reconnect or a reconnect
  during a reconnect; two calls are a press and the release that must not come back.
- *Update*: images of three chunks and a window of two make the window fill and
  slide; three calls, two of them given up, one lost frame, two chips.
- *Clips*: a payload of 25 bytes makes entries that fit, fill it and exceed it; three
  calls by two threads. *Triggers*: every key and run that the rules tell apart, alone,
  then those that meet in one stream; a table of three; six packets are two runs and
  a break.
- *Options*: limits of one or two entries, so that each table fills (rules and
  transforms are sets, since their order, which `HeldTables` has, decides nothing here); four calls, one
  restart and detach.
- *Wire*: bytes 0 to 3 with the start byte among them, payloads of up to two bytes
  and a limit of six, five frames, two faults: a fault in a length swallows at most
  the bound. *WinRead*: two readers, three bytes, two wakes: an operation armed by
  one thread, retired by the other, ended by either. *Timeline*: a counter of four
  that starts at 0, 3 and 6 (ahead of its second wrap), with five ticks: a silence may
  be half a range or more than a whole one. *CApi*: three
  calls of two threads, callbacks included; the families are all there.

## Assumptions

- The line keeps order and delivers whole frames or none, except in `Wire`, which
  is about what that costs; a lost frame is a query that gets no answer. In the
  table modules no mutator's frame is lost on the way: a write either fails, and is
  undone, or arrives.
- `SlowClone`: a clone takes longer to come up (100 ms or more after a boot or a
  return) than a recovery step takes from its re-send to the CAPS that checks it.
- `BlindSets = FALSE`: users set keys only while a clone is up or a re-send is to
  come.
- Of a boot's two hellos at most the first is lost.
- The clock is abstract: a tick, a slice of the close watch, a recovery step's
  backoff and a timeout may come whenever their thread is there. The one exception
  is `Link!ReaderIsOff`: the 200 ms a reconnect sleeps outlast a read of 100 ms.
- What a call expands, or a re-send sends, by a stale count of buttons (`Short`) is
  reached in `HeldLocks`, and `CopyIsTable` asks nothing of the copy from there on, until
  the box is released or sent all of it (see the findings).
- In `HeldLocks` the media usages on the box are compared as a set: after an
  unlock the box fills the freed slot and the crate appends, so the orders may
  differ until the next replay from an empty table.
- A `RESET` whose write fails is not undone: the modules have it as an action of its
  own and promise nothing of its table until the box is released.
- The run and the proofs of `Update` have one caller (with two, see the
  findings); `Wire` takes a checksum to be collision-free.
- Memory is sequentially consistent; the atomics the code uses are.

## Fairness

`Correlation`: a caller that can go on does (weak fairness of its sends, takes and
cancels), and every wait has a timeout, so `Expire` and `TimerElapses` happen at
last: `recv_timeout` and the helper's `recv_timeout`. Nothing is assumed of the box
or of the line; the liveness holds against a box that answers nothing.

`Recovery`: weak fairness of the reader, of the keepalive's steps, of a clone
coming up and of a grace ending. Strong fairness of a due recovery step starting
and of a tick being due: the loop takes a recovery step when `now >= p.next` and a
tick when `now >= tick_at`, both fixed instants that pass while the loop goes
round, so each is enabled again and again until taken. Queries that stay
unanswered are bounded by the history; without that nothing could be restored.

`CatchTable`: the holder of `catch_lock` goes on, and the keepalive re-sends.

`Events`: weak fairness of every step of a thread, and strong fairness of taking the
turn: the lock is `parking_lot`'s, which is eventually fair, so a receiver that waits for
it gets it at last. Nothing is assumed of the events that arrive.

`Link`: every thread keeps running, a chip that boots comes up, and a hello that
stays on the line is read. `Heals` speaks only of a box that stays from some point
on, and not of a link a user's reconnect left without a port.

## Proofs

TLAPS checks, for every value of the constants that their assumptions admit:

| module | theorem | statement |
|---|---|---|
| `CorrelationProofs` | `TypeCorrect`, `Invariant` | `Spec => []TypeOK`, `Spec => []IInv` |
| | `StaleAnswerCorrect` | `Spec => []StaleAnswerNeedsWrap` |
| | `WaiterCorrect` | `Spec => []WaiterKeepsEntry` |
| | `HelloSeqCorrect` | `Spec => []NoQueryUnderHelloSeq` |
| | `NoOrphanCorrect` | `Spec => []NoOrphanEntry` |
| `RecoveryProofs` | `TypeCorrect` | `Spec => []TypeOK` |
| | `NoGhostCorrect` | `Spec => []NoGhostState` |
| | `NoSilentLossCorrect` | `~BlindSets /\ SlowClone` give `Spec => []NoSilentLoss` |
| | `ClipReportCorrect` | `~BlindSets` gives `Spec => []ClipReportIsTrue` |
| `LinkProofs` | `TypeCorrect` | `Spec => []TypeOK` |
| | `OwnBoxCorrect` | `Spec => []OnlyOurBox` |
| | `GhostCorrect` | `Spec => []GhostIsReported` |
| | `LossCorrect` | `Spec => []LossIsOwed` |
| `EventsProofs` | `TypeCorrect` | `Spec => []TypeOK` |
| | `FeedCorrect` | `Spec => Refines`: the stream implements `Feed` |
| | `NothingAfterCloseCorrect` | `Spec => NothingAfterClose` |
| | `EdgesAlternateCorrect` | `Spec => []EdgesAlternate` |
| | `NothingStuckCorrect` | `Spec => []NothingStuck` |
| | `PlacedTrulyCorrect` | `TimelineSpec => []PlacedTruly` |
| `TablesProofs` | `TypeCorrect`, `Invariance` | `CatchSpec => []CatchTypeOK`, `CatchSpec => []CatchInv` |
| | `CatchInStepCorrect` | `CatchSpec => []CatchInStep` |
| | `EachServedCorrect` | `CatchSpec => []EachServed` |
| | `UndoExact` | `LocksSpec => UndoIsExact` |
| | `CopyCorrect` | `MediaFits /\ ~EdgeBlankets` give `LocksSpec => []CopyIsTable` |
| | `InStepCorrect`, `RollbackCorrect` | `Uniform` gives `TablesSpec => []InStep` and `TablesSpec => RollbackIsExact` |
| `UpdateProofs` | `StagedTruly`, `RefusalDisarms`, `BeginsOnUp` | with `Callers = {c}`: `UpdateSpec => []OkMeansStaged`, `[]Disarmed`, `[]BeginsConfirmed` |
| `PartsProofs` | `OpAliveCorrect`, `WokenCorrect` | `WinSpec => []OpAlive`, `WinSpec => []NothingSleptThrough` |
| | `GatedCorrect` | `OptionsSpec => []GatedNeedOptIn` |
| | `NothingRefused` | `Spec => []NoSilentRefusal`, `Spec` of `MCParts` |
| | `EntriesReadAsAppended` | `UploadSpec => []ReadAsAppended` |
| | `RunsActOnce`, `BestActs` | `TriggersSpec => []OncePerRun`, `TriggersSpec => []MostSpecificActs` |
| | `NoNullCorrect`, `LastErrorCorrect`, `OpenCorrect` | `ApiSpec => []NoNullFollowed`, `[]LastErrorIsLast`, `[]OpenWhileHeld` |
| `WireProofs` | `FramesCorrect`, `LossCorrect` | `WireSpec => []NoFalseFrame`, `WireSpec => []LossIsBounded` |

The assumptions are those of each module (`ASSUME`, by name), about constants
only: at least two SEQs, distinct sentinels, bounds that are numbers, a channel
that holds at least one event, images that have a length and a chip to update,
transforms and triggers of the shape their types give them, packets that cross one
way, matches whose bits leave the id's rank its place in a score, a longest gap that
an entry has bytes for, clips made of entries, and sentinels (`Nobody`, the `None` of a
guard) that are no receiver and no thread.

*Correlation.* `StaleAnswerNeedsWrap` speaks of an answer already given; whether the
next one may be given depends on what is still on the line. `IInv` therefore
follows a registration through all the places it leaves a mark in: its caller, its
entry, its frame. Each of them was made under `turn % SeqSpace` (`EntriesFit`,
`CallsFit`, `LineFits`), none is ahead of the counter or of the query generation
(`LineNotAhead`, `CallsNotAhead`), an entry is its caller's (`EntryIsCallers`), two
callers never share a generation (`CallsDiffer`), a cancel that is due belongs to a
future whose timer has elapsed (`DueIsElapsed`), and an answered registration has
left the map (`AnsweredLeft`). An answer that matches an entry of another generation
has the same SEQ and is older; two counter values with the same remainder that
differ are at least `SeqSpace` apart (lemma `WholeTurn`), which is the property.

*Recovery.* That the box holds only what is desired is not inductive: a re-send half
way writes what the crate wanted when it took its copy. `OnlyTheDesired` adds that
whoever sends again holds the lock, and that what it has still to send is desired
until it lets go, since a user who drops a key waits for the lock; and that without
a clone the box holds nothing.

`NoSilentLoss` speaks of quiet states only; `LossInv` says what holds in between.
Nothing the box drops is dropped unmarked (`HeldIsMarked`: what a command set, the next
release counts), so a loss is a hello to come or a counter above its baseline. No hello
is overlooked: the watch is armed or in a recovery already, and a recovery stays owed or
pending until the keepalive ends it (`Watched`). A reading is the answer to the query
asked (`OneAnswer`) and never ahead of the counter (`BeforeHolds`). At each step of a
recovery what was sent again so far is held, or something came since that the end of the
recovery will see (`Resent`, `Disturbed`), or there is no clone and its second check will
not find one. And with no recovery due, a counter at its baseline means that nothing
is missing (`Restored`), which is the property. The hypotheses are the ones whose
failure is a finding above: a clone that comes back between the re-send and its check
(`SlowClone = FALSE`), and a key set with no clone and no re-send to come
(`BlindSets = TRUE`), are lost unnoticed.

`ClipReportIsTrue` needs what each reading of the ring is worth on its way from the box
to the record. What the box's ring holds is marked and is the caller's (`RingKept`). A
reading counts only if no append or clear was recorded since (`Current`), and then says
what the ring holds, unless the clip was played or dropped (`ReadingTrue`); the record
of a clip neither played nor dropped is right (`KeptIsRecorded`). A clip dropped and not
reported has left a sign: a counter above its baseline, a hello to come, or a recovery
owed or pending; and it is still on record to be reported (`LossPending`). Past its
re-send a recovery has a reading that finds the clip gone, or something came since that
its end will see, a hello or a counter past `before` (`LossFound`). A tick that finds it
gone finds a hello or the counter moved too and leaves it to the recovery, or a recovery
is due already (`LossLeft`). `RingKept`, `TickReads` and `LossInv` hold throughout, the
others while nothing is `blurred`; histories are not limited otherwise: boots, releases,
detaches, resets, unanswered queries and ticks come as they like. The three moments that
set `blurred` are the findings above, each a loss the code cannot report or a report it
cannot know to be false; the one hypothesis left, `~BlindSets`, is that of
`NoSilentLossCorrect`.

*Link.* `OursInv` follows the foreign port through a reconnect: it may be open and
probed, but is adopted only past the comparison of identities. `GhostInv` says who
may write the key: a replay (`ReplayIsLocked`) or a call (`CallIsLocked`) that holds
`catch_lock` and whose frame agrees with `held`; and that a chip which is not up
holds none (`HoldsWhenUp`). `LossIsOwed` needs more of the past. `PathInv` says where
the ports come from: who reconnects has the turn and, until it adopts, the slot is
empty (`HasTurn`), a reader whose reconnect is under way does nothing else
(`ReaderIsAuto`), and no port is of a plugging in that is still to come, so a pull is
for good (`NoneAhead`). Then a call writes to the port in use or to none
(`CallersPort`); a watch that does not heed a hello has its recovery before it
(`RecoveryIsOwed`); and a chip that takes no key yet has a hello that is still to be
heeded: on the line, in the reader's hands, with the reconnect that probed it, or a
recovery that came of it (`BareIsOwed`). The last of these is why a frame that goes to
such a chip and is dropped is still made good.

*Events.* `Ordered` and `Counted` are the arithmetic of the queue: the numbers in it
go up, past the last one taken and as far as the last one sent, and what was lost
is what is counted or, while the reader is between its steps, about to be. Each
action of `Events` is then an `Offer`, a `Take` or a stutter of `Feed`. The close is a
separate invariant (`LateStop`) of the flag and of receives begun since.

What a consumer is told is followed from the decoder outwards. The decoder's diff of
two lists of held usages gives each usage at most one edge, and the edges still to be
handed out lead from the set the consumer knows to the set decoded last (`Leads`, along
a `Path` of sets); from this the edges of one usage alternate, and none is left over
when the pending ones are used up. `NothingStuck` needs to know where the last snapshot
of the box is: in the queue, in the hands of the receive that took it, or decoded
(`Latest`, in `SnapInv`), unless the queue dropped it, and then what came behind it
says so.

*Catch table.* First the operators: the union of clean filters (`Clean`: what the
checks of a subscription let through) is again clean and has one entry for each
address (`UnionIsTable`, from `WidestOfAll` through `Collapse`, `Widened` and
`Siblings`). Then what one change's frames do to a table, as sets (`SyncLeads`,
`RemovedLeads`, `AddedLeads`). `CatchInStep` is about quiet moments; `CatchInv` says
what holds between two frames. What the box will hold once the rest is written is the
union (`Ahead`); a subscription under way can be taken back, because the box holds
nothing neither union has, and all that both have unless the clear took it
(`WayBack`); a re-send meets a table it can only complete (`Again`); and, unless a
removal was lost, no entry of the box is outside the union and the removals to come
(`NoneOdd`). The last gives the room: entries of the box map one to one to entries of
the union with the same address, so a union that fits the box fits it at every frame
(`RoomForUnion`). The assumptions are that classes and ids are finite sets and that
there is a stream.

`EachServed` is about how filters overlap. Every filter has an entry at its place in
the union, no narrower than it (`UnionHas`, through `CollapseServes`, `WidenedServes`
and `SiblingsServe`), and an entry that cuts a packet in its stead was either widened
for it, because it names the packet better, or is the entry at its own place
(`CutsWide`, which needs the entry of the filter's place in the same table). While
frames are still to be sent, the box mixes entries of two unions; every one of them is
of a union the filter was of: the new one, or the one without the newcomer (`WayBack`),
or one that asked for at least all that is asked for now (`Traced`).

*WinRead.* `OneWait` ties the wait the kernel has still to end to the thread that
owns it and to memory that is not freed; `Armed` says that a reader past its arming
has a wait that what comes after will end.

*Update.* One thread updates (with two the property is false, see the findings); late
replies, lost frames and waits given up are all there. The argument turns on the query
a stage asks first: the box answers in order, so an answer to the query that is awaited
finds both wires empty (`FreshQuery`, by the number of the query), and from then on
only this call sends. Hence no BEGIN meets a box that boots (`Quiet`, `BeginFirst`,
which also follows the ACTIVATE behind it), and what is on the wires is this call's or
replies to it (`Own`). A parked reply of the same operation is dropped before the frame
goes out (`Drained`), so the reply that is taken came of that frame (`LastFrame`) and
tells what the session is still like (`Telling`); and a call that is over has left
nothing on the wire that would change it (`Ended`). What `drop_held` leaves is a
`Retain`; that it keeps order and members is by the least place where it would not
(`RetainUpTo`, with `WFMin`).

*Locks.* `LockInv` has what the crate's rows look like, one row per target or a
blanket over all buttons (`OneBlanket`), and what the box's table is beside them: a box
without a clone holds nothing (`Down`), and the copy, read for the buttons the device
has (`RowIn`), is equal when the box has taken all of it and a part when it is behind
(`CopyIn`). Nothing is assumed of the crate's own count: a call that expands a blanket to
too few buttons leaves the box orphaned, and a re-send to too few writes nothing wrong
(`RowReplayed`). A command brings one row back (`CommandsBring`), whatever came
before it in the replay. A media usage has one slot, and there is a slot left for one
more by counting (`SlotLeft`). That a failed call leaves no trace follows the undo
newest first: the first write to a row is the last to be taken back
(`UndoneExactly`). Both hypotheses of `CopyCorrect` are needed: with a blanket over one
edge the property is false (`tables_edges`), and a media usage beyond the box's eight
slots (`mock/mod.rs:466`) is dropped by the box and held by the crate, which counts
none; `UndoExact` needs neither.

*Ordered tables.* `InStep` alone is not inductive: that what the box holds is in the
crate's order does not say where the rest will go. `TablesInv` says that what the box
holds is what the crate's table *begins* with (`Prefix`, in `Follows`) as long as
nothing was set out of turn; that a kind whose frames are refused whatever they say
(`Shut`: no opt-in, no clone) has an empty table on the box, and that entries the crate
holds of it have been refused and are on record as such. The frames of a re-send then
find each entry either at its place or next to be appended, up to the limit (`SentIs`),
and the entries of a cleared table, recorded again, are the table (`RerecordedIs`),
both by the least entry where it would not be so. A call that failed is undone
because the table without the entry's key is the same before and after it was recorded
(`WithoutRecorded`), and the entry goes in at the place it had (`InsertedBack`).
`Uniform` (all packet triggers consume, or none) is what the finding of `tables_optin`
violates: a failed opt-out re-binds the triggers that consume behind the others.

*Options.* `GatedNeedOptIn` is inductive with the type of the opt-in alone.
`NoSilentRefusal` has two halves: the crate's `validate_rule` implies the box's
`Rewritable` and `Admissible` class by class and action by action (`ValidIsTaken`), and
`admits` its `PairOk` (`AdmittedIsOk`); and a rule that waits for its frame is one that
was checked (`OfferedInv`), whatever comes in between. For the packet triggers
`validate_packet_trigger` rules out every `BadTrigger` (`ValidIsGood`).

*Triggers.* `RunsInv`: a run's trigger is over one stream and its selector is shorter
than its match; a run that has acted is still on; two rows of one key are one trigger. A
packet that lets a run act meets it, hence is within its selector and leaves it on; one
that turns it off does not meet it and takes it from those that acted. For the most
specific of the matching triggers, a mask's bits are fewer than the place of an exact id
in a score (`BitsFit`, since what is bound passed the checks of its key, `Held1`), so the
id, the bits and the direction rank in that order and never run into each other
(`RanksApart`).

*Clip upload.* The box reads entries out of the bytes of its frames, so two counts have
to agree: what `byte_len` says of an entry is the length it is encoded in
(`EncodedLength`), so no chunk is longer than a frame and each begins with a whole entry
(`ChunksFit`, from the least beginning of a clip where it would not be so). Then
`UploadInv`: past the guard there is one thread (`OneSends`), and as
long as no write has failed the SEQ the box expects is that of the frame the thread is
about to send, or else the next one the crate would give (`SeqsFollow`): no frame is
taken for one after a gap.

*CApi.* Every family's list of checks is gone through by name (`DeviceChecked`,
`StreamChecked`, `ClipChecked`, `MockChecked`): for each pointer its body follows some check refuses
its null (`CheckedIsSafe`). `ToldType` is what a thread's last error may be, and
`OwnersCounted` that the connection's count is the number of handles that own it.

*Timeline.* Nothing is assumed of the chip or the line. The epoch is whole ranges
whatever comes (`WholeTurns`), so a place is off by whole ranges only: a forward step
adds none or one, a backward step goes back from the state by less than one
(`UnwrapsWhole`). Until an event strays the state is that of the newest tap seen
(`Tracks`), and of an event that does not stray the shorter way round the counter is the
true one (`Unwraps`). The turns that a boot's first event had behind it are counted once
for all (`Turns`). The two lags kept
are the least of this block's and of the last's (`Blocks`), hence together the least of
between one and two blocks of the newest samples.

*Wire.* First the decoder, byte by byte (`FeedIs`, `FeedFields`): how many bytes it
has of what it takes for a frame (`Taken`), and how many it may still swallow
(`Appetite`, at most a payload and a CRC). A decoder is in step with the frame on the
line (`Synced`), has read something else (`Differs`, which lasts until it gives up,
`DiffersKeeps`, and is never handed on, `DiffersEnds`), or is so and so many bytes off. For the loss,
`CountOn` and `CountOff` charge each fault with the frames it may cost: what may still
be swallowed past the frame on the line pays for what may still be missed. For the
false frame, `AlignOn` and `AlignOff` say how far off a decoder may be after so many faults: to be
back at the very place at which the frame's checksum is read, without having read the
frame, takes a lead that one fault makes and two others eat up (`Lead`, `Late`).

Only model-checked: liveness, which is out of the proof system's reach
(`EveryQueryEnds`, `EventuallyRestored`, `BlockedEnd`, both `Heals`, `JoinEnds`).
Every safety property of a passing run has a theorem. Where an induction over a sequence is short it is done by hand,
from a least counterexample (`WFMin` of the library).

## Not modelled

- *Connect and discovery*: a sequential handshake over the operating system's
  enumeration; `Recovery!Init` is its end state. The portable transport is one
  blocking read with a timeout.
- *Commands and movement*, and the wrappers of queries: each encodes a frame and
  waits for at most one answer, which is `Correlation`'s. Replies are decoded field by
  field without state.
- *Logs and counters*: observability. The counter of restarts is `Recovery`'s.
- *Python bindings* and the conversion of each C struct field: wrappers with no
  protocol state.
- Of *clips*: the engine's verbs and the input triggers, one frame each; the playing
  itself is the box's. Of the *clock*: `ClockEstimate`, arithmetic on one reply.
- Payload bytes, where only their number or their order matters; the pool of bytes
  that rules share is in `Options` as a sum.
- `Recovery` and the table modules are not joined by a refinement: what `Recovery`
  calls holding a key is, in the tables, an entry at its place, and the order has the
  counterexample of `tables_order`.
