----------------------------- MODULE HeldLocks -----------------------------
(***************************************************************************)
(* The crate's copy of the box's lock table (src/src/link/reconcile.rs),   *)
(* from which a reconnect or a recovery rebuilds it.  A lock is recorded,  *)
(* then sent, and undone if the frame was never sent, all under            *)
(* `catch_lock` (src/src/device/lock.rs), so each call is one step here.   *)
(*                                                                         *)
(* The two tables have different shapes.  The crate holds one row for a    *)
(* target and one for the blanket of all buttons; the box has no such      *)
(* blanket: it writes every button's row.  The box holds media usages in   *)
(* a few slots, the first free one first; the crate holds rows and the     *)
(* order they were taken in.                                               *)
(***************************************************************************)
EXTENDS Retain, Integers, SequencesExt, FiniteSets

CONSTANTS
  Axes, KeyUsages, MediaUsages,
  All,             \* LOCK_ID_ALL, the id of a blanket
  ButtonCounts,    \* the buttons a device may declare, the box's ceiling at most,
                   \* and BTN_COUNT, what the crate counts on before it is told
  Scales,          \* what a lock keeps of native input, in percent
  EdgeBlankets,    \* whether users lock one edge of all buttons at once
  MediaSlots,      \* MEDIA_LOCK_MAX
  MaxLockCalls,    \* bounds on the users' calls, on those of them whose frame is
  MaxLockFailures, \* not sent, and on the box's releases
  MaxLockReleases

Pass == 100
Block == 0
MaxButtons == 16
Buttons == {b \in 0 .. MaxButtons - 1 : \E n \in ButtonCounts : b < n}

ASSUME CountAssumption == ButtonCounts \subseteq 0 .. MaxButtons /\ ButtonCounts # {}
ASSUME ScaleAssumption == {Pass, Block} \subseteq Scales /\ Scales \subseteq Int
ASSUME AllAssumption == All \notin KeyUsages \cup MediaUsages \cup Buttons
ASSUME LockBoundAssumption ==
  /\ MediaSlots \in Nat /\ EdgeBlankets \in BOOLEAN
  /\ MaxLockCalls \in Nat /\ MaxLockFailures \in Nat /\ MaxLockReleases \in Nat

VARIABLES
  rows,       \* DesiredState::locks; a row at pass is not in the map
  mediaOrder, \* the media usages locked, in the order they were taken
  declared,   \* button_count: declared_buttons, or BTN_COUNT before any CAPS
  lockBox,    \* the box: its clone and its lock table
  synced,     \* history: has the box taken all the crate holds ("yes"), some of it
              \* ("behind"), or does it hold what the crate has forgotten ("orphaned")?
  lockCalls, lockFailures, lockReleases

lockHeld == <<rows, mediaOrder>>
lockVars == <<rows, mediaOrder, declared, lockBox, synced, lockCalls, lockFailures, lockReleases>>

-----------------------------------------------------------------------------
LockEdges == {"pos", "neg"}
Bearings == {"with", "against"}
SlotDirs == LockEdges \cup Bearings
Dirs == SlotDirs \cup {"both"}

PassRow == [d \in SlotDirs |-> Pass]
BothRow(s) == [d \in SlotDirs |-> IF d \in LockEdges THEN s ELSE Pass]

AllButtons == <<"btn", All>>
AllMedia == <<"media", All>>
ButtonRows == {"btn"} \X Buttons
KeyRows == {"key"} \X (KeyUsages \cup {All})
MediaRows == {"media"} \X (MediaUsages \cup {All})
AxisRows == {"axis"} \X Axes

\* What both tables can name, and what only the crate's can.
Shared == AxisRows \cup ButtonRows \cup KeyRows \cup {AllMedia}
RowKeys == Shared \cup {AllButtons} \cup MediaRows

\* Only a usage takes a slot; the blanket is a flag.
IsMediaSlot(k) == k \in MediaRows \ {AllMedia}

\* What reaches apply_lock: a bearing is an axis's only, a media usage is
\* suppressed whole, and anything but an axis carries one bit.
DirsOf(k) ==
  IF k \in AxisRows THEN Dirs
  ELSE IF k \in MediaRows THEN {"both"}
  ELSE IF k = AllButtons /\ ~EdgeBlankets THEN {"both"}
  ELSE LockEdges \cup {"both"}
Stored(k, s) == IF k \in AxisRows THEN s ELSE IF s < Pass THEN Block ELSE Pass

-----------------------------------------------------------------------------
(* The box's table (LockTable::apply).                                      *)

\* A slot no usage holds; no lock names the blanket's id there.
FreeSlot == All

EmptyTable == [rows |-> [k \in Shared |-> PassRow],
               media |-> [i \in 1 .. MediaSlots |-> FreeSlot]]

\* `both` writes the scale to the two edges and a pass to the bearings.
SlotsSet(row, d, s) ==
  [e \in SlotDirs |->
    IF d = "both" THEN (IF e \in LockEdges THEN s ELSE Pass)
    ELSE IF e = d THEN s ELSE row[e]]

\* The first free slot takes it, unless one already has or none is free.
MediaTaken(slots, m) ==
  IF \E i \in DOMAIN slots : slots[i] = m \/ \A j \in DOMAIN slots : slots[j] # FreeSlot
  THEN slots
  ELSE LET i == CHOOSE i \in DOMAIN slots :
                  slots[i] = FreeSlot /\ \A j \in DOMAIN slots : slots[j] = FreeSlot => i <= j
       IN  [slots EXCEPT ![i] = m]
MediaFreed(slots, m) == [i \in DOMAIN slots |-> IF slots[i] = m THEN FreeSlot ELSE slots[i]]

\* The rows a LOCK writes: those of the declared buttons for their blanket.
Targets(b, k) ==
  IF k = AllButtons THEN {<<"btn", n>> : n \in {n \in Buttons : n < b.buttons}}
  ELSE IF k \in ButtonRows /\ k[2] >= b.buttons THEN {}
  ELSE {k} \cap Shared

Locked(b, k, d, s) ==
  IF ~b.up THEN b
  ELSE [b EXCEPT
         !.rows = [t \in Shared |->
                    IF t \in Targets(b, k) THEN SlotsSet(b.rows[t], d, s) ELSE b.rows[t]],
         !.media = IF ~IsMediaSlot(k) THEN @
                   ELSE IF s < Pass THEN MediaTaken(@, k[2]) ELSE MediaFreed(@, k[2])]

-----------------------------------------------------------------------------
(* The crate's copy (DesiredState).                                         *)

\* Slots::write.
Written(row, d, s) == IF d = "both" THEN BothRow(s) ELSE [row EXCEPT ![d] = s]

\* The row writes apply_lock makes, in order.  A fresh button blanket replaces
\* every button's row; a single button under a held blanket expands it first.
ClearButtons ==
  SetToSeq({<<k, PassRow>> : k \in {k \in ButtonRows : rows[k] # PassRow}})

Burst ==
  LET vacant == {<<"btn", n>> : n \in {n \in Buttons : n < declared}}
                  \cap {k \in ButtonRows : rows[k] = PassRow}
  IN  SetToSeq({<<k, rows[AllButtons]>> : k \in vacant}) \o <<<<AllButtons, PassRow>>>>

Bursts(k) == k \in ButtonRows /\ rows[AllButtons] # PassRow

\* The device has buttons the crate does not know of: its count is an older one's.
Short == lockBox.up /\ declared < lockBox.buttons

RowBefore(k) ==
  IF Bursts(k) /\ k[2] < declared /\ rows[k] = PassRow THEN rows[AllButtons] ELSE rows[k]

\* Fault: a single button is written beside a held blanket.
WritesUnburst(k, d, s) ==
  (IF k = AllButtons THEN ClearButtons ELSE <<>>)
    \o <<<<k, Written(rows[k], d, s)>>>>

Writes(k, d, s) ==
  (IF k = AllButtons THEN ClearButtons ELSE IF Bursts(k) THEN Burst ELSE <<>>)
    \o <<<<k, Written(RowBefore(k), d, s)>>>>

\* A media usage joins the order when its row does, and leaves with it.
OrderAfter(k, row) ==
  IF ~IsMediaSlot(k) THEN mediaOrder
  ELSE IF row = PassRow THEN Retain(mediaOrder, ToSet(mediaOrder) \ {k[2]})
  ELSE IF k[2] \in ToSet(mediaOrder) THEN mediaOrder
  ELSE Append(mediaOrder, k[2])

\* The rows after writes in order: the last write of a row counts.
LastWrite(ws, k) ==
  CHOOSE i \in DOMAIN ws : ws[i][1] = k /\ \A j \in DOMAIN ws : ws[j][1] = k => j <= i
After(rs, ws) ==
  [k \in RowKeys |->
    IF \E i \in DOMAIN ws : ws[i][1] = k THEN ws[LastWrite(ws, k)][2] ELSE rs[k]]

\* apply_lock: the rows written, and what each write found there.
Apply(ws) ==
  [rows |-> After(rows, ws),
   undo |-> [i \in DOMAIN ws |-> <<ws[i][1], After(rows, SubSeq(ws, 1, i - 1))[ws[i][1]]>>]]

\* Fault: the oldest write is undone first.
RestoredForward(rs, undo) == After(rs, undo)

\* restore_lock: newest first.
LockRestored(rs, undo) == After(rs, Reverse(undo))

-----------------------------------------------------------------------------
(* A reconnect's replay (held_locks, Slots::commands): the blanket as the   *)
(* buttons it stands for, the media usages in their order.                  *)

\* The fewest LOCK commands that make this row of one at pass.
Commands(row) ==
  IF row = BothRow(row["pos"])
  THEN IF row = PassRow THEN {} ELSE {<<"both", row["pos"]>>}
  ELSE {<<d, row[d]>> : d \in {d \in SlotDirs : row[d] # Pass}}

\* What the copy says of a target of a device with n buttons.
RowIn(rs, n, k) ==
  IF k \in ButtonRows /\ rs[AllButtons] # PassRow /\ k[2] < n THEN rs[AllButtons] ELSE rs[k]
RowOf(k) == RowIn(rows, declared, k)

\* One command to each edge and bearing it names.
Commanded(row, cs) ==
  IF \E c \in cs : c[1] = "both" THEN SlotsSet(row, "both", (CHOOSE c \in cs : c[1] = "both")[2])
  ELSE [e \in SlotDirs |->
         IF \E c \in cs : c[1] = e THEN (CHOOSE c \in cs : c[1] = e)[2] ELSE row[e]]

ReplayedRow(b, k) ==
  IF k \in ButtonRows /\ k[2] >= b.buttons THEN b.rows[k]
  ELSE Commanded(b.rows[k], Commands(RowOf(k)))

MediaReplayed(slots) ==
  LET upTo[n \in 0 .. Len(mediaOrder)] ==
        IF n = 0 THEN slots ELSE MediaTaken(upTo[n - 1], mediaOrder[n])
  IN  upTo[Len(mediaOrder)]

Replayed(b) ==
  [b EXCEPT !.rows = [k \in Shared |-> ReplayedRow(b, k)],
            !.media = MediaReplayed(@)]
-----------------------------------------------------------------------------
LocksInit ==
  /\ rows = [k \in RowKeys |-> PassRow]
  /\ mediaOrder = <<>>
  /\ declared \in ButtonCounts
  /\ \E n \in ButtonCounts :
       lockBox = [up |-> TRUE, buttons |-> n, rows |-> EmptyTable.rows, media |-> EmptyTable.media]
  /\ synced = "yes"
  /\ lockCalls = 0
  /\ lockFailures = 0
  /\ lockReleases = 0

LockCall ==
  /\ lockCalls < MaxLockCalls
  /\ lockCalls' = lockCalls + 1

\* Device::scale, lock and unlock.  A blanket expanded to too few buttons leaves
\* the others locked on the box and in no row of the crate.
Lock(k, d, s) ==
  LET after == Apply(Writes(k, d, Stored(k, s)))
  IN  /\ LockCall
      /\ rows' = after.rows
      /\ mediaOrder' = OrderAfter(k, after.rows[k])
      /\ lockBox' = Locked(lockBox, k, d, s)
      /\ synced' = IF Bursts(k) /\ Short THEN "orphaned"
                   ELSE IF ~lockBox.up /\ synced = "yes" THEN "behind" ELSE synced
      /\ UNCHANGED <<declared, lockFailures, lockReleases>>

\* The frame was never sent: what was recorded is undone.
LockFails(k, d, s) ==
  LET after == Apply(Writes(k, d, Stored(k, s)))
  IN  /\ LockCall
      /\ lockFailures < MaxLockFailures
      /\ lockFailures' = lockFailures + 1
      /\ rows' = LockRestored(after.rows, after.undo)
      /\ mediaOrder' = mediaOrder
      /\ UNCHANGED <<declared, lockBox, synced, lockReleases>>

\* reset_frame: DesiredState::clear, then RESET.
LocksReset ==
  /\ LockCall
  /\ rows' = [k \in RowKeys |-> PassRow]
  /\ mediaOrder' = <<>>
  /\ lockBox' = [lockBox EXCEPT !.rows = EmptyTable.rows, !.media = EmptyTable.media]
  /\ synced' = "yes"
  /\ UNCHANGED <<declared, lockFailures, lockReleases>>

\* Its write fails: the crate has forgotten what the box still holds, and only
\* a release of the session will clear it there.
LocksResetFails ==
  /\ LockCall
  /\ rows' = [k \in RowKeys |-> PassRow]
  /\ mediaOrder' = <<>>
  /\ synced' = "orphaned"
  /\ UNCHANGED <<declared, lockBox, lockFailures, lockReleases>>

\* The box's session ends: by a link drop, with the clone left up, or with a
\* device that goes and another, perhaps wider, that comes in its place.
LocksReleased ==
  /\ lockReleases < MaxLockReleases
  /\ lockReleases' = lockReleases + 1
  /\ \E up \in BOOLEAN, n \in ButtonCounts :
       /\ up => lockBox.up /\ n = lockBox.buttons
       /\ lockBox' = [up |-> up, buttons |-> n, rows |-> EmptyTable.rows,
                  media |-> EmptyTable.media]
  /\ synced' = "behind"
  /\ UNCHANGED <<lockHeld, declared, lockCalls, lockFailures>>

\* The clone of whatever is there now.
LockCloneUp ==
  /\ ~lockBox.up
  /\ lockBox' = [lockBox EXCEPT !.up = TRUE]
  /\ UNCHANGED <<lockHeld, declared, synced, lockCalls, lockFailures, lockReleases>>

\* A CAPS answer is noted (note_declared_buttons): a recovery's or a reconnect's
\* before it re-sends, or that of a user's caps(), whenever its thread gets to run.
\* The device it speaks of may be gone by then; without one a box declares none.
CapsNoted ==
  /\ \E n \in ButtonCounts \cup {0} : declared' = n
  /\ UNCHANGED <<lockHeld, lockBox, synced, lockCalls, lockFailures, lockReleases>>

\* All that is held is sent, whether the box dropped it or not: a blanket to the
\* buttons the crate knows of.
Reapply ==
  /\ lockBox.up
  /\ lockBox' = Replayed(lockBox)
  /\ synced' = IF synced = "behind" /\ ~(rows[AllButtons] # PassRow /\ Short) THEN "yes" ELSE synced
  /\ UNCHANGED <<lockHeld, declared, lockCalls, lockFailures, lockReleases>>

LocksNext ==
  \/ \E k \in RowKeys : \E d \in DirsOf(k), s \in Scales :
       /\ k \notin AxisRows => s \in {Pass, Block}
       /\ Lock(k, d, s) \/ LockFails(k, d, s)
  \/ LocksReset
  \/ LocksResetFails
  \/ LocksReleased
  \/ LockCloneUp
  \/ CapsNoted
  \/ Reapply

LocksSpec == LocksInit /\ [][LocksNext]_lockVars

-----------------------------------------------------------------------------
(* The crate's copy is the box's table: whatever was locked, unlocked, undone,
   released and sent again, by whatever count of buttons, once the box has taken
   all the host holds it blocks and scales just what the copy says of the device
   that is there (apply_lock, reconcile.rs:383-408, against the box's
   LockTable::apply).  Sending everything again to it then changes nothing,
   the order of its media slots included (reapply_locked, reconnect.rs:259-339:
   "Idempotent after a short drop"). *)
CopyIsTable ==
  synced = "yes" =>
    /\ \A k \in Shared :
         (k \in ButtonRows => k[2] < lockBox.buttons)
           => lockBox.rows[k] = RowIn(rows, lockBox.buttons, k)
    /\ {lockBox.media[i] : i \in 1 .. MediaSlots} \ {FreeSlot} = ToSet(mediaOrder)
    /\ Replayed(lockBox) = lockBox

(* A lock that failed to be sent leaves no trace, of a blanket it expanded or
   replaced either (restore_lock, reconcile.rs:472-482). *)
UndoIsExact == [][lockFailures' # lockFailures => UNCHANGED lockHeld]_lockVars
=============================================================================
