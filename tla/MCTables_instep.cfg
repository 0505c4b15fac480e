\* Locks, tables with triggers that all consume, and three subscriptions, through failed writes and a release.
SPECIFICATION Spec
CONSTANTS
  Axes = {x}
  KeyUsages = {}
  MediaUsages = {vol, mute}
  ButtonCounts = {1, 2}
  Scales = {0, 100}
  EdgeBlankets = FALSE
  MediaSlots = 2
  MaxLockCalls = 3
  MaxLockFailures = 1
  MaxLockReleases = 2
  RuleKeys = {k1, k2, k3}
  FieldPairs = {f1, f2}
  TriggerKeys = {t1, t2, t3}
  Values = {v, w}
  Consuming = {v, w}
  TableLimit = 2
  MaxTableCalls = 3
  MaxTableFailures = 1
  MaxTableReleases = 2
  MaxCatchCalls = 3
  All = All
  bulk = bulk
  key = key
  i1 = i1
  i2 = i2
  ffff = ffff
  every = every
  s1 = s1
  s2 = s2
  s3 = s3
  Every = every
  Classes = {bulk, key}
  InputClasses = {key}
  Ids = {i1, i2, ffff}
  Reserved = ffff
  Captures <- MCCaptures
  Subs = {s1, s2, s3}
  Asks <- MCAsks
  CatchLimit = 3
  MaxCatchFailures = 1
  MaxCatchReleases = 1
INVARIANTS CopyIsTable InStep CatchInStep EachServed
PROPERTIES UndoIsExact RollbackIsExact Heals
CHECK_DEADLOCK FALSE
