\* A trigger that consumes beside one that does not.
SPECIFICATION Spec
CONSTANTS
  Axes = {}
  KeyUsages = {}
  MediaUsages = {}
  ButtonCounts = {2}
  Scales = {0, 100}
  EdgeBlankets = TRUE
  MediaSlots = 1
  MaxLockCalls = 0
  MaxLockFailures = 0
  MaxLockReleases = 1
  RuleKeys = {}
  FieldPairs = {}
  TriggerKeys = {t1, t2}
  Values = {v, w}
  Consuming = {v}
  TableLimit = 2
  MaxTableCalls = 4
  MaxTableFailures = 1
  MaxTableReleases = 0
  MaxCatchCalls = 0
  All = All
  bulk = bulk
  key = key
  i1 = i1
  i2 = i2
  ffff = ffff
  every = every
  s1 = s1
  s2 = s2
  s3 = s3
  Every = every
  Classes = {bulk, key}
  InputClasses = {key}
  Ids = {i1, i2, ffff}
  Reserved = ffff
  Captures <- MCCaptures
  Subs = {s1, s2, s3}
  Asks <- MCAsks
  CatchLimit = 3
  MaxCatchFailures = 1
  MaxCatchReleases = 1
INVARIANT InStep
CHECK_DEADLOCK FALSE
