\* Rules set before and after a release.
SPECIFICATION Spec
CONSTANTS
  Axes = {}
  KeyUsages = {}
  MediaUsages = {}
  ButtonCounts = {2}
  Scales = {0, 100}
  EdgeBlankets = TRUE
  MediaSlots = 1
  MaxLockCalls = 0
  MaxLockFailures = 0
  MaxLockReleases = 1
  RuleKeys = {k1, k2}
  FieldPairs = {}
  TriggerKeys = {}
  Values = {v, w}
  Consuming = {}
  TableLimit = 2
  MaxTableCalls = 3
  MaxTableFailures = 0
  MaxTableReleases = 1
  MaxCatchCalls = 0
  All = All
  bulk = bulk
  key = key
  i1 = i1
  i2 = i2
  ffff = ffff
  every = every
  s1 = s1
  s2 = s2
  s3 = s3
  Every = every
  Classes = {bulk, key}
  InputClasses = {key}
  Ids = {i1, i2, ffff}
  Reserved = ffff
  Captures <- MCCaptures
  Subs = {s1, s2, s3}
  Asks <- MCAsks
  CatchLimit = 3
  MaxCatchFailures = 1
  MaxCatchReleases = 1
INVARIANT OrderKept
CHECK_DEADLOCK FALSE
