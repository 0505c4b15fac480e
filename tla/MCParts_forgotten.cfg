SPECIFICATION Spec
CONSTANTS
  c1 = c1
  c2 = c2
  t1 = t1
  t2 = t2
  r1 = r1
  r2 = r2
  i1 = i1
  i2 = i2
  device = device
  host = host
  name = name
  NoImage = NoImage
  Callers = {c1}
  Targets = {device, host}
  Images = {i1, i2}
  Length <- MCLength
  Credit = 2
  HeldMax = 2
  MaxCalls = 3
  MaxGiveUps = 2
  MaxLost = 1
  Threads = {t1, t2}
  Clips <- MCClips
  PayloadMax = 25
  EdgesMax = 2
  RawMax = 2
  SeqSpan = 4
  MaxUploads = 3
  MaxFailed = 1
  Triggers <- MCTriggers
  Offered <- MCOffered
  Packets <- MCPackets
  MatchMax = 2
  TrigMax = 3
  PoolMax = 5
  MaxPackets = 6
  OfferedRules <- MCOfferedRules
  Transforms <- MCTransforms
  Declared <- MCDeclared
  PatchKeys = {1, 2}
  Settings = {name}
  MaxPayload = 20
  RewriteMatchMax = 2
  HeadReport = 6
  HeadControl = 8
  RulesMax = 2
  RulePool = 10
  TransformsMax = 1
  PatchesMax = 1
  PatchPool = 2
  MaxOptionCalls = 4
  Sendable <- MCSendable
  Opcodes = {1, 2}
  ByteSpan = 4
  MAX_PAYLOAD = 6
  MaxSent = 5
  MaxFaults = 2
  Readers = {r1, r2}
  NoReader = NoReader
  MaxBytes = 3
  MaxWakes = 2
  Span = 4
  FloorBlock = 2
  Resync = 1
  Boots = {0, 3, 6}
  MaxTime = 6
  MaxTaps = 2
  MaxResets = 1
  ApiThreads = {t1, t2}
  Errors = {"Io", "BadProtoVer", "Update", "Disconnected"}
  MaxHandles = 2
  MaxApiCalls = 3
INVARIANT HeldIsRecorded
CHECK_DEADLOCK FALSE
