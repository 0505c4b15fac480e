\* A thread and a future that may be dropped, on a SEQ of three values: the
\* counter wraps twice, entries leak and the map fills.
SPECIFICATION FairSpec
CONSTANTS
  SyncCallers = {t1}
  AsyncCallers = {a1}
  Selectors = {v, s}
  SeqSpace = 3
  MaxTurn = 8
  MaxGen = 3
  NoEntry = NoEntry
  NoReply = NoReply
INVARIANTS
  StaleAnswerNeedsWrap
  WaiterKeepsEntry
  NoOrphanEntry
PROPERTY EveryQueryEnds
CHECK_DEADLOCK FALSE
