SPECIFICATION Spec
CONSTANTS
  a = a
  b = b
  x = x
  r1 = r1
  r2 = r2
  k1 = k1
  k2 = k2
  Usages = {a, b, x}
  Watched = {a, b}
  Snapshots <- MCSnapshots
  Capacity = 1
  Receivers = {r1, r2}
  Closers = {k1, k2}
  ModeOf <- MCModeOf
  MaxReports = 3
INVARIANTS EdgesAlternate NothingStuck
PROPERTIES Refines NothingAfterClose BlockedEnd
