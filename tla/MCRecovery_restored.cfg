SPECIFICATION FairSpec
CONSTANTS
  k = k
  r = r
  Keys = {k, r}
  TickKeys = {r}
  BlindSets = FALSE
  SlowClone = TRUE
  Budgets <- MCBudgets
INVARIANTS NoSilentLoss NoGhostState ClipReportIsTrue
PROPERTY EventuallyRestored
