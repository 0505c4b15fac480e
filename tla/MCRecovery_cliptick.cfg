SPECIFICATION Spec
CONSTANTS
  k = k
  r = r
  Keys = {k, r}
  TickKeys = {r}
  BlindSets = FALSE
  SlowClone = TRUE
  Budgets <- TickingBudgets
INVARIANT ClipLossReported
