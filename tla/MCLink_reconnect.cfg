\* Two unplugs, boots, reflashes or reconnects of a user's, and a press and a release.
SPECIFICATION FairSpec
CONSTANTS
  Neighbour = TRUE
  MaxEvents = 2
  MaxCalls = 2
INVARIANTS OnlyOurBox GhostIsReported LossIsOwed
PROPERTIES Heals JoinEnds
\* The threads end with the last handle.
CHECK_DEADLOCK FALSE
