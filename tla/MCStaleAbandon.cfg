SPECIFICATION Spec
CONSTANTS
  Calls <- FreeCalls
  Gated = {}
  FreeBatches <- BothFree
  GatedQueues <- NoQueue
  MaxSteps = 2
  StopRun = FALSE
  MaxTurns = 1
  MaxReconfigs = 0
  MaxPivots = 0
PROPERTIES
  SettledIdsAreStale
CHECK_DEADLOCK FALSE
