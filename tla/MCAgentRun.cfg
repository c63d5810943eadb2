\* The machine: four calls, two of them gated, in two turns.  The run: three of up to four
\* LLM steps and three events each.  The life of an agent: four ids in a process, two
\* reconfigurations queued, two restorations.
CONSTANTS
    Calls <- FourCalls
    Gated <- TwoGated
    FreeBatches <- BothFree
    GatedQueues <- BothGated
    MaxSteps = 2
    StopRun = TRUE
    MaxTurns = 2
    MaxReconfigs = 2
    MaxPivots = 1
    MaxRunSteps = 4
    MaxRuns = 3
    MaxEvents = 3
    ToolNames = {"read", "write", "ask_coder", "ask_remote", "delegate"}
    Locals = {"coder"}
    Externals = {"remote"}
    AskName <- MCAskName
    SingleName = "delegate"
    Routings <- MCRoutings
    BaseSets <- MCBaseSets
    SetIds = {1, 2}
    ToolSetRequests <- MCRequests
    Recipes <- MCRecipes
    MaxQueue = 1
    MaxIds = 6
    MaxRestores = 1
SPECIFICATION MCSpec
INVARIANTS
  MachineInv
  NoRunWithoutApproval
  ReconfigsAppliedInOrder
  RunInv
  OffersInv
  FreshIdsInv
PROPERTIES
  KeepsTurnProtocol
  EveryTurnComesToRest
  CancelEndsRun
  ToolsAreKept
CHECK_DEADLOCK FALSE
