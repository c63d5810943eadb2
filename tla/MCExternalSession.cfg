\* Two prompts, two sessions, one trouble; the frames are in the configurations.
CONSTANTS
    Configs <- MCConfigs
    ToolSets <- MCToolSets
    Batches <- MCBatches
    Endings = {"Graceful", "ForcedKill"}
    Costs = {1, 2}
    Budget = 1
    MaxPrompts = 2
    MaxSessions = 2
    MaxUnread = 2
    MaxTroubles = 1
    MaxIds = 5
    NoiseLimit = 1
SPECIFICATION Spec
INVARIANTS
  TurnInv
  NotifiedOnceInOrder
  CleanupInv
PROPERTIES
  TurnEnds
CHECK_DEADLOCK FALSE
