\* The instance of MCExternalSession.cfg; the strict form of what a killed process leaves.
CONSTANTS
    Configs <- MCConfigs
    ToolSets <- MCToolSets
    Batches <- MCBatches
    Endings = {"Graceful", "ForcedKill"}
    Costs = {1, 2}
    Budget = 1
    MaxPrompts = 2
    MaxSessions = 2
    MaxUnread = 2
    MaxTroubles = 1
    MaxIds = 5
    NoiseLimit = 1
SPECIFICATION Spec
INVARIANT KilledProcessKeepsItsTree
CHECK_DEADLOCK FALSE
