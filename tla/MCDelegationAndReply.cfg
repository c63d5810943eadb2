\* Two runs of an agent with a local primary, an external verifier and an
\* external strong worker; and a host's task on four rosters.  Replies of three protocols.
CONSTANTS
    Workers = {1, 2, 3}
    External = {2, 3}
    Primary = 1
    Verifier = 2
    Strong = 3
    MaxAttempts = 3
    Modes = {"model", "rules", "dispatcher", "host"}
    AgentPolicies <- MCPolicies
    Rosters <- MCRosters
    HostTasks <- MCTasks
    StepLimit = 5
    Headroom = 20
    MaxRuns = 2
    MaxCalls = 2
    Apis = {"anthropic", "chat", "responses"}
    Indices = {0, 1}
    MaxParts = 2
    MaxPieces = 4
    MaxItemPieces = 2
    MaxSent = 8
    Counts = {1, 3}
    MaxIdle = 1
    MaxLost = 1
SPECIFICATION ViewSpec
INVARIANTS
  ExternalStartIsAuthorised
  SessionInv
  StrongestWorkerIsTried
  ResponseInv
  NoLossUnnoticed
PROPERTIES
  TaskIsSettled
CHECK_DEADLOCK FALSE
