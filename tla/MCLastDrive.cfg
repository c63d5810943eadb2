\* Two runs of an agent with a local primary, an external verifier and an
\* external strong worker; and a host's task on four rosters.
CONSTANTS
    Workers = {1, 2, 3}
    External = {2, 3}
    Primary = 1
    Verifier = 2
    Strong = 3
    MaxAttempts = 3
    Modes = {"model", "rules", "dispatcher", "host"}
    AgentPolicies <- MCPolicies
    Rosters <- MCRosters
    HostTasks <- MCTasks
    StepLimit = 5
    Headroom = 20
    MaxRuns = 2
    MaxCalls = 2
SPECIFICATION DelegationSpec
INVARIANTS
  LastDriveIsRetained
CHECK_DEADLOCK FALSE
