CONSTANTS
  Tree <- MachineTree
  MaxDepth = 2
  Handled <- TotalRoot
  ToolBatches <- Batches
  MaxSteps = 4
  MaxTokens = 4
  Usages = {1, 2}
  MaxReqs = 8
  MaxSibling = 1
  Tokens = {t1, t2, t3, t4}
  Root = t1
  NoToken = NoToken
  Waiters = {w1}
  Cancellers = {c1, c2}
SPECIFICATION ViewSpec
INVARIANTS
  SettlementInv
  LedgerMatchesFeeds
  NoLostWakeup
  ReturnsOnlyIfCancelled
PROPERTIES
  CancelStopsDrive
  CancelledWaitEnds
CHECK_DEADLOCK FALSE
