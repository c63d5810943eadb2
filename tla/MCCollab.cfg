\* Two tasks, two local agents and one external one; up to four writes to the
\* plan, the mailbox and the blackboard together, and one restart.
CONSTANTS
    Tasks = {t1, t2}
    Locals = {a, b}
    Externals = {x}
    Configs <- MCConfigs
    PageLimit = 1
    MaxWrites = 4
    MaxRestores = 1
SYMMETRY Symmetry
SPECIFICATION Spec
INVARIANTS
  PlanInv
  MessageInv
PROPERTIES
  NobodyTakesATaskOver
  ReportsReachThePlan
CHECK_DEADLOCK FALSE
