SPECIFICATION MCSpec
CONSTANTS
  Convs = {parent, child}
  Root = parent
  TurnIds = {t1, t2, t3}
  CallIds = {k1}
  ArtifactIds = {a1, a2}
  NoTurn = NoTurn
  NoCall = NoCall
  NoArtifact = NoArtifact
  NoValue = NoValue
  MaxVersion = 5
  MaxForkVersion = 3
  MaxForkChanges = 4
  MaxTornVersion = 3
  MaxSharedVersion = 2
  MaxSharedChanges = 3
  MaxOlderVersion = 4
  MaxExports = 3
SYMMETRY IdSymmetry
INVARIANTS
  HeadMoveNeverPanics
CHECK_DEADLOCK FALSE
