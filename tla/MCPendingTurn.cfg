SPECIFICATION TurnSpec
CONSTANTS
  TurnIds = {t1, t2, t3}
  MsgIds = {m1, m2, m3, m4, m5, m6}
  CallIds = {c1, c2, c3}
  p1 = p1
  p2 = p2
  ProvIds = {p1, p2}
  NoTurn = NoTurn
  NoMsg = NoMsg
  NoCall = NoCall
  NoResponse = NoResponse
  Responses <- MCResponses
  MaxVersion = 2
SYMMETRY IdSymmetry
INVARIANTS
  PhaseInv
  IdentityInv
  ClosingTurnValidates
PROPERTIES
  PoisonedMessageNeverCommitted
CHECK_DEADLOCK FALSE
