SPECIFICATION Spec
CONSTANTS
  Nodes = {n1, n2}
  Gates = {g1}
  ValidTickets = {good}
  InvalidTickets = {bad}
  Requests = {r1, r2, r3}
  MaxRestarts = 1
  None = None
SYMMETRY InterchangeableRequests
CHECK_DEADLOCK FALSE
INVARIANTS
  AuthorizedByStore
  CacheRespectsHold
PROPERTIES
  HoldWinsUntilRestart
