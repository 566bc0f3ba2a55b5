SPECIFICATION Spec
CONSTANTS
  Nodes = {n1, n2}
  Gates = {g1}
  ValidTickets = {good}
  InvalidTickets = {bad}
  Requests = {r1, r2}
  MaxRestarts = 1
  None = None
PROPERTY LocalHoldWins
CHECK_DEADLOCK FALSE
