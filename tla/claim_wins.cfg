SPECIFICATION Spec
CONSTANTS
  Nodes = {mac, hermes}
  Paths = {plan}
  Limit = 1
  MaxAtWork = 2
  MaxEdits = 3
  MaxFaults = 0
  None = None
CHECK_DEADLOCK FALSE
PROPERTIES
  RowsNeverOlder
