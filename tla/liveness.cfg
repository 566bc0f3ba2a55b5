SPECIFICATION LiveSpec
CONSTANT None = None
CHECK_DEADLOCK FALSE
PROPERTIES
  EveryRequestAnswered
  EveryRunEnds
  PeersCatchUp
