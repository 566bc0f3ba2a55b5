CONSTANTS
  m1 = m1
  m2 = m2
  p1 = p1
  p2 = p2
  Services <- TwoServices
  Gatekeeper = "rustControl"
  Other = "other"
  Pids = {p1, p2}
  Managers = {m1, m2}
  Commands = {"start", "stop", "status"}
  MaxStarts = 3
  MaxFlakyStarts = 2
SPECIFICATION Spec
SYMMETRY Symmetry
CHECK_DEADLOCK FALSE
INVARIANTS
  OneManager
  StruckWasTracked
  StateTellsTruth
PROPERTIES
  RemovedOnlyWhenGone
