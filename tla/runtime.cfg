SPECIFICATION ScenarioSpec
CONSTANTS
  None = None
  TaskRequests <- AllTasks
  RunRequests <- AllRuns
  LeaseRequests <- AllLeases
  ReceiptDrafts <- AllDrafts
  TaskTargets <- ReceiptTargets
  RunTargets <- ReceiptTargets
  Times = {0, 1, 2}
  MaxVersion = 9
  MaxLeaseVersion = 3
VIEW ScenarioView
CHECK_DEADLOCK FALSE
INVARIANTS
  TypeOK
  ActiveLeasesDisjoint
  StartedWorkWasLeased
  FinalWorkVerified
  ReceiptChainLinear
  LedgerReplays
PROPERTIES
  LeaseNeverRevived
