SPECIFICATION ClaimsSpec
CONSTANTS
  None = None
  TaskRequests <- OneTask
  RunRequests <- LeaseRuns
  LeaseRequests <- LeaseLeases
  ReceiptDrafts = {}
  TaskTargets = {}
  RunTargets <- LeaseTargets
  Times = {0, 1, 2}
  MaxVersion = 6
  MaxLeaseVersion = 3
VIEW ClaimsView
CHECK_DEADLOCK FALSE
INVARIANT OneRunningWriterPerTree
