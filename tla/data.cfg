SPECIFICATION MCSpec
CONSTANTS
  Leases = {l1, l2, l3}
  Tasks = {t1, t2}
  Paths = {p}
  MaxClock = 2
  MaxBeats = 1
  MaxBreaks = 1
  Leads = {"lead"}
  Callers = {"a1", "a2"}
  MaxApiFaults = 1
  Visitors = {"ann", "bo"}
  Partners = {"bo"}
  MaxTries = 2
  MaxSiteFaults = 4
  People = {"owner", "ed"}
  Owner = "owner"
  MaxRequests = 3
  MaxGrants = 2
  MaxAdminFaults = 1
  Nodes = {"mac", "hermes"}
  NotePaths = {"plan", "log"}
  Limit = 1
  MaxAtWork = 2
  MaxEdits = 2
  MaxSyncFaults = 1
  None = None
  Gone = Gone
  Twins = {l1, l2}
  Shared = t1
SYMMETRY Symmetry
CHECK_DEADLOCK FALSE
INVARIANTS
  ExactOwnership
  LocksSound
  LeadsKept
  RightsGranted
  SearchMended
PROPERTIES
  RowsChangeAsAllowed
