SPECIFICATION MCSpec
CONSTANTS
  Slots = {k1, k2}
  Sources = {s1}
  Contexts = {c1, c2}
  NoSource = NoSource
  Unbound = Unbound
  NoBinding = NoBinding
  None = None
  Queue = "queue"
  Policy = "policy"
  Snapshots = "snapshots"
  Desks = {"queue", "policy", "snapshots"}
  Asked <- MCAsked
  InboxIds <- MCInboxIds
  InboxActions <- MCInboxActions
  Approvals <- MCApprovals
  Writers <- MCWriters
  MaxEvents <- MCMaxEvents
  MaxCalls <- MCMaxCalls
  MaxRestarts <- MCMaxRestarts
  MaxSecond <- MCMaxSecond
  Kinds = {"initialize", "preflight"}
  OutputLimit = 2
  MaxChunks = 4
  Tabs = {"t1", "t2"}
  Pages = {"list-1", "list-2", "home"}
  pathname <- MCPathname
  Elsewhere = "elsewhere"
  Presses = {"r1"}
  MaxAge = 0
  MaxNow = 1
CHECK_DEADLOCK FALSE
INVARIANTS
  ReadyMeansReviewed
  ApprovalNeedsReview
  RecordsTruthful
  NothingUnapproved
  ProbeTruthful
  PostedRouteOnScreen
PROPERTIES
  SnapshotImmutable
