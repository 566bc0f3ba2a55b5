SPECIFICATION MCSpec
CONSTANTS
  Runs = {"r1", "r2"}
  Tools = {"inspect", "quote", "send", "missing"}
  Registered = {"inspect", "quote", "send"}
  SideEffecting = {"send"}
  RetrySafe = {"quote"}
  Inspect = "inspect"
  Throttled = "send"
  MaxAgents = 2
  Budgets = {1, 2, 4}
  MaxRetries = 2
  MaxFaults = 1
  None = None
  Single = "single"
  Shared = "shared"
  Loads = {"single", "shared"}
  Starters <- MCStarters
  Offered <- MCOffered
  Handshakes = "handshakes"
  Syncing = "syncing"
  Refused = "refused"
  Meshes = {"handshakes", "syncing", "refused"}
  Lanes <- MCLanes
  Peers <- MCPeers
  Work <- MCWork
  Bearer <- MCBearer
  MaxWire <- MCMaxWire
  MaxRestarts <- MCMaxRestarts
  Self = self
  Ids = {0, 1, 2}
  Home = 0
  Caps = {"build", "scan", "draft"}
  Priorities = {0, 1}
  Width = 3
  MaxRequired = 2
  Repeats = FALSE
  Roster = {1, 17, 18, 26, 36, 44}
  Clearing = "clearing"
  Admitting = "admitting"
  Hurrying = "hurrying"
  Slicing = "slicing"
  Preflights = {"clearing"}
  Admissions = {"admitting", "hurrying", "slicing"}
  MaxTime <- MCMaxTime
  MaxEvents <- MCMaxEvents
  Lifetime <- MCLifetime
  Boundary <- MCBoundary
  Trees = {"w1", "w2"}
  MaxAge = 1
  Disk <- MCDisk
  Growth = 0
  Floor = 1
  MinReclaim = 1
  MaxAffected = 2
  RequiredFree = 2
CHECK_DEADLOCK FALSE
INVARIANTS
  LoopAccounts
  LessonsTrue
  RegistrationsTrue
  RoutesBest
  EventsDelivered
  CleanupAsApproved
  CleanupTells
