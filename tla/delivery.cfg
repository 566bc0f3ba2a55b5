CONSTANTS
  r1 = r1
  r2 = r2
  r3 = r3
  k1 = k1
  k2 = k2
  t1 = t1
  t2 = t2
  u = u
  bad = bad
  Requests = {r1, r2, r3}
  Keys = {k1, k2}
  Texts = {t1, t2}
  OtherTexts = {t2}
  Unrouted = {u}
  Malformed = {bad}
  NoBody = NoBody
  MaxEntries <- Rooms
  TTL = 1
  MaxNow = 1
  MaxRestarts = 1
SPECIFICATION DeliverySpec
CHECK_DEADLOCK FALSE
SYMMETRY SymmetricInputs
INVARIANTS
  ReceiptsTrue
  GateReadLast
PROPERTIES
  CacheKeepsPromise
