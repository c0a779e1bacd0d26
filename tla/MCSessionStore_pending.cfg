SPECIFICATION PendingSpec
CONSTANTS
  None = None
  k1 = k1
  k2 = k2
  t1 = t1
  t2 = t2
  d1 = d1
  d2 = d2
  Keys = {k1, k2}
  Ops <- PendingOps
  Environments <- PendingEnvironments
  StoredSessions <- CurrentSessions
  StoredPendings <- AnyPending
  SessionExpiries <- NeverExpires
  Tokens = {t1}
  Devices = {d1, d2}
  Buckets = {b1}
  Calls = {c1, c2}
  PendingTtl = 2
  Window = 2
  Limit = 2
  MaxTime = 4
  MaxSaves = 2
  MaxDeploys = 1
CHECK_DEADLOCK FALSE
INVARIANTS TypeOK AlarmCoversDeadlines
PROPERTIES ExpiredPendingIsErased AttemptsAreNotForgotten
