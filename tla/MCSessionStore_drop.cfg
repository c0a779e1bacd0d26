SPECIFICATION Spec
CONSTANTS
  None = None
  k1 = k1
  k2 = k2
  t1 = t1
  t2 = t2
  d1 = d1
  d2 = d2
  Keys = {k1, k2}
  Ops <- CacheOps
  Environments <- OneKey
  StoredSessions <- RotatedSession
  StoredPendings <- NoStored
  SessionExpiries <- NeverExpires
  Tokens = {t1, t2}
  Devices = {d1, d2}
  Buckets = {}
  Calls = {c1, c2}
  PendingTtl = 2
  Window = 2
  Limit = 2
  MaxTime = 1
  MaxSaves = 2
  MaxDeploys = 1
CHECK_DEADLOCK FALSE
PROPERTY SessionLostOnlyForItsOwnReason
