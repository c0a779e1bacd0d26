SPECIFICATION MCSpec
CONSTANTS
  None = None
  k1 = k1
  k2 = k2
  t1 = t1
  t2 = t2
  d1 = d1
  d2 = d2
  Keys = {k1, k2}
  Ops <- SessionOps
  Environments <- AnyEnvironment
  StoredSessions <- AnySession
  StoredPendings <- NoStored
  SessionExpiries <- SomeExpire
  Tokens = {t1, t2}
  Devices = {d1, d2}
  Buckets = {}
  Calls = {c1, c2}
  PendingTtl = 2
  Window = 2
  Limit = 2
  MaxTime = 1
  MaxSaves = 2
  MaxDeploys = 2
  Nobody = Nobody
  u1 = u1
  ip1 = ip1
  Requests = {r1, r2}
  Users = {u1}
  Ips = {ip1}
  Global = global
  MaxAttempts <- MCAttempts
  Hosts = {shop, other}
  Merchant = shop
  MaxHops = 1
CHECK_DEADLOCK FALSE
SYMMETRY Symmetry
INVARIANTS OneDeviceId ConnectTypeOK PinsWithinLimits NothingSavedElsewhere
PROPERTIES ReadersNeverResurrect ReportedSessionIsCleared SessionLostOnlyToKnownCauses FlowsLeaveNothingBehind
