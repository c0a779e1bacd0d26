SPECIFICATION MCSpec
CONSTANTS
  None = None
  Absent = Absent
  c1 = c1
  c2 = c2
  p1 = p1
  pos = pos
  shop = shop
  Foreign = foreign
  t1 = t1
  t2 = t2
  b1 = b1
  b2 = b2
  n1 = n1
  n2 = n2
  r1 = r1
  k1 = k1
  Calls = {c1, c2}
  Approved = {c2}
  Providers = {p1}
  ProviderOf <- MCProviderOf
  Ops = {"list", "page", "confirm"}
  Host <- MCHost
  Auth <- MCAuth
  Method <- MCMethod
  Safety <- MCSafety
  Hosts = {pos, shop}
  Tokens = {t1, t2}
  WithCookie = {t1}
  Static = t2
  MaxRedirects = 1
  MaxBytes = 1
  MaxSaves = 1
  Requests = {r1, r2}
  Browsers = {b1, b2}
  NetworkOf <- MCNetworkOf
  Clients = {k1}
  Asked <- MCAsked
  Ticks <- MCTicks
  MaxFailures = 2
  MaxSecrets = 1
  MaxDeaths = 0
  Nothing = None
  Lines <- MCLines
  Answers <- MCAnswers
  Landings = {"shop", "other"}
  MaxLines = 4
  MaxClock = 1
  MaxCookies = 3
  MaxHops = 1
CHECK_DEADLOCK FALSE
INVARIANT TenFailures
