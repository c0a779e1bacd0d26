SPECIFICATION MCSpec
CONSTANTS
  None = None
  r1 = r1
  r2 = r2
  r3 = r3
  r4 = r4
  r5 = r5
  w1 = w1
  a1 = a1
  t1 = t1
  t2 = t2
  Calls = {r1, r2, r3, r4, r5}
  Mode = "execute"
  MaxRequests = 4
  MaxConcurrency = 2
  MaxChars = 2
  MaxSpecCalls = 1
  Sizes = {0, 1, 2}
CHECK_DEADLOCK FALSE
INVARIANTS TypeOK WithinLimits NoLostWakeup NothingLeftBehind
PROPERTIES BurnedOnlyByLookup NothingAfterAbort EveryCallSettles TheToolAnswers
