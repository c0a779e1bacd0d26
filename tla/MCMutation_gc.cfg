SPECIFICATION FairSpec
CONSTANTS
  None = None
  confirm = confirm
  cancel = cancel
  Ids = {a1}
  Calls = {w1}
  Writers = {w1}
  Changes = {confirm}
  Method <- MCMethod
  Profile <- MCProfile
  Tokens = {t1}
  Static <- MCNoStatic
  Ttl = 1
  Grace = 1
  MaxRedirects = 2
  MaxTime = 4
  MaxConnects = 1
CHECK_DEADLOCK FALSE
PROPERTY StaleApprovalsAreCollected
