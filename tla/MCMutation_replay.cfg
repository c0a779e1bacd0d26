SPECIFICATION Spec
CONSTANTS
  None = None
  confirm = confirm
  cancel = cancel
  Ids = {a1}
  Calls = {w1}
  Writers = {w1}
  Changes = {confirm, cancel}
  Method <- MCMethod
  Profile <- MCProfile
  Tokens = {t1}
  Static <- MCNoStatic
  Ttl = 1
  Grace = 1
  MaxRedirects = 2
  MaxTime = 1
  MaxConnects = 1
CHECK_DEADLOCK FALSE
INVARIANT WritesAreNotReplayed
