SPECIFICATION Spec
CONSTANTS
  None = None
  confirm = confirm
  cancel = cancel
  Ids = {a1, a2}
  Calls = {w1, w2}
  Writers = {w1, w2}
  Changes = {confirm, cancel}
  Method <- MCMethod
  Profile <- MCProfile
  Tokens = {t1}
  Static <- MCNoStatic
  Ttl = 1
  Grace = 0
  MaxRedirects = 1
  MaxTime = 2
  MaxConnects = 1
SYMMETRY Interchangeable
CHECK_DEADLOCK FALSE
INVARIANTS TypeOK NonGetWritesAreNotReplayed
PROPERTIES ImplementsApprovedOnce DecisionsAreFinal
