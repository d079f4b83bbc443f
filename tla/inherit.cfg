SPECIFICATION InheritSpec
CONSTANTS
  a = a
  b = b
  c = c
  d = d
  PolicyId = {a, b, c, d}
  MaxPolicies = 3
  Requests <- MCRequests
INVARIANTS
  RejectsExactly
  ShadowAgrees
  NoCallWithinItself
CHECK_DEADLOCK FALSE
