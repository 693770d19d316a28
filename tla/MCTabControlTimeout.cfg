SPECIFICATION Spec
CONSTANTS
  Sessions = {s1, s2}
  Leases = {l1, l2, l3}
  Calls = {c1, c2}
  Pasts <- Timeouts
  None = None
  s2 = s2
  l3 = l3
INVARIANT AttachedOnlyWhenClaimed
CHECK_DEADLOCK FALSE
