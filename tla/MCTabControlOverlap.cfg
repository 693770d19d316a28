SPECIFICATION Spec
CONSTANTS
  Sessions = {s1, s2}
  Leases = {l1, l2, l3}
  Calls = {c1, c2, c3}
  Pasts <- Overlaps
  None = None
  s2 = s2
  l3 = l3
PROPERTY ReleaseClearsOwnClaim
CHECK_DEADLOCK FALSE
