SPECIFICATION FairSpec
CONSTANTS
  Sessions = {s1, s2}
  Leases = {l1, l2, l3}
  Calls = {c1, c2}
  Pasts <- TwoPasts
  None = None
  s2 = s2
  l3 = l3
INVARIANTS
  TypeOK
  Agreement
PROPERTIES
  ControlIsGivenUp
  EveryCallEnds
CHECK_DEADLOCK FALSE
