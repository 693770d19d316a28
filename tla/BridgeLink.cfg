SPECIFICATION FairSpec
CONSTANTS
  Conns = {c1, c2}
  MaxTroubles = 2
  MaxCalls = 2
  Hazards = {"helloFails"}
  None = None
INVARIANTS TypeOK LeaseHasLink OneLink FailsClosed
PROPERTY SettlesDown
CHECK_DEADLOCK FALSE
