SPECIFICATION FairSpec
CONSTANTS
  Conns = {c1, c2}
  MaxTroubles = 0
  MaxCalls = 0
  Hazards = {"helloFails"}
  None = None
PROPERTY ComesBack
CHECK_DEADLOCK FALSE
