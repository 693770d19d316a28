SPECIFICATION FairSpec
CONSTANTS
  Calls = {k1, k2, k3}
  MaxConns = 2
  None = None
INVARIANTS
  TypeOK
  AnswersMatchOnOneLink
  OneStreamAtATime
PROPERTY EveryCallIsAnswered
CHECK_DEADLOCK FALSE
