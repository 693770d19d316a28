SPECIFICATION Spec
CONSTANTS
  Calls = {k1, k2, k3}
  MaxConns = 2
  None = None
INVARIANT AnswerIsItsOwn
CHECK_DEADLOCK FALSE
