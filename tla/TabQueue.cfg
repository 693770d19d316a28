SPECIFICATION FairSpec
CONSTANTS
  Requests = {r1, r2, r3}
  NoRequest = NoRequest
  MaxGeneration = 2
INVARIANTS
  TypeOK
  SlotHeldOnce
  RevocationReaches
  OnlyRevokedAreCancelled
  ReadyClosedOnce
  IInv
PROPERTIES
  EveryRunReturns
  ImplementsSerialExecutor
CHECK_DEADLOCK FALSE
