SPECIFICATION FairSpec
CONSTANTS
  Sessions = {s1}
  Tabs = {t1}
  Browsers = {b1}
  LeaseIds = {}
  OpIds = {o1}
  ConfIds = {k1}
  Calls = {c1, c2}
  Fingerprints = {f1, f2}
  None = None
INVARIANTS
  ClosedSessionIsQuiet
  OnceWhileRemembered
  ReplayIsFaithful
PROPERTY EveryCallReturns
CHECK_DEADLOCK FALSE
