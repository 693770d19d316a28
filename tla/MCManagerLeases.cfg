SPECIFICATION Spec
CONSTANTS
  Sessions = {s1, s2}
  Tabs = {t1}
  Browsers = {b1}
  LeaseIds = {l1, l2, l3}
  OpIds = {o1}
  ConfIds = {}
  Calls = {c1}
  Fingerprints = {f1}
  None = None
SYMMETRY LeaseSymmetry
INVARIANTS
  TypeOK
  LeaseHolderIsOpen
  LostLeaseStopsWork
  HookLeaseIsGone
CHECK_DEADLOCK FALSE
