SPECIFICATION FairSpec
CONSTANTS
  Tabs = {t1, t2}
  Calls = {c1, c2}
  Downloads = {d1}
  None = None
  c1 = c1
  c2 = c2
  t1 = t1
  t2 = t2
  Places <- TwoPlaces
INVARIANTS
  TypeOK
  DownloadIsNotStolen
PROPERTIES
  CausedEventIsSeen
  EveryCallReturns
CHECK_DEADLOCK FALSE
