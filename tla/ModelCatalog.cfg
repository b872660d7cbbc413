\* Two overlapping refreshes, one startup retry, two instants.
SPECIFICATION FairSpec
CONSTANTS
  Refreshes = {r1, r2}
  Starter = r1
  MaxAttempts = 1
  CacheTTL = 1
  MaxNow = 2
INVARIANTS
  TypeOK
  ObserverIsCurrent
PROPERTIES
  ImplementsDirectory
  NoRefreshOnceStopped
  NoRefreshRegressesItsStart
  StartFinishes
  RecoversFromOutage
  StopQuiesces
CHECK_DEADLOCK FALSE
