\* Two callers stop a supervisor of at most two live agents; the fourth crash trips.
SPECIFICATION FairSpec
CONSTANTS
  Callers = {k1, k2}
  Children = {a1, a2}
  None = None
  RestartDelay = 2
  RestartMaxDelay = 6
  MaxConsecutiveCrashes = 4
INVARIANTS
  TypeOK
  NoLostAgent
  NoOrphanOnceStopped
  BackoffMatchesCrashes
PROPERTIES
  NoSpawnOnceStopped
  StopLeavesNothingRunning
  StartSettles
  StopReturns
CHECK_DEADLOCK FALSE
