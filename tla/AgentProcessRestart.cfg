\* A crashed agent is restarted until it is ready (it is not).
SPECIFICATION FairSpec
CONSTANTS
  Callers = {k1, k2}
  Children = {a1, a2}
  None = None
  RestartDelay = 2
  RestartMaxDelay = 6
  MaxConsecutiveCrashes = 4
PROPERTY CrashIsRetried
CHECK_DEADLOCK FALSE
