\* The route comes to lead to the running agent (it does not).
SPECIFICATION FairSpec
CONSTANTS
  Us = us
  Others = {}
  Teardown = teardown
  Children = {a1, a2}
  None = None
  Gone = Gone
  Unread = Unread
  RestartDelay = 1
  RestartMaxDelay = 1
  MaxConsecutiveCrashes = 2
CHECK_DEADLOCK FALSE
PROPERTY RouteReflectsAgent
