\* The sidecar with one agent process at a time to restart, beside another host.
SPECIFICATION Spec
CONSTANTS
  Us = us
  Others = {other}
  Teardown = teardown
  Children = {a1, a2}
  None = None
  Gone = Gone
  Unread = Unread
  RestartDelay = 1
  RestartMaxDelay = 1
  MaxConsecutiveCrashes = 2
INVARIANTS
  TypeOK
  CredentialOpensAgent
PROPERTIES
  NoRefreshOnceUnloaded
CHECK_DEADLOCK FALSE
