\* The comment on the cache fallback, against overlapping refreshes.
SPECIFICATION Spec
CONSTANTS
  Refreshes = {r1, r2}
  Starter = r1
  MaxAttempts = 1
  CacheTTL = 1
  MaxNow = 3
PROPERTY
  CacheNeverReplacesNewer
CHECK_DEADLOCK FALSE
