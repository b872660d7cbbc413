SPECIFICATION Spec
CONSTANTS
  a = a
  b = b
  c = c
  k = k
  z1 = z1
  z2 = z2
  k1 = k1
  none = none
  Ids <- MCIds
  NoId = none
  FreeNames = {}
  ZenFreeNames = {a, b, c}
  Routers = {k}
  Statics <- MCStatics
  Candidates <- MCNoCandidates
  VisionIds = {}
  Limits = {0, 1, 4, 5, 6, 8, 16}
  DefaultWindow = 32
  DefaultMax = 8
  GatewayMax <- MCGatewayMax
  RequireTools = TRUE
  Slots <- MCSlots
  LaneOf <- MCLaneOf
  Listings <- MCListings
  Documents <- MCDocuments
  Cached <- MCCached
  Known = {a, k}
  MaxRetries = 1
INVARIANTS
  TypeOK
  DescribedAtRest
PROPERTIES
  EnrichmentIsAdditive
  KnownWindowIsUsed
  DescriptionsArrive
  UnloadQuiesces
CHECK_DEADLOCK FALSE
