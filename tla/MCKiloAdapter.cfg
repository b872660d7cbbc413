SPECIFICATION FairSpec
CONSTANTS
  Scale = 2
  prose = prose
  code = code
  Sessions <- MCSessions
  Levels <- MCLevels
  RawEstimate <- MCRawEstimate
  Injected = 3000
  Density <- MCDensity
  Windows = {16384}
  FallbackWindow = 262144
  Advertised = 14745
  FallbackAdvertised = 32768
  GatewayMax = 524288
  Requests = {0}
  InStaticList = TRUE
INVARIANTS
  TypeOK
  CalibrationInHull
  FitsUnlessDiluted
PROPERTY
  RefusalIsNotForever
