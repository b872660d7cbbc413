SPECIFICATION Spec
CONSTANTS
  Scale = 4
  prose = prose
  code = code
  Sessions <- MCSessions
  Levels <- MCLevels
  RawEstimate <- MCRawEstimate
  Injected = 0
  Density <- MCDensityHonest
  Windows = {16384}
  FallbackWindow = 262144
  Advertised = 14745
  FallbackAdvertised = 32768
  GatewayMax = 524288
  Requests = {0}
  InStaticList = TRUE
INVARIANT
  PromptAndAnswerFit
