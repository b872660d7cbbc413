\* Two exits, one request beside the model refresh, cooldowns of 1 and 2 ticks.
SPECIFICATION FairSpec
CONSTANTS
  NodeCount = 2
  Requests = {q1}
  Refresher = refresher
  Cooldown = 1
  MaxDoublings = 1
  RetryAfters = {0, 2}
INVARIANTS
  TypeOK
  NoExitPassedOver
PROPERTIES
  RequestEnds
  CooldownEnds
