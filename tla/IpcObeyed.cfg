SPECIFICATION Spec
CONSTANTS
  Chunks <- TwoChunks
  LoopPeriod = 2
  TickPeriod = 3
  Timeout = 3
  MaxRetries = 2
  MaxTime = 6
  TimeModulus = 64
  Punctual = {"robotd", "bridge"}
PROPERTY FreshCommandIsObeyed
CHECK_DEADLOCK FALSE
