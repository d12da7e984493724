SPECIFICATION Spec
CONSTANTS
  Chunks <- TwoChunks
  LoopPeriod = 1
  TickPeriod = 2
  Timeout = 3
  MaxRetries = 2
  MaxTime = 8
  TimeModulus = 64
  Punctual = {"robotd", "bridge"}
INVARIANT Fresh
CHECK_DEADLOCK FALSE
