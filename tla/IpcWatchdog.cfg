SPECIFICATION Spec
CONSTANTS
  Chunks <- TwoChunks
  LoopPeriod = 1
  TickPeriod = 2
  Timeout = 2
  MaxRetries = 2
  MaxTime = 6
  TimeModulus = 64
  Punctual = {"robotd", "bridge"}
INVARIANT TypeOK
 
CHECK_DEADLOCK FALSE
