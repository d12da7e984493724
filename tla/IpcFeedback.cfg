SPECIFICATION FairSpec
CONSTANTS
  Chunks <- TwoChunks
  LoopPeriod = 1
  TickPeriod = 2
  Timeout = 2
  MaxRetries = 2
  MaxTime = 3
  TimeModulus = 64
  Punctual = {}
PROPERTY BridgeReturns
CHECK_DEADLOCK FALSE
