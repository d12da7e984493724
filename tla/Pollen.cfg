SPECIFICATION FairSpec
CONSTANTS
  loop = loop
  repl = repl
  Callers = {loop, repl}
  Owner = repl
  MaxCalls = 2
  MaxConns = 1
INVARIANT TypeOK
INVARIANT WaitersAreReachable
INVARIANT WokenMeansAnswered
INVARIANT AnswersAreTaken
PROPERTY ImplementsRpc
 
CHECK_DEADLOCK FALSE
