SPECIFICATION Spec
CONSTANTS
  loop = loop
  repl = repl
  Callers = {loop, repl}
  Owner = repl
  MaxCalls = 2
  MaxConns = 2
INVARIANT CloseStopsReader
CHECK_DEADLOCK FALSE
