SPECIFICATION Spec
CONSTANTS
  NumThreads = 1
  MaxConns = 1
  ServerDies = TRUE
INVARIANTS
  DestroyedDisconnected
CHECK_DEADLOCK FALSE
