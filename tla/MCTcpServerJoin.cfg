SPECIFICATION FairSpec
CONSTANTS
  NumThreads = 1
  MaxConns = 0
  ServerDies = TRUE
PROPERTIES
  DestructorReturns
CHECK_DEADLOCK FALSE
