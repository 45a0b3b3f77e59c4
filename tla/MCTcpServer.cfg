SPECIFICATION FairSpec
CONSTANTS
  NumThreads = 2
  MaxConns = 2
  ServerDies = TRUE
INVARIANTS
  TypeOK
  FairRotation
  LoopsExist
  CallbacksOnce
  AssertionsHold
  ClosedUnlessLoopQuit
  NoDanglingChannel
PROPERTIES
  QuitEndsThread
  ServerDrains
CHECK_DEADLOCK FALSE
