SPECIFICATION FairSpec
CONSTANTS
  m1 = m1
  m2 = m2
  t1 = t1
  Zero = zero
  Bytes <- MCBytes
  kCheapPrepend = 1
  kInitialSize = 2
  Msgs = {m1, m2}
  Size <- MCSizes
  Threads = {t1}
  HighWaterMark = 2
  Calls <- MCShutdown
  Servers = {"same"}
  ServerDies = FALSE
  MaxCalls = 2
  MaxHandlers = 3
  MaxIncoming = 1
INVARIANTS
  OwnSendsBeforeFin
PROPERTIES
  StreamUnlessMoved
  ShutdownEnds
CHECK_DEADLOCK FALSE
