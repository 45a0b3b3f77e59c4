SPECIFICATION FairSpec
CONSTANTS
  m1 = m1
  m2 = m2
  t1 = t1
  Zero = zero
  Bytes <- MCBytes
  kCheapPrepend = 1
  kInitialSize = 2
  Msgs = {m1, m2}
  Size <- MCSizes
  Threads = {t1}
  HighWaterMark = 2
  Calls <- MCSendAndClose
  Servers = {"other"}
  ServerDies = FALSE
  MaxCalls = 1
  MaxHandlers = 3
  MaxIncoming = 2
INVARIANTS
  TypeOK
  WritingIffBuffered
  QuietAfterDown
  DownOnce
  LifetimeSafe
  AssertionsHold
PROPERTIES
  CallbacksWhileUp
  StreamUnlessMoved
  EofCloses
  ClosedIsReleased
CHECK_DEADLOCK FALSE
