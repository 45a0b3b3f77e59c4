SPECIFICATION FairSpec
CONSTANTS
  m1 = m1
  m2 = m2
  t1 = t1
  Zero = zero
  Bytes <- MCBytes
  kCheapPrepend = 1
  kInitialSize = 2
  Msgs = {m1}
  Size <- MCTwoByteEach
  Threads = {t1}
  HighWaterMark = 9
  Calls <- MCForceCloseOutside
  Servers = {"same", "other"}
  ServerDies = TRUE
  MaxCalls = 0
  MaxHandlers = 3
  MaxIncoming = 1
PROPERTIES
  ForceCloseCloses
  OrphanIsReleased
CHECK_DEADLOCK FALSE
