SPECIFICATION Spec
CONSTANTS
  m1 = m1
  m2 = m2
  t1 = t1
  Zero = zero
  Bytes <- MCBytes
  kCheapPrepend = 1
  kInitialSize = 2
  Msgs = {}
  Size <- MCSizes
  Threads = {t1}
  HighWaterMark = 2
  Calls <- MCThreadForceCloses
  Servers = {"other"}
  ServerDies = FALSE
  MaxCalls = 0
  MaxHandlers = 3
  MaxIncoming = 0
INVARIANTS
  DownOnce
CHECK_DEADLOCK FALSE
