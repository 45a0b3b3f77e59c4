SPECIFICATION Spec
CONSTANTS
  m1 = m1
  m2 = m2
  t1 = t1
  Zero = zero
  Bytes <- MCBytes
  kCheapPrepend = 1
  kInitialSize = 2
  Msgs = {m1}
  Size <- MCSizes
  Threads = {}
  HighWaterMark = 9
  Calls <- MCSendInConnection
  Servers = {"other"}
  ServerDies = FALSE
  MaxCalls = 0
  MaxHandlers = 3
  MaxIncoming = 0
INVARIANTS
  ClosesOnlyOpen
CHECK_DEADLOCK FALSE
