SPECIFICATION Spec
CONSTANTS
  a = a
  b = b
  Buffers = {in}
  Bytes <- MCBytes
  Zero = 0
  Chunks <- MCChunks
  kCheapPrepend = 2
  kInitialSize = 2
  ExtraBuf = 2
  MaxSize = 6
PROPERTY ImplementsByteQueue
