SPECIFICATION Spec
CONSTANTS
  a = a
  b = b
  Buffers = {in, out}
  Bytes <- MCBytes
  Zero = 0
  Chunks <- MCChunksTwo
  kCheapPrepend = 1
  kInitialSize = 2
  ExtraBuf = 1
  MaxSize = 4
INVARIANTS TypeOK IndicesInOrder RoomAfterEnsure
PROPERTIES InOrder QueueUnlessMoved
SYMMETRY MCSymmetry
