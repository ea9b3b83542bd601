SPECIFICATION Spec
CONSTANTS
  c1 = c1
  NULL = NULL
  None = None
  Conn = Conn
  Caller = {c1}
  QueueSize = 2
  MinAllocCount = 0
  RrIds = 3
  OwnRrId = 0
  PeerRrId = 0
  Chunk = 3
  BufferMax = 4
  Nested = 2
  Kinds <- Good
  MaxIn = 2
  MaxOut = 2
INVARIANT DispatchMatches
