SPECIFICATION FairSpec
CONSTANTS
  c1 = c1
  NULL = NULL
  None = None
  Conn = Conn
  Caller = {c1}
  QueueSize = 2
  MinAllocCount = 0
  RrIds = 4
  OwnRrId = 2
  PeerRrId = 1
  Chunk = 4
  BufferMax = 5
  Nested = 2
  Kinds <- Strange
  MaxIn = 3
  MaxOut = 2
INVARIANTS
  TypeOK
  QueuesSound
  OutStream
  InFramed
  HandledOnce
  NoSleepOnWork
  AcceptedHasRrId
PROPERTY AcceptedIsWritten
