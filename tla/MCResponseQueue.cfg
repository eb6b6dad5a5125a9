CONSTANTS
  BufferLimit = 2
  ChunkBytes = 2
  SizeMax = 3
  MaxWrite = 3
  VecCnt = 1
  SendBuf = 1
  StallTimeout = 1
SPECIFICATION FairSpec
INVARIANTS
  BufferAccounting
  LiveVectors
  NoMissedWakeup
PROPERTIES
  
  ImplementsPipe
  ProducerReleased
  CompletedIsEnded
CHECK_DEADLOCK FALSE
