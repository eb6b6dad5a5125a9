CONSTANTS
  BufferLimit = 2
  ChunkBytes = 1
  SizeMax = 4
  MaxWrite = 4
  VecCnt = 1
  SendBuf = 1
  StallTimeout = 1
SPECIFICATION Spec
INVARIANT AbandonedNotConcluded
CHECK_DEADLOCK FALSE
