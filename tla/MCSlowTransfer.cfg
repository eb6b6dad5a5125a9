CONSTANTS
  BufferLimit = 2
  ChunkBytes = 1
  SizeMax = 4
  MaxWrite = 4
  VecCnt = 1
  SendBuf = 1
  StallTimeout = 2
SPECIFICATION SlowSpec
INVARIANT AdvancingNotCutOff
CHECK_DEADLOCK FALSE
