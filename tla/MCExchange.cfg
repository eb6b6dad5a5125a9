\* Requests of up to 4 bytes where 3 are allowed, answers of up to 3 where 2 are.
SPECIFICATION Spec
CONSTANTS
  LimitRequestFields = 1
  MaxRequestBodySize = 3
  BlockedStreams = 1
  InitCap = 1
  MaxData = 2
  MaxBytes = 4
  MaxFields = 2
  NewLines = {2}
  MaxResponseBodySize = 2
  NvaCap = 3
  Answers <- MCAnswers
  Listed = {"X-Listed"}
  MaxOut = 3
INVARIANTS
  BufferFits
  ServedWhole
  LimitsDecide
  ReadsInOrder
  CaptureFits
  AnswerIsWhole
  LengthAgrees
PROPERTIES
  UsesPipe
CHECK_DEADLOCK FALSE
