\* A request and a stream that is not one, both of which keep sending, a budget
\* of one read and up to two tasks; the child keeps running.
SPECIFICATION ThreadSpec
CONSTANTS
  Sids = {1, 2}
  Bidi = {1}
  ReadBudget = 1
  RecvCap = 1
  MaxErrors = 0
  IdleTimeout = 0
  Grace = 0
  MaxTasks = 2
  MayStop = FALSE
INVARIANTS
  OneWorkerPerStream
  QstreamOwnedOnce
  BlockedCounted
PROPERTIES
  FinIsProcessed
CHECK_DEADLOCK FALSE
