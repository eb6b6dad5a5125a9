\* A response may be queued between the last flush and the idle check.
SPECIFICATION Spec
CONSTANTS
  Sids = {1}
  Bidi = {1}
  ReadBudget = 2
  RecvCap = 1
  MaxErrors = 1
  IdleTimeout = 1
  Grace = 1
  MaxTasks = 2
  MayStop = TRUE
PROPERTIES
  IdleKeepsResponses
CHECK_DEADLOCK FALSE
