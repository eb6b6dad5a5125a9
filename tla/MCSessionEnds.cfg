\* One request, with every way the session can end.
SPECIFICATION FairSpec
CONSTANTS
  Sids = {1}
  Bidi = {1}
  ReadBudget = 1
  RecvCap = 1
  MaxErrors = 0
  IdleTimeout = 1
  Grace = 1
  MaxTasks = 1
  MayStop = TRUE
INVARIANTS
  NoUseAfterFree
  WholeRequestDispatched
PROPERTIES
  AbortedIsDestroyed
  StopEndsSession
CHECK_DEADLOCK FALSE
