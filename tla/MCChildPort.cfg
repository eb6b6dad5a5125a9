\* Two children and every failure of a start-up step.
SPECIFICATION FairSpec
CONSTANTS
  Children = {k1, k2}
  MayFail = TRUE
INVARIANTS
  SocketDiscipline
  NothingHeld
PROPERTIES
  StopJoins
  PortReacquired
CHECK_DEADLOCK FALSE
