\* Three connections, room for two.
SPECIFICATION FairSpec
CONSTANTS
  Conns = {c1, c2, c3}
  MaxConnections = 2
  HandshakeTimeout = 1
INVARIANTS
  NotesBalanced
  ConnOwnedOnce
  EverySessionServed
PROPERTIES
  StopReturns
  ServingResolvesHandshake
CHECK_DEADLOCK FALSE
