\* A handshake is pending when the child is stopped gracefully.
SPECIFICATION FairSpec
CONSTANTS
  Conns = {c1, c2}
  MaxConnections = 2
  HandshakeTimeout = 1
PROPERTY
  HandshakeResolved
CHECK_DEADLOCK FALSE
