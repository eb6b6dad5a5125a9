\* A worker and a wakeup socket with room for two datagrams of which a drain
\* takes one; two peers and batches of up to two datagrams.
SPECIFICATION LoopFairSpec
CONSTANTS
  Peers = {a, b}
  NoAddr = NoAddr
  Batch = 2
  MaxDatagrams = 2
  Workers = {w}
  Room = 2
  DrainMax = 1
  Second = 2
  Ms = 2
INVARIANTS
  AttributedToSender
  InOrder
  SleepsOnlyIdle
  TimersKept
PROPERTIES
  WorkIsServed
CHECK_DEADLOCK FALSE
