\* Two connections with a byte each, blocking calls.
SPECIFICATION FairSpec
CONSTANTS
  c1 = c1
  c2 = c2
  Conns = {c1, c2}
  PoolSize = 2
  MaxBytes = 1
  SndBuf = 0
  Failing = {}
  Waits = {TRUE}
  NoConn = NoConn
PROPERTIES
  HandedOut
  ReadEnds
\* A blocking call may wait for ever, and the model stops at a misuse of lwIP.
CHECK_DEADLOCK FALSE
