\* One connection, reset by its peer before it is accepted.
SPECIFICATION Spec
CONSTANTS
  c1 = c1
  c2 = c2
  Conns = {c1}
  PoolSize = 1
  MaxBytes = 0
  SndBuf = 0
  Failing = {}
  Waits = {FALSE}
  NoConn = NoConn
INVARIANTS
  AcceptedIsAlive
CHECK_DEADLOCK FALSE
