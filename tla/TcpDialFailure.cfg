\* One dial that the peer refuses.
SPECIFICATION Spec
CONSTANTS
  c1 = c1
  c2 = c2
  Conns = {c1}
  PoolSize = 1
  MaxBytes = 0
  SndBuf = 0
  Failing = {}
  Waits = {FALSE}
  NoConn = NoConn
INVARIANTS
  DialFailureIsError
CHECK_DEADLOCK FALSE
