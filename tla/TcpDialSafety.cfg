\* One dial in depth: a stream of three bytes, a send buffer of two.
SPECIFICATION Spec
CONSTANTS
  c1 = c1
  c2 = c2
  Conns = {c1}
  PoolSize = 1
  MaxBytes = 3
  SndBuf = 2
  Failing = {"tcp_connect", "tcp_recv", "tcp_output"}
  Waits = {TRUE, FALSE}
  NoConn = NoConn
INVARIANTS
  StreamIntact
  PcbPointerValid
  OpenHasOwner
  WriteCount
\* A blocking read may wait for ever, and the model stops at a misuse of lwIP.
CHECK_DEADLOCK FALSE
