\* Two connections, two pcbs, peer streams of two bytes, no writes.
SPECIFICATION Spec
CONSTANTS
  c1 = c1
  c2 = c2
  Conns = {c1, c2}
  PoolSize = 2
  MaxBytes = 2
  SndBuf = 0
  Failing = {}
  Waits = {FALSE}
  NoConn = NoConn
SYMMETRY Symmetry
INVARIANTS
  TypeOK
  HandoverFifo
  PendingUnattached
  PcbPointerValid
  OpenHasOwner
  StreamIntact
  EofAfterData
PROPERTIES
  ErrorIsFinal
\* The connections run out, and the model stops at a misuse of lwIP.
CHECK_DEADLOCK FALSE
