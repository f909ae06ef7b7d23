\* Two peers, three connection objects, two datagrams per flow.
SPECIFICATION Spec
CONSTANTS
  p1 = p1
  p2 = p2
  c1 = c1
  c2 = c2
  c3 = c3
  Peers = {p1, p2}
  Conns = {c1, c2, c3}
  MaxDatagrams = 2
  NoConn = NoConn
SYMMETRY Symmetry
INVARIANTS
  TypeOK
  OneConnPerPeer
  PendingOnce
  InOrder
PROPERTIES
  FlowsSpec
\* The objects run out, and the model stops at a use of freed memory.
CHECK_DEADLOCK FALSE
