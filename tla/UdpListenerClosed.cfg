\* One connection that the application keeps after it has closed the listener.
SPECIFICATION Spec
CONSTANTS
  p1 = p1
  p2 = p2
  c1 = c1
  c2 = c2
  c3 = c3
  Peers = {p1}
  Conns = {c1}
  MaxDatagrams = 1
  NoConn = NoConn
INVARIANTS
  OutlivesListener
CHECK_DEADLOCK FALSE
