\* Two messages, the lengths at the bounds of their one to four bytes; the packets to
\* encode and to parse of MCMqttFrame.
SPECIFICATION Spec
CONSTANTS
  Half = 4
  Messages <- MCMessages
  Controls <- MCControls
  Broken <- MCBroken
  Samples <- MCSamples
  Wires <- MCWires
  MaxSent = 2
  MaxNet = 1
INVARIANTS
  RoundTrip
  Canonical
  ReadersAgree
  InOrder
CHECK_DEADLOCK FALSE
