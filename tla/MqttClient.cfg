\* Two messages, two packets on their way, a keep-alive of two ticks or none.
SPECIFICATION LiveSpec
CONSTANTS
  KeepAlives = {0, 2}
  Kinds = {"connack", "badLength", "failure"}
  PollGap = 1
  IdWrap = 2
  MaxPubs = 2
  MaxNet = 4
  MaxAge = 4
INVARIANTS
  TypeOK
  InOrder
  ConnMatchesState
  NothingAfterEnd
  PingBalance
  KeptAlive
PROPERTIES
  SessionSpec
  Delivered
