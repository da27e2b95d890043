CONSTANTS
  Conns = {1, 2, 3}
  HeaderLen = 2
  MaxRecord = 3
  MaxApp = 2
  MsgHeader = 2
  MaxHello = 5
  AlpnOrder <- MCAlpnOrder
  MaxPost = 2
  PadFrom = 1
  PadTo = 2
  Assets = {"/"}
  Scenarios <- MCScenarios
SPECIFICATION FairSpec
CHECK_DEADLOCK FALSE
INVARIANT NoneLeft
INVARIANT HandshakeSound
INVARIANT WritesHonest
INVARIANT ReadsHonest
INVARIANT UploadsExact
INVARIANT Routing
PROPERTY ShutsDown
