CONSTANTS
  HeaderLen = 2
  TagLen = 1
  MaxPlain = 3
  MaxLength = 5
  MaxNonce = 2
  UuidLen = 2
  FrameHeader = 2
  MaxFrame = 2
  MinTls = 2
  Packets = 3
  Sources <- MCSources
  Modes = {"plain", "native", "random"}
  Pads = {0, 1}
  MaxRead = 3
  Window = 1
SPECIFICATION FairSpec
CHECK_DEADLOCK FALSE
INVARIANT InOrder
INVARIANT EndHonest
INVARIANT NonceFresh
PROPERTY Flushed
