CONSTANTS
  Pushers = {p1, p2}
  Top = 2
  Lens <- MCLens
  MaxPackets = 2
  MaxBytes = 2
  Depth = 1
  Limit = 4
SPECIFICATION FairSpec
CHECK_DEADLOCK FALSE
INVARIANT DrainComplete
INVARIANT Bounded
INVARIANT Accounted
INVARIANT AckedKept
PROPERTY StreamSpec
PROPERTY NobodyStuck
