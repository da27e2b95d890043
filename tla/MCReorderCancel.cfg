CONSTANTS
  Pushers = {p1, p2}
  Top = 2
  Lens <- MCLens
  MaxPackets = 1
  MaxBytes = 0
  Depth = 1
  Limit = 0
SPECIFICATION Spec
CHECK_DEADLOCK FALSE
SYMMETRY Symm
INVARIANT AcceptedKept
