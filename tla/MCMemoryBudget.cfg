CONSTANTS
  Callers = {c1, c2, c3}
  Sizes <- MCSizes
  Limits <- MCLimits
  Top = 4
SPECIFICATION Spec
INVARIANT ExactAccounting
PROPERTY AtomicSpec
