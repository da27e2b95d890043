CONSTANTS
  Gens = {a, b, c, d}
  NoGen = NoGen
  RetryInitial = 1
  RetryMax = 3
  Faults = {"fsync"}
SPECIFICATION Spec
INVARIANT RenewalPursued
