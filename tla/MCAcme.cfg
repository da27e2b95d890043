CONSTANTS
  Gens = {a, b, c}
  NoGen = NoGen
  RetryInitial = 1
  RetryMax = 3
  Faults = {"accept"}
SPECIFICATION FairSpec
INVARIANT CurrentComplete
PROPERTY IdentityKept
PROPERTY EventuallyReplaced
