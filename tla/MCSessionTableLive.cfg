CONSTANTS
  i1 = i1
  i2 = i2
  h1 = h1
  h2 = h2
  Ids = {i1, i2}
  Shards = {h1, h2}
  ShardOf <- TwoShards
  Sessions = {s1, s2}
  Posts = {p1}
  Gets = {g1}
  MaxSessions = 1
  NoSession = NoSession
  NoId = NoId
SPECIFICATION FairSpec
PROPERTY EventuallyClaimedOrRemoved
PROPERTY CapacityReturns
