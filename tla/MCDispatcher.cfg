CONSTANTS
  Sessions = {s1, s2}
  Assocs = {a1, a2}
  NoOne = NoOne
  Users <- MCUsers
  Scenarios <- MCScenarios
  Hellos <- MCHellos
  Tickets = {t1}
  NfsKeys = {k1, k2}
  Ids = {1, 2}
  SinkCap = 1
  InboxCap = 1
  MaxTime = 2
SPECIFICATION FairSpec
CHECK_DEADLOCK FALSE
INVARIANT TypeOK
INVARIANT PermitsExact
INVARIANT AccessExact
INVARIANT FramingKept
PROPERTY TicketsSound
PROPERTY Released
PROPERTY Quiesces
