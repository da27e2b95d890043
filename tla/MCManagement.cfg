CONSTANTS
  v1 = v1
  v2 = v2
  plain = plain
  tls = tls
  broken = broken
  Versions = {v1, v2}
  Configs = {plain, tls, broken}
  Parsed = {plain, tls}
  Manual = {tls}
  Supported <- MCSupported
  Idents = {t1}
  Sites = {s1}
  Empty = Empty
  None = None
  MaxCommands = 3
SPECIFICATION Spec
CHECK_DEADLOCK FALSE
INVARIANT TypeOK
INVARIANT Reports
INVARIANT Recoverable
PROPERTY ConfigReplaced
