SPECIFICATION Spec
CONSTANTS
  MaxRequests = 3
  Details = {on, off}
  First = on
  Rank <- MCRank
  PageSize = 1
  on = on
  Configs = {conf}
  Gone = Gone
  TTL = 1
  Processes = {w1, w2}
  SecretNames = {s}
  ApiKeys = {k}
  Empty = Empty
  EnvValue = Empty
INVARIANTS
  WorkersTypeOK
  CacheCoherent
  SecretKept
  ClearForgets
PROPERTY
  StaleEnds
CHECK_DEADLOCK FALSE
