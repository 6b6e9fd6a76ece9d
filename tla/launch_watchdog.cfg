CONSTANTS
  Presses = {p1, p2}
  Watchdogs = {w1}
  Nonces = {p1, p2}
  Ids = {p1, p2, i1}
  NoId = noid
  Kinds = {k1}
  Cap = 1
  Grace = 1
  TTL = 2
  NonceTTL = 9
  RecordTTL = 2
  LambdaTimeout = 0
  DayLength = 2
  MaxTime = 3
  Configured = TRUE
SYMMETRY Symmetry
SPECIFICATION OwnNoncesSpec
CHECK_DEADLOCK FALSE
INVARIANTS BluntOnlyAsked HealthyLeftAlone
CONSTRAINT OnlyPublic
