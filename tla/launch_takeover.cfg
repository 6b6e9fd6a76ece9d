CONSTANTS
  Presses = {p1, p2}
  Watchdogs = {w1}
  Nonces = {p1, p2}
  Ids = {p1, p2}
  NoId = noid
  Kinds = {k1}
  Cap = 2
  Grace = 1
  TTL = 2
  NonceTTL = 9
  RecordTTL = 2
  LambdaTimeout = 0
  DayLength = 9
  MaxTime = 3
  Configured = TRUE
SYMMETRY Symmetry
SPECIFICATION OwnPagesSpec
CHECK_DEADLOCK FALSE
INVARIANT WatchdogKeepsLiveLocks
CONSTRAINT OnlyPublic
