CONSTANTS
  Presses = {p1, p2, p3}
  Watchdogs = {}
  Nonces = {n1, n2}
  Ids = {i1}
  NoId = noid
  Kinds = {}
  Cap = 1
  Grace = 1
  TTL = 2
  NonceTTL = 2
  RecordTTL = 2
  LambdaTimeout = 1
  DayLength = 2
  MaxTime = 2
  Configured = TRUE
SYMMETRY Symmetry
SPECIFICATION Spec
CHECK_DEADLOCK FALSE
INVARIANTS RunsWithinCap NonceBuysOneRun SwitchStopsNext
PROPERTY QuotaSpec
