CONSTANTS
  Presses = {p1, p2, p3}
  Watchdogs = {w1}
  Nonces = {n1, n2, n3}
  Ids = {i1, i2}
  NoId = noid
  Kinds = {k1}
  Cap = 2
  Grace = 1
  TTL = 2
  NonceTTL = 9
  RecordTTL = 2
  LambdaTimeout = 1
  DayLength = 9
  MaxTime = 2
  Configured = TRUE
SYMMETRY Symmetry
SPECIFICATION TwoQuestionsSpec
CHECK_DEADLOCK FALSE
INVARIANTS TypeOK OneLaunchAtATime 
CONSTRAINT TwoQuestions
