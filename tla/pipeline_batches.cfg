CONSTANTS
  Items = {1, 2}
  Junk = {9}
  Apis = {a1, a2}
  Workers = {w1}
  RelayBatch = 2
  ReceiveBatch = 2
  MaxReceive = 2
  MaxFaults = 1
  MaxCopies = 2
  CallsRaise = TRUE
  Requests = {r1, r2}
  Names = {1, 2, 3}
  Texts = {text}
  MaxId = 3
  Limit = 1
  Null = Null
SYMMETRY Symmetry
SPECIFICATION Scenarios
CHECK_DEADLOCK FALSE
INVARIANTS BatchesHold RequestsTypeOK ErrorMeansGone ScanMissesNothing
PROPERTY OnlySentFields
CONSTRAINT Bounds
