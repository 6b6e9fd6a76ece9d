CONSTANTS
  Items = {1}
  Junk = {9}
  Apis = {a1, a2}
  Workers = {w1, w2}
  RelayBatch = 1
  ReceiveBatch = 1
  MaxReceive = 2
  MaxFaults = 2
  MaxCopies = 3
  CallsRaise = TRUE
SYMMETRY Symmetry
SPECIFICATION Spec
CHECK_DEADLOCK FALSE
INVARIANTS TypeOK NothingLost DuplicatesNeedFaults PoisonStays
PROPERTY DeliverySpec
CONSTRAINT PoisonAlone
