CONSTANTS
  Items = {1}
  Junk = {}
  Apis = {a1}
  Workers = {w1, w2}
  RelayBatch = 1
  ReceiveBatch = 1
  MaxReceive = 2
  MaxFaults = 2
  MaxCopies = 3
  CallsRaise = FALSE
SPECIFICATION FairSpec
CHECK_DEADLOCK FALSE
PROPERTY EveryItemSettles
