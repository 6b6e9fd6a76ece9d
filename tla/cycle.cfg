SPECIFICATION Scenarios
CONSTANTS
  Promotions = {1, 2, 3}
  Cycles = {1, 2}
  Visitors = {1, 2}
  Services = {api, worker}
  OldRelease = "r0"
  Nothing = "nothing"
  Tag <- MCTag
  Losses = 1
CONSTRAINT Bounds
ACTION_CONSTRAINT StepBounds
SYMMETRY Symmetry
INVARIANTS TypeOK PointerProven ProdWhole NothingForgotten OnlyTestedRuns ToldIsTrue
PROPERTY GreenStays
CHECK_DEADLOCK FALSE
