SPECIFICATION Scenarios
CONSTANTS
  Topology <- MCTopology
  Base <- MCBase
  Kind <- MCKind
  CostModel <- MCCostModel
  Prices <- MCPrices
  Shape <- MCShape
  HoursPerMonth = 730
  Environment = "stage"
  Resources = {"lb", "tg", "db"}
  DataSources = {"secret"}
  Replaceable = {"tg"}
  Metered = {}
  AlbFirst = {"lb"}
  Killable = {"apply", "destroy"}
  Lossy = FALSE
  MaxApplies = 1
  MaxDestroys = 1
  Watched = TRUE
CHECK_DEADLOCK FALSE
INVARIANTS BandsHold  
PROPERTY MeasuredIsStable
ACTION_CONSTRAINT StepBounds
