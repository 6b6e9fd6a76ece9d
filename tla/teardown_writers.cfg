CONSTANTS
  a1 = a1 a2 = a2 d1 = d1 d2 = d2 k1 = k1 l1 = l1 l2 = l2 l3 = l3
  Applies = {a1, a2}
  Destroys = {d1, d2}
  Desks = {k1}
  RunOf <- MCRunOf
  LockIds = {l1, l2, l3}
  Resource = {"db", "role", "policy", "vpc1", "vpc2"}
  Arn <- MCArn
  StateId <- MCStateId
  Config <- MCConfig
  Needs <- MCNeeds
  Rules <- MCRules
  IndexedKinds = {"ec2:subnet"}
  UnindexedKinds = {"iam:role"}
  Dependents <- MCDependents
  Wired <- MCWired
  Indexed <- MCIndexed
  Billable = {"db"}
  Failing = {"runs"}
  Restarting = {d1, d2}
  Deaths = 2
SYMMETRY Symmetry
SPECIFICATION Scenarios
CHECK_DEADLOCK FALSE
INVARIANTS OneWriter GreenHolds
CONSTRAINT Bounds
ACTION_CONSTRAINT StepBounds
