CONSTANTS
  a1 = a1 a2 = a2 d1 = d1 d2 = d2 k1 = k1 l1 = l1 l2 = l2 l3 = l3
  Applies = {a1}
  Destroys = {d2}
  Desks = {}
  RunOf <- MCRunOf
  LockIds = {l1, l2}
  Resource = {"db", "group", "role", "policy"}
  Arn <- MCArn
  StateId <- MCStateId
  Config <- MCConfig
  Needs <- MCNeeds
  Rules <- MCRules
  IndexedKinds = {"ec2:subnet"}
  UnindexedKinds = {"iam:role"}
  Dependents <- MCDependents
  Wired <- MCWired
  Indexed <- MCIndexed
  Billable = {"db"}
  Failing = {}
  Restarting = {d2}
  Deaths = 2
SPECIFICATION FairSpec
CHECK_DEADLOCK FALSE
PROPERTY Recovers
