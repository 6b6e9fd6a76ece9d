CONSTANTS
    None = None
    Root = "-"
    WorkflowFiles = {"cycle", "teardown"}
    JobKeys = {"up", "down", "other"}
    StepNames = {"apply", "destroy"}
    Targets = {"gates", "gates-check", "page-check", "image-scan"}
    GateLike = {"gates-check", "page-check"}
    Runner = "gates"
    Checker = "gates-check"
    Capabilities = {"docker", "app"}
    Kinds = {"db", "nat"}
    Captures = 2
    DataFiles = {"stub"}
    Refresh = "refresh"
    MaxCopies = 2
    Runs = 2
    Levels <- MCLevels
    CycleLevels <- MCCycleLevels
    KindOf <- MCKindOf
    Groups <- MCGroups
    Calls <- MCCalls
    Blocks <- MCBlocks
    MayAssign <- MCMayAssign
    Bindings <- MCBindings
    MayName <- MCMayName
    Repos <- MCRepos
    Attempts <- MCAttempts
    CiLines <- MCCiLines
    Entries <- MCEntries
    Sizes <- MCSizes
    MayDeclare <- MCMayDeclare
    MayCall <- MCMayCall
    MayList <- MCMayList
    Modules <- MCModules
    Components <- MCComponents
    Queries <- MCQueries
    Offers <- MCOffers
    TextFiles <- MCTextFiles
    Slips <- MCSlips
SPECIFICATION Spec
INVARIANTS MapHolds PulseHolds VerdictsHold GatesHold RatesHold MigrationHolds
