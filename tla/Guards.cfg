SPECIFICATION GuardsSpec
CONSTANTS
    Checkpoints = {c1, c2}
    Payloads = {wanted, modified}
    Budget <- Each
    Requests <- SomeRequests
    Age = 2
    Capacity = 2
    Calls = {one, two}
    Threshold = 2
    Successes = 2
    Cooldown = 2
    MaxReports = 6
    Horizon = 9
    Keys = {k1, k2}
    Window = 3
    RateLimit = 1
    BudgetCapacity = 4
    Cost = 2
    QuotaHorizon = 7
    MaxAsked = 4
    Sessions = {s1, s2}
    RequestLimit = 1
    SessionLimit = 2
    HourLimit = 3
    MaxCost = 1
    Hour = 2
    CostHorizon = 4
    MaxResets = 1
    Actions = {one, two}
    MaxSteps = 6
    MaxIdentical = 3
    MaxStagnant = 4
    WatchHorizon = 8
    Evidence <- SomeRoutes
    RouteHorizon = 3
    Conversations = {one, two}
    Configs <- SomeEnvironments
    Messages <- SomeMessages
    Limit = 1
    Steps = {one, two}
    Artifacts = {k1, k2}
    Needs <- SomeNeeds
    Leaves <- SomeLeaves
    NoopThreshold = 2
    MaxResults = 3
    one = one
    two = two
    k1 = k1
    k2 = k2
    None = none
SYMMETRY Symmetry
INVARIANTS VerdictsNeedFaults BoundaryHolds LimitsHold
PROPERTIES WaitsAreKept
CHECK_DEADLOCK FALSE
