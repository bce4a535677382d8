SPECIFICATION MCSpec
CONSTANTS
    None = None
    Workers = {w1, w2}
    w1 = w1
    w2 = w2
    Jobs = {r1, n1}
    Reads = {r1}
    Renewable = {r1}
    MaxEnqueues = 2
    MaxRetries = 1
    MaxAttempts = 2
    Budget <- Wrecked
    p1 = p1
    p2 = p2
    ToolZones <- TwoZones
    Reachable = {"public", "localhost"}
    MaxRedirects = 1
    MaxAsked = 4
    Subjects <- SomeProposals
    Proposals = {p1, p2}
    Dispatched <- SomeDispatched
    Days = {0, 1, 200, 400}
    Messages = {m1, m2}
    MaxKeys = 2
    MaxLogins = 2
    MaxTroubles = 1
    Retainable = {c1}
    MaxLoads = 3
    MaxHandlers = 2
    MaxDecisions = 2
    MaxFaults = 1
INVARIANTS TypeOK NonReadAtMostOnce ReportsPerDeath NothingGoesAstray RecordIsTrue PageIsTrue
SYMMETRY WorkerSymmetry
CHECK_DEADLOCK FALSE
