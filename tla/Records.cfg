SPECIFICATION RecordsSpec
CONSTANTS
    Steps = 2
    MaxRetries = 2
    MaxFaults = 2
    Owners = {w1, w2}
    Keys = {k1, k2}
    Idems = {i1, i2}
    Fingerprints = {f1, f2}
    Requests <- SomeRequests
    MaxFailures = 1
    MaxBreakdowns = 2
    Workers = {w1, w2}
    Jobs = {1, 2}
    Reads = {1}
    Keyed = {1}
    MaxReschedules = 1
    MaxTroubles = 2
    Runs = {w1, w2, w3}
    Roles = {r1, r2}
    Required = {r1}
    MaxReviewers = 2
    Harnesses = {h1}
    Answers <- SomeAnswers
    MinReviews = 2
    MaxCycles = 2
    RequireDisagreement = TRUE
    FailFast = TRUE
    MaxMishaps = 1
    w1 = w1
    w2 = w2
    w3 = w3
    k1 = k1
    k2 = k2
    i1 = i1
    i2 = i2
    f1 = f1
    f2 = f2
    None = none
INVARIANTS PhasesInOrder RepeatsNeedFaults WorkIsAccounted
PROPERTIES AllEndsAreFinal AllWorkEnds
CHECK_DEADLOCK FALSE
