SPECIFICATION MCSpec
CONSTANTS
    a = a
    b = b
    q1 = q1
    q2 = q2
    q3 = q3
    q4 = q4
    Convs = {a, b}
    Requests = {q1, q2, q3, q4}
    ConvOf <- TwoConvs
    Tools = {q4}
    FallsBack = TRUE
    GlobalCap = 1
    ConvCap = 1
    MaxEra = 1
    MaxDeletes = 1
    MaxFaults = 1
    None = none
INVARIANTS TurnsAreWhole LedgerIsExact PruneSparesActive DeletionsOnRecord FallbackWithinCaps
PROPERTIES WorkEnds
CHECK_DEADLOCK FALSE
