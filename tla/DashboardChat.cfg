SPECIFICATION Spec
CONSTANTS
    Messages = {m1, m2}
    MaxKeys = 3
    MaxLogins = 2
    MaxTroubles = 1
INVARIANT ChatGetsThrough
CHECK_DEADLOCK FALSE
