SPECIFICATION Spec
CONSTANTS
    Daemons = {d1}
    Briefs = {b1, b2}
    Assets = {a1}
    Blocked = {}
    Placeholder = {}
    Empty = {}
    Mode = "manual_delivery"
    Allowlisted = TRUE
    IterationCap = 3
    MaxChanges = 1
    MaxStagings = 1
    MaxFaults = 1
    None = None
INVARIANTS OneDelivery
