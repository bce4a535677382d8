SPECIFICATION FairSpec
CONSTANTS
    Daemons = {d1}
    Briefs = {b1, b2}
    Assets = {a1, a2, a3}
    Blocked = {}
    Placeholder = {a3}
    Empty = {a2}
    Mode = "manual_delivery"
    Allowlisted = TRUE
    IterationCap = 3
    MaxChanges = 2
    MaxStagings = 2
    MaxFaults = 2
    None = None
INVARIANTS TypeOK IntentsPrecedeEffects NoReplay OnlyCheckedIsSent
PROPERTIES OrdersGetDelivered
