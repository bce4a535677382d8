SPECIFICATION MessagesSpec
CONSTANTS
    Mail <- Resent
    Agents <- Two
    NoFilter = "op"
    MaxLimit = 2
    MaxFaults = 2
    r1 = r1
    r2 = r2
    d1 = d1
    d2 = d2
    good = good
    bad = bad
    none = none
INVARIANTS MailIsKept NothingIsPassedOver RepeatsNeedFaults
PROPERTIES AckedByHolder EverythingIsDealtWith
CHECK_DEADLOCK FALSE
