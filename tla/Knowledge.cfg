SPECIFICATION KnowledgeSpec
CONSTANTS
    e1 = e1
    e2 = e2
    e3 = e3
    m1 = m1
    m2 = m2
    r1 = r1
    d1 = d1
    d2 = d2
    None = none
    Top = 2
    Texts <- SomeTexts
    MaxCaptures = 2
    Packs <- OnePack
    MaxPacks = 1
    MaxCrashes = 1
    Processes = {"server", "worker"}
    Server = "server"
    Janitor = "worker"
    Frictions = {e1, e2, e3}
    Past = {m1, m2}
    Resolutions = {r1}
    By <- SomeOrigins
    Weight <- SomeWeights
    Key <- SomeKeys
    Bridges <- SomeBridges
    MinHistory = 2
    Forgotten = "a"
    Signatures = {s1, s2}
    MaxStaged = 3
    MaxManual = 1
    MaxStops = 2
    Files = {1, 2}
    Conversations = {c1, c2}
    MaxProposals = 2
    MaxApplies = 3
    MaxHandEdits = 1
    Servers = {s1, s2}
    Zones = {"private_self"}
    Corpora <- SomeCorpora
    IndexTtl = 1
    CacheTtl = 2
    Batch = 1
    Slack = 1
    MaxEdits = 2
    Trajectories <- SomeTrajectories
    MaxSteps = 4
    MaxErrors = 1
    MaxRows = 2
    MaxItems = 2
    MaxAppends = 3
    MaxClock = 1
    MaxDeploys = 1
    MaxSnapshots = 2
    MaxTears = 1
    Hops <- SomeHops
    MaxHops = 3
INVARIANTS OneVoice RetiredStaysOut NothingIsForgotten OncePerCandidate
PROPERTIES DecisionsLast
CHECK_DEADLOCK FALSE
