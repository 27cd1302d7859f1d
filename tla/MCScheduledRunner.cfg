SPECIFICATION Spec
CONSTANTS
    Instruments = {i1}
    Clients = {"c1", "c2"}
    Timers = {t1}
    AuctionPrices = {}
    Times = {}
    MaxOrders = 3
    MaxSnapshots = 0
    MaxEvents = 4
    MaxControls = 6
    Latency = 1
    Duplicates = FALSE
    Origins = {}
    Conditions <- MCConditions
    Books <- MCBooks
    Requests <- MCRequests
    Config <- MCConfig
    Events <- MCEvents
    TimerRequests <- MCTimerRequests
INVARIANTS
    ReleasesFollowCommits
    OnlyExplainedFailures
    SettledWhenDone
    FillsWithinLifetime
PROPERTIES
    RunFinishes
CHECK_DEADLOCK FALSE
