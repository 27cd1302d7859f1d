SPECIFICATION Spec
CONSTANTS
    Instruments = {i1}
    Clients = {"c1", "c2"}
    Timers = {t1}
    AuctionPrices = {}
    Times = {}
    MaxOrders = 1
    MaxSnapshots = 0
    MaxEvents = 3
    MaxControls = 6
    Latency = 3
    Duplicates = FALSE
    Origins = {}
    Conditions <- MCConditions
    Books <- MCBooks
    Requests <- SweepRequests
    Config <- MCConfig
    Events <- LaggedEvents
    TimerRequests <- NoTimers
INVARIANTS
    NoLookAhead
CHECK_DEADLOCK FALSE
