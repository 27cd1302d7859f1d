SPECIFICATION SimSpec
CONSTANTS
    Instruments = {i1}
    Clients = {"c1", "c2", "c3"}
    AuctionPrices = {3, 4}
    Times = {0, 1}
    MaxOrders = 3
    MaxSnapshots = 2
    Origins <- MCOrigins
    Conditions <- MCConditions
    Books <- MCBooks
    Requests <- MCRequests
    Config <- MCConfig
INVARIANTS
    ConsumedWithinDisplayed
    DepthSoldOnce
    StatusMatchesFilled
    OneLiveOrderPerClient
    ActivationFollowsAcceptance
PROPERTIES
    OrdersOnlyAdvance
CHECK_DEADLOCK FALSE
