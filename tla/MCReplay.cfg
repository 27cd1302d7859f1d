SPECIFICATION FairSpec
CONSTANTS
    AcceptedKinds <- MCAcceptedKinds
    RealtimeFormat = 1
    VolumePolicy = "TradingUnit"
    PolicyVersion = 1
    Universe = {1, 2}
    Plans <- MCPlans
    InitialDate <- MCInitialDate
    DefaultContext <- MCDefaultContext
    Windows <- MCWindows
INVARIANTS
    OrderChecksAgree
    StatesHoldTheirOwnEvents
    VisibleIsCommittedPast
PROPERTIES
    ReplaysInOrder
CHECK_DEADLOCK FALSE
