SPECIFICATION Spec
CONSTANTS
    Scale = 4
    Limit = 30
    DayLength = 3
    InitialCash = 20
    MaxFills = 4
    MaxCharges = 3
    Quantum <- MCQuantum
    ConfigLists <- MCConfigLists
    Fills <- MCFills
    ChargeLists <- MCChargeLists
INVARIANTS
    CashIsExplained
    ChargesAreWholeBatches
    DayTradeTaxIsFifo
    MarkedEquityReconciles
CHECK_DEADLOCK FALSE
