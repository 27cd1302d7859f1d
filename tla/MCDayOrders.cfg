SPECIFICATION Spec
CONSTANTS
    AcceptedKinds <- MCAcceptedKinds
    RealtimeFormat = 9
    VolumePolicy = "Unconstrained"
    PolicyVersion = 1
    WarmUp = 1
    Setups <- DaySetups
    Outputs <- DayOutputs
    MaxOrders = 2
INVARIANT DayOrdersEndWithTheirDate
CHECK_DEADLOCK FALSE
