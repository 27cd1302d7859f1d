SPECIFICATION Spec
CONSTANTS
    AcceptedKinds <- MCAcceptedKinds
    RealtimeFormat = 9
    VolumePolicy = "Unconstrained"
    PolicyVersion = 1
    WarmUp = 1
    Setups <- MCSetups
    Outputs <- MCOutputs
    MaxOrders = 3
INVARIANTS
    FillsAreCausal
    EvidenceSoldOnce
    FillsSettledOnce
    EveryTransitionIsTold
    OrdersEndWithTheirSegment
CHECK_DEADLOCK FALSE
