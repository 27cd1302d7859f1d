SPECIFICATION Spec
CONSTANTS
    Instrument = "i1"
    Date = 1
    AcceptedKinds <- MCAcceptedKinds
    RealtimeFormat = 1
    VolumePolicy = "TradingUnit"
    PolicyVersion = 1
    Events <- MCEvents
    Kept <- MCKept
    Schedule <- MCSchedule
    MaxEvents = 3
    MaxProposals = 1
INVARIANTS
    FirmFieldsComeFromLastObservation
    VolumeNeverFallsWithinSegment
    EvidenceIsOfThisRound
    NoLostUpdate
CHECK_DEADLOCK FALSE
