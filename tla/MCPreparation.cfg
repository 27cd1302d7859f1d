CONSTANTS
    Registry <- MCRegistry
    MaxLatencyMs = 20
    DecimalScale = 2
    Configs <- MCConfigs
    RecordsOf <- MCRecordsOf
    MaxRecords = 3
SPECIFICATION Spec
INVARIANTS
    PlannedRunsAssemble
    SameIdentitySameRun
    TicksHaveOneSession
    TapeOrderIsIrrelevant
    PrintsConserved
    CleanTapesReplay
CHECK_DEADLOCK FALSE
