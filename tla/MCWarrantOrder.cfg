CONSTANTS
    Registry <- MCRegistry
    MaxLatencyMs = 20
    DecimalScale = 2
    Configs <- WarrantConfigs
    RecordsOf <- MCRecordsOf
    MaxRecords = 3
SPECIFICATION Spec
INVARIANT CleanTapesReplay
CHECK_DEADLOCK FALSE
