CONSTANTS
    Queue = 2
    BatchSize = 2
    MaxEvents = 2
    MaxFailures = 2
    MaxRecordings = 1
    DbFails = FALSE
    MaxId = 2
    MaxSeq = 4
    MaxOps = 2
    MaxEpoch = 1
SPECIFICATION FairSelectSpec
CHECK_DEADLOCK FALSE
INVARIANTS
    LimitHolds
PROPERTIES
    DurationEnds
    CloseEnds
