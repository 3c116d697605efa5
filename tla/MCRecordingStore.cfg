CONSTANTS
    Queue = 2
    BatchSize = 2
    MaxEvents = 2
    MaxFailures = 2
    MaxRecordings = 1
    DbFails = TRUE
    MaxId = 2
    MaxSeq = 2
    MaxOps = 3
    MaxEpoch = 2
SPECIFICATION Spec
CHECK_DEADLOCK FALSE
INVARIANTS
    Ordered
    Accounted
    StopIsComplete
PROPERTIES
    EndedIsFinal
