CONSTANTS
    Queue = 2
    BatchSize = 2
    MaxEvents = 2
    MaxFailures = 2
    MaxRecordings = 1
    DbFails = FALSE
    MaxId = 2
    MaxSeq = 3
    MaxOps = 3
    MaxEpoch = 1
SPECIFICATION Spec
CHECK_DEADLOCK FALSE
INVARIANTS
    ActiveCanBeStopped
