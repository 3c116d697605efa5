CONSTANTS
    Keys = {k1}
    Callers = {c1, c2}
    Operators = {o1}
    Quarantine = 2
    AckDelay = 1
    Duplicates = FALSE
    MaxTx = 2
    MaxTime = 4
    MaxEpoch = 1
SPECIFICATION FairSpec
INVARIANTS
    TypeOK
    Exclusive
    OwnAnswer
    PendingBeforeTerminal
PROPERTIES
    ArmReturns
    AmbiguityIsPublished
