CONSTANTS
    Keys = {k1}
    Callers = {c1}
    Operators = {o1}
    Quarantine = 1
    AckDelay = 0
    Duplicates = TRUE
    MaxTx = 2
    MaxTime = 2
    MaxEpoch = 2
SPECIFICATION Spec
INVARIANTS
    AmbiguityClosesKey
PROPERTIES
    ImplementsGate
