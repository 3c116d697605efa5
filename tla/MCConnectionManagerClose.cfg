CONSTANTS
    Profiles = {}
    Devices = {d1, d2}
    Vehicles = {v1}
    MaxGen = 2
    MaxOps = 2
    MaxEpoch = 1
SPECIFICATION FairSpec
CHECK_DEADLOCK FALSE
PROPERTIES
    CloseReturns
