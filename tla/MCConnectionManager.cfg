CONSTANTS
    Profiles = {p1}
    Devices = {d1}
    Vehicles = {v1}
    MaxGen = 2
    MaxOps = 3
    MaxEpoch = 2
SPECIFICATION Spec
CHECK_DEADLOCK FALSE
INVARIANTS
    OneOwner
    StoppedIsSilent
    RetiredInOrder
    HeldIsRecorded
