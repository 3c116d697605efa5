CONSTANTS
    Keys = {k1, k2}
    Calls = {c1, c2}
    Lengths = {0, 2}
    Buffer = 2
    MaxEdit = 1
    MaxStray = 1
SPECIFICATION Spec
CHECK_DEADLOCK FALSE
SYMMETRY Symmetry
INVARIANTS
    SlotHeld
    Assembled
    WholeMission
