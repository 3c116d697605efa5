CONSTANTS
    Slots = {fleet, telemetry}
    Vehicles = {v1}
    Browsers = {b1, b2}
    Queue = 1
    MaxPub = 3
    MaxLoss = 1
    MaxEpoch = 2
SPECIFICATION FairSpec
CHECK_DEADLOCK FALSE
INVARIANTS
    
    HonestCommands

    
