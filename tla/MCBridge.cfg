CONSTANTS
    Keys = {autopilot, gimbal}
    Autopilots = {autopilot}
    Links = {l1, l2}
    TTL = 1
    MaxTime = 4
SPECIFICATION Spec
CHECK_DEADLOCK FALSE
SYMMETRY Symmetry
INVARIANTS
    ShownAsHeld
    RoutesFollowLinks
    AskedUnlessThrottled
