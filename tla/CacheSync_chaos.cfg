SPECIFICATION Spec
CONSTANTS
    w = w
    r1 = r1
    k1 = k1
    p1 = p1
    p2 = p2
    Servers <- OneWriter
    Writers <- OneWriter
    Keys <- OnlyKey
    Pinned <- NoFaults
    Faults <- AllFaults
    Retry = 1
    Window = 10
    MaxClock = 1
    MaxEvents = 3
INVARIANTS TaskSound
PROPERTIES LastNeverMovesBack
CHECK_DEADLOCK FALSE
