SPECIFICATION FairSpec
CONSTANTS
    w = w
    r1 = r1
    k1 = k1
    p1 = p1
    p2 = p2
    Servers <- OneOfEach
    Writers <- OneWriter
    Keys <- OneKey
    Pinned <- TwoPinned
    Faults <- BenignFaults
    Retry = 1
    Window = 10
    MaxClock = 2
    MaxEvents = 4
INVARIANTS KeptInSync WriterFresh
PROPERTIES Converges
CHECK_DEADLOCK FALSE
