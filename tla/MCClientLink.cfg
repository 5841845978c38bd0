SPECIFICATION Spec
CONSTANTS
    k1 = k1
    Clients <- OneClient
    Keys <- OneKey
    Daemon = daemonTask
    MaxConns = 2
    MaxVersion = 1
    ControlQueue = 2
    WireRoom = 1
INVARIANTS
    NothingIsMissed
    ArrivesInOrder
    NeverStranded
    NoLostRing
CHECK_DEADLOCK FALSE
