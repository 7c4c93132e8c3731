CONSTANTS
    Addresses = {a1}
    Users = {u1}
    Handlers = {w1, w2}
    GeneralLimit = 3
    GeneralWindow = 3
    PolicyAttempts = 2
    Window = 3
    TicksPerSecond = 2
    MaxTime = 6
SYMMETRY Symmetry
SPECIFICATION LimitsSpec
INVARIANTS VerifyClearsQuota
CHECK_DEADLOCK FALSE
