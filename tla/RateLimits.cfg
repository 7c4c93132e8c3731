CONSTANTS
    Addresses = {a1}
    Users = {u1}
    Handlers = {w1, w2}
    GeneralLimit = 2
    GeneralWindow = 2
    PolicyAttempts = 2
    Window = 3
    TicksPerSecond = 2
    MaxTime = 5
SYMMETRY Symmetry
SPECIFICATION LimitsSpec
INVARIANTS LimitsTypeOK GeneralBound RetryAfterHonest FixedBound NoFalseRefusal
CHECK_DEADLOCK FALSE
