CONSTANTS
    Workers = {w1, w2}
    MaxAttempts = 3
    Lifetime = 1
    AttemptsKind = "int"
    MaxCodes = 1
    MaxVerifies = 2
    MaxFaults = 0
    MaxClock = 2
SPECIFICATION Spec
INVARIANT SingleUse
CHECK_DEADLOCK FALSE
