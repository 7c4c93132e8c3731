CONSTANTS
    Workers = {w1}
    MaxAttempts = 3
    Lifetime = 1
    AttemptsKind = "int"
    MaxCodes = 1
    MaxVerifies = 4
    MaxFaults = 0
    MaxClock = 2
SPECIFICATION Spec
INVARIANT AttemptLimit
CHECK_DEADLOCK FALSE
