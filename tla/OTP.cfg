CONSTANTS
    Workers = {w1, w2}
    MaxAttempts = 3
    Lifetime = 1
    AttemptsKind = "int"
    MaxCodes = 2
    MaxVerifies = 4
    MaxFaults = 1
    MaxClock = 2
SYMMETRY Symmetry
SPECIFICATION Spec
INVARIANTS DeadCodeNeverAccepted CounterCounts SendLeavesACode
PROPERTIES DeadCodesStayDead
CHECK_DEADLOCK FALSE
