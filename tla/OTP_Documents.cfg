CONSTANTS
    Workers = {w1, w2}
    MaxAttempts = 3
    Lifetime = 1
    AttemptsKind = "int"
    MaxCodes = 2
    MaxVerifies = 2
    MaxFaults = 0
    MaxClock = 2
SPECIFICATION Spec
PROPERTIES SaveReplaces DeletesWhatItJudged
CHECK_DEADLOCK FALSE
