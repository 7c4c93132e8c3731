CONSTANTS
    Events = {e1, e2, e3}
    NoEvent = NoEvent
    Workers = {w1, w2}
    QueueSize = 2
SPECIFICATION ServerSpec
INVARIANTS OneLinePerRequest LogNeverPanics GracefulShutdown
CHECK_DEADLOCK FALSE
