CONSTANTS
    Events = {e1, e2, e3}
    NoEvent = NoEvent
    Workers = {w1, w2}
    QueueSize = 2
SPECIFICATION ServerSpec
INVARIANTS WrittenThroughOpenPool
PROPERTIES KeepsTrail SettledUnlessFatal SignalEnds
CHECK_DEADLOCK FALSE
