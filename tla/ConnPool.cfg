CONSTANTS
    Callers = {c1, c2}
    Tenants = {t1, t2}
    DefaultNS = DefaultNS
    MaxConns = 1
    MaxDials = 3
SPECIFICATION FairSpec
INVARIANTS Exclusive SendNeverBlocks RunsOnce
PROPERTIES RunsInTenant KeepsSlots Served
CHECK_DEADLOCK FALSE
