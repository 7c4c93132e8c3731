CONSTANTS
    Callers = {c1, c2}
    Tenants = {t1}
    DefaultNS = DefaultNS
    MaxConns = 1
    MaxDials = 2
SPECIFICATION Spec
INVARIANTS ThreadSafe CloseClosesAll
CHECK_DEADLOCK FALSE
