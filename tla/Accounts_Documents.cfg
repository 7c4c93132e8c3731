CONSTANTS
    Callers = {c1, c2}
    Users = {u1, u2}
    NoUser = NoUser
    Emails = {e1}
    NoEmail = NoEmail
    Random = Random
    OwnDek = OwnDek
    NoDek = NoDek
    MaxFaults = 1
SPECIFICATION Spec
INVARIANTS Readable ErasedStatus
PROPERTIES LockStays
CHECK_DEADLOCK FALSE
