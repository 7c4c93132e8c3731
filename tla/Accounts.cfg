CONSTANTS
    Callers = {c1, c2}
    Users = {u1, u2}
    NoUser = NoUser
    Emails = {e1, e2}
    NoEmail = NoEmail
    Random = Random
    OwnDek = OwnDek
    NoDek = NoDek
    MaxFaults = 1
SYMMETRY Symmetry
SPECIFICATION Spec
INVARIANTS ShreddedForGood KeyKept
CHECK_DEADLOCK FALSE
