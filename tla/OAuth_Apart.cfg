CONSTANTS
    Browsers = {b1, b2}
    Identities = {i1, i2}
    NoUser = NoUser
    Unlinked = Unlinked
    Workers = {w1, w2}
    MaxStates = 3
    MaxRestarts = 1
    MaxFaults = 1
SYMMETRY Symmetry
SPECIFICATION Spec
INVARIANTS IdentitiesKeepApart
CHECK_DEADLOCK FALSE
