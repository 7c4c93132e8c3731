CONSTANTS
    Users = {u1, u2}
    Keys = {k1, k2}
    Handles = {h1, h2}
    Challenges = {c1, c2, c3, c4}
    Workers = {w1, w2}
    None = None
    MaxSigns = 2
    MaxFaults = 1
SYMMETRY Symmetry
SPECIFICATION Spec
INVARIANTS SessionOfOwner DeletedForGood KeyMatchesHandle RegistrationLeavesAKey CountNotAhead
PROPERTIES KeepsTickets
CHECK_DEADLOCK FALSE
