CONSTANTS
    Users = {u1}
    NoUser = NoUser
    Browsers = {b1, b2}
    Workers = {w1, w2}
    MaxTokens = 3
    MaxLapsed = 1
    MaxFaults = 1
SYMMETRY Symmetry
SPECIFICATION Spec
INVARIANTS RotatedIsDead SessionBound LogoutCutsOff
PROPERTIES DeadStaysDead
CHECK_DEADLOCK FALSE
