CONSTANTS
    Users = {u1}
    NoUser = NoUser
    Browsers = {b1}
    Workers = {w1, w2}
    MaxTokens = 2
    MaxLapsed = 1
    MaxFaults = 0
SPECIFICATION Spec
INVARIANTS OneSessionPerUser LogoutEndsSessions
PROPERTIES LogoutRevokesToken ExpiredNotRotated
CHECK_DEADLOCK FALSE
