SPECIFICATION Spec
CONSTANTS
    Tabs = {t1, t2}
    Users = {u1}
    Slots = {1, 2}
    Narrow = {t2}
    MaxClock = 2
    MaxFaults = 1
    MaxEvents = 1
    MaxMoves = 2
    NoUser = NoUser
    NoToken = NoToken
    t1 = t1
    t2 = t2
    u1 = u1
INVARIANT SessionKept
PROPERTY GoneIsGone
CHECK_DEADLOCK FALSE
