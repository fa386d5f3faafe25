SPECIFICATION Spec
CONSTANTS
    Users = {u1, u2}
    Requests = {r1, r2}
    MaxSessions = 1
    AccessLife = 1
    RefreshLife = 1
    MaxTime = 2
    MaxRows = 3
VIEW RelevantHistory
SYMMETRY FullSymmetry
INVARIANTS
    RefreshTargetsOwnUser
    OneSessionPerLogin
    LogoutIsFinal
