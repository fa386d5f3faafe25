SPECIFICATION Spec
CONSTANTS
    Users = {u1}
    Requests = {r1, r2}
    MaxSessions = 2
    AccessLife = 3
    RefreshLife = 3
    MaxTime = 4
    MaxRows = 4
VIEW WithoutHistory
SYMMETRY RequestSymmetry
INVARIANTS
    TypeOK
    SessionCapUpToConcurrency
    CapInv
    VictimsAreOldest
PROPERTY
    LiveSessionsLeaveForCause
