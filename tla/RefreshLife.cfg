SPECIFICATION Spec
CONSTANTS
    Users = {u1}
    Requests = {r1}
    MaxSessions = 2
    AccessLife = 1
    RefreshLife = 3
    MaxTime = 3
    MaxRows = 3
PROPERTY
    RefreshTokensLastTheirLife
