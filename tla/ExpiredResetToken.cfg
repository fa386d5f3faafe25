SPECIFICATION Spec
CONSTANTS
    Requests = {r1}
    ResetLife = 1
    MaxTime = 3
    MaxPasswords = 2
PROPERTY
    ExpiredTokensRefused
