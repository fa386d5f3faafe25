SPECIFICATION FairSpec
CONSTANTS
    r1 = r1
    r2 = r2
    r3 = r3
    Requests <- MCRequests
    Limit = 2
    Window = 3
INVARIANTS
    TypeOK
    AdmittedBounded
    ImmortalExplained
PROPERTIES
    AdmittedAgain
