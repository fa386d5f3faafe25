SPECIFICATION FairSpec
CONSTANTS
    Requests = {r1, r2, r3}
    TTL = 2
    MayFail = TRUE
    MaxChanges = 2
INVARIANTS
    TypeOK
    CoherenceInv
    StaleDecisionsExplained
PROPERTIES
    RolesConverge
    KeepsPromise
