SPECIFICATION FairSpec
CONSTANTS
    Jobs = {j1, j2}
    None = None
    Retriable = {j1}
INVARIANTS
    TypeOK
    SentOncePerTry
    CompletedWasSent
    GracefulExit
PROPERTY
    KeepsPromise
