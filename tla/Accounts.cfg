SPECIFICATION Spec
CONSTANTS
    Requests = {r1, r2}
    Spellings = {lower, mixed}
    Lower = lower
    Wait = 1
    Life = 1
    Prompt = FALSE
    MaxUsers = 2
SYMMETRY RequestSymmetry
INVARIANTS
    TypeOK
    TwinsExplained
    UnusedBounded
