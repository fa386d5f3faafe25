SPECIFICATION FairSpec
CONSTANTS
    Requests = {r1}
    Spellings = {lower, mixed}
    Lower = lower
    Wait = 2
    Life = 9
    Prompt = TRUE
    MaxUsers = 1
PROPERTY
    EventuallyVerified
