SPECIFICATION Spec
CONSTANTS
    Requests = {r1, r2}
    ResetLife = 1
    MaxTime = 3
    MaxPasswords = 2
SYMMETRY RequestSymmetry
VIEW WithoutGarbage
INVARIANTS
    TypeOK
    RowsBoundedByConcurrency
    SpentTokensStaySpent
    MailedTokensWork
    OldSessionsExplained
