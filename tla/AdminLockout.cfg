SPECIFICATION Spec
CONSTANTS
    Requests = {r1, r2}
    Rules = {p1}
    AdminRule = admin
    Csv = {admin}
VIEW WithoutGarbage
INVARIANT
    AdminsNotLockedOut
