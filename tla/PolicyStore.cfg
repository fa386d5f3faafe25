SPECIFICATION Spec
CONSTANTS
    Requests = {r1, r2}
    Rules = {p1, p2, p3}
    AdminRule = admin
    Csv = {admin, p3}
SYMMETRY Symmetry
VIEW WithoutGarbage
CONSTRAINT NoConflict
INVARIANTS
    TypeOK
    QuietAgreement
    ChangesReachEnforcer
