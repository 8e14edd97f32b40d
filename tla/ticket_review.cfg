SPECIFICATION Spec
CONSTANTS
    Reviewers = {r1, r2}
    Staff = {}
    Gateways = {g1}
    SupplementIds = {s1}
SYMMETRY Symmetry
INVARIANTS
    TypeOK
    AppliedIsOnRecord
PROPERTIES
    ImplementsPromise
