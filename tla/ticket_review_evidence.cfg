SPECIFICATION Spec
CONSTANTS
    Reviewers = {r1}
    Staff = {m1, m2}
    Gateways = {}
    SupplementIds = {s1, s2}
SYMMETRY Symmetry
INVARIANTS
    ApprovalCoversEvidence
    RevisionNamesEvidence
PROPERTIES
    NoReturnToPending
