SPECIFICATION Spec
CONSTANTS
    Reviewers = {r1}
    Staff = {}
    Gateways = {g1}
    SupplementIds = {s1}
INVARIANT
    ApprovalCoversEvidence
