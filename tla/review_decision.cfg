SPECIFICATION Spec
CONSTANTS
    Pictures <- Pool
    GateMinimum = 75
    GuardMinimum = 75
    Threshold = 55
    MaxRevision = 1
\* The run may be over and the ticket decided.
CHECK_DEADLOCK FALSE
INVARIANTS
    TypeOK
    ApprovalIsEarned
    ModelHasNoVote
    GatesAgree
