SPECIFICATION Spec
CONSTANTS
    MaxSteps = 8
    MaxToolCalls = 10
    MaxDuplicates = 2
    FastRetries = 1
    RecursionLimit = 25
    MaxFailures = 3
INVARIANTS
    TypeOK
    ApprovalIsBacked
    ReviewedOnce
    HumanIsCalled
    ReviewIsNotDropped
    TransferIsConfirmed
    RewrittenOnce
PROPERTY TurnEnds
CHECK_DEADLOCK FALSE
