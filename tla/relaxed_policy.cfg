SPECIFICATION Spec
CONSTANTS
    Pictures <- Pool
    GateMinimum = 75
    GuardMinimum = 75
    Threshold = 55
    MaxRevision = 0
CHECK_DEADLOCK FALSE
INVARIANT OnlyStrictPolicyApproves
