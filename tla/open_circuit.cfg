SPECIFICATION Spec
CONSTANTS
    Callers = {p1}
    Permits = 1
    Threshold = 1
    Retries = 0
    Repairs = 0
INVARIANT
    FallbackIsTried
