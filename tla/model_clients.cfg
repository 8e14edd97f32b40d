SPECIFICATION FairSpec
CONSTANTS
    Callers = {p1, p2}
    Permits = 1
    Threshold = 2
    Retries = 1
    Repairs = 1
INVARIANTS
    TypeOK
    PermitsReturned
    ProbeIsAnswered
    CloseIsQuiet
PROPERTIES
    LocalStandsInForOutage
    EveryCallEnds
    CloseReturns
