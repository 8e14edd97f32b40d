SPECIFICATION FairSpec
CONSTANTS
    Reviews = {a}
    Threads = {t1, t2}
    Consumers = {c1, c2}
    MaxRevision = 0
    MaxFaults = 1
    FaultKinds = {"crash", "rebalance", "timeout", "callFails", "loadFails", "raises", "commitFails", "publishAgain"}
\* The partition may be read to its end and every run be over.
CHECK_DEADLOCK FALSE
INVARIANTS
    TypeOK
    CommittedIsSettled
    MarkersAreTrue
PROPERTIES
    EveryEventIsSettled
