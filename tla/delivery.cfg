SPECIFICATION DeliverySpec
CONSTANTS
    Reviews = {a}
    Threads = {t1}
    Consumers = {c1}
    MaxRevision = 1
    MaxFaults = 1
    MaxRetries = 1
    MaxDeliveries = 2
    FaultKinds = {"crash", "commitFails", "publishedUnknown", "jobStops"}
\* The partition may be read to its end and every run be over.
CHECK_DEADLOCK FALSE
INVARIANTS
    DeliveryTypeOK
    OutboxIsTrue
    CommittedIsSettled
    MarkersAreTrue
PROPERTIES
    EveryEventIsHandled
