SPECIFICATION Spec
CONSTANTS
    Reviews = {a}
    Threads = {t1}
    Consumers = {c1}
    MaxRevision = 1
    MaxFaults = 1
    FaultKinds = {"raises"}
\* The partition may be read to its end and every run be over.
CHECK_DEADLOCK FALSE
INVARIANT
    CommittedIsSettled
