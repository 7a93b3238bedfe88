SPECIFICATION FairSpec
CONSTANTS
    r1 = r1
    r2 = r2
    d1 = d1
    d2 = d2
    Requests = {r1, r2}
    Deliveries = {d1, d2}
    Flusher = Flusher
    NoWriter = NoWriter
    MaxCrashes = 1
    MaxFailures = 1
INVARIANT TypeOK
INVARIANT SnapshotParses
INVARIANT AckedDurable
PROPERTY NewestStateWins
PROPERTY DeliveryFlushed
PROPERTY RequestAnswered
\* Every call is made once: the system stops when all are over.
CHECK_DEADLOCK FALSE
