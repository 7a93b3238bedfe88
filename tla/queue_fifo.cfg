SPECIFICATION Spec
CONSTANTS
    main = main
    dlq = dlq
    g1 = g1
    g2 = g2
    d1 = d1
    d2 = d2
    a1 = a1
    Queues = {main, dlq}
    NoQueue = NoQueue
    FifoQueues = {main, dlq}
    PerGroupDedup = {main}
    EncryptedQueues = {dlq}
    Groups = {g1, g2}
    NoGroup = NoGroup
    DedupIds = {d1, d2}
    Attempts = {a1}
    NoAttempt = NoAttempt
    Delays = {0}
    DefaultDelays = {0}
    Timeouts = {1}
    NewTimeouts = {}
    BatchSizes = {1, 2}
    ReceivedQueues = {main, dlq}
    MaxReceiveCount = 2
    Retention = 9
    DedupWindow = 2
    DeliveryTargets = {dlq}
    ForcedQueues = {main}
    ManagedQueues = {}
    RedriveSources = {}
    MaxMessages = 2
    MaxMints = 3
    MaxTime = 2
    InitialRedrive <- MainToDlq
    UrlOrder <- MainFirst
INVARIANT ReplayIsSameDelivery
INVARIANT DedupOnce
INVARIANT DeadLetterOnTime
PROPERTY FifoDelivery
PROPERTY KeepsContract
\* The clock and the number of messages are bounded: behaviours end.
CHECK_DEADLOCK FALSE
SYMMETRY Interchangeable
