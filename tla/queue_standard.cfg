SPECIFICATION Spec
CONSTANTS
    main = main
    dlq = dlq
    g1 = g1
    g2 = g2
    d1 = d1
    d2 = d2
    a1 = a1
    Queues = {main, dlq}
    NoQueue = NoQueue
    FifoQueues = {}
    PerGroupDedup = {}
    EncryptedQueues = {}
    Groups = {}
    NoGroup = NoGroup
    DedupIds = {d1}
    Attempts = {}
    NoAttempt = NoAttempt
    Delays = {0, 1}
    DefaultDelays = {0, 1}
    Timeouts = {1}
    NewTimeouts = {0}
    BatchSizes = {1, 2}
    ReceivedQueues = {main, dlq}
    MaxReceiveCount = 1
    Retention = 2
    DedupWindow = 2
    DeliveryTargets = {main}
    ForcedQueues = {}
    ManagedQueues = {main, dlq}
    RedriveSources = {dlq}
    MaxMessages = 2
    MaxMints = 2
    MaxTime = 2
    InitialRedrive <- MainToDlq
    UrlOrder <- MainFirst
INVARIANT TypeOK
INVARIANT OnlyCurrentHandle
PROPERTY FreshHistory
PROPERTY KeepsContract
\* The clock and the number of messages are bounded: behaviours end.
CHECK_DEADLOCK FALSE
