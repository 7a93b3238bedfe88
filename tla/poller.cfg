SPECIFICATION PollerFairSpec
CONSTANTS
    standard = standard
    fifo = fifo
    e1 = e1
    e2 = e2
    g1 = g1
    d1 = d1
    Queues = {standard, fifo}
    NoQueue = NoQueue
    FifoQueues = {fifo}
    PerGroupDedup = {}
    EncryptedQueues = {}
    Groups = {g1}
    NoGroup = NoGroup
    DedupIds = {d1}
    Attempts = {}
    NoAttempt = NoAttempt
    Delays = {0}
    DefaultDelays = {0}
    Timeouts = {1}
    NewTimeouts = {}
    BatchSizes = {1}
    ReceivedQueues = {standard}
    MaxReceiveCount = 1
    Retention = 9
    DedupWindow = 1
    DeliveryTargets = {}
    ForcedQueues = {}
    ManagedQueues = {}
    RedriveSources = {}
    MaxMessages = 2
    MaxMints = 1
    MaxTime = 2
    Mappings = {e1, e2}
    NoMapping = NoMapping
    VisibilityTimeout = 1
    Filtering = {e1}
    Reporting = {e1}
    MaxFailures = 2
    InitialRedrive <- NoRedrive
    UrlOrder <- StandardFirst
    SourceOf <- FirstToStandard
    BatchSize <- FirstInPairs
    Window <- FirstWaits
INVARIANT PollerTypeOK
INVARIANT NeverTwice
INVARIANT NothingLost
INVARIANT HiddenFromConsumers
PROPERTY FunctionSeesGroupsInOrder
PROPERTY EveryMessageHandled
