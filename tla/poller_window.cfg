SPECIFICATION PollerSpec
CONSTANTS
    standard = standard
    fifo = fifo
    e1 = e1
    e2 = e2
    g1 = g1
    d1 = d1
    Queues = {standard}
    NoQueue = NoQueue
    FifoQueues = {}
    PerGroupDedup = {}
    EncryptedQueues = {}
    Groups = {}
    NoGroup = NoGroup
    DedupIds = {d1}
    Attempts = {}
    NoAttempt = NoAttempt
    Delays = {0}
    DefaultDelays = {0}
    Timeouts = {1}
    NewTimeouts = {}
    BatchSizes = {1}
    ReceivedQueues = {}
    MaxReceiveCount = 1
    Retention = 9
    DedupWindow = 1
    DeliveryTargets = {}
    ForcedQueues = {}
    ManagedQueues = {}
    RedriveSources = {}
    MaxMessages = 1
    MaxMints = 1
    MaxTime = 2
    Mappings = {e1}
    NoMapping = NoMapping
    VisibilityTimeout = 2
    Filtering = {}
    Reporting = {}
    MaxFailures = 0
    InitialRedrive <- NoRedrive
    UrlOrder <- StandardFirst
    SourceOf <- FirstToStandard
    BatchSize <- FirstInPairs
    Window <- FirstWaits
PROPERTY WindowExpires
