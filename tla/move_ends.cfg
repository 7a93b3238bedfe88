SPECIFICATION FairSpec
CONSTANTS
    a = a
    b = b
    dlq = dlq
    Queues = {a, b, dlq}
    NoQueue = NoQueue
    Dests = {NoQueue, a}
    PidStep = 1
    SavesMayFail = FALSE
    MaxMessages = 2
    MaxCalls = 1
    MaxTasks = 1
    MaxCrashes = 1
    MaxDeletes = 1
    MaxResets = 1
    Redrive <- ToDlq
    UrlOrder <- DlqLast
INVARIANT Conserved
PROPERTY EveryTaskEnds
\* Tasks, messages and crashes are bounded: behaviours end.
CHECK_DEADLOCK FALSE
