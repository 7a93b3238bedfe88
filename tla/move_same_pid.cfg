SPECIFICATION FairSpec
CONSTANTS
    a = a
    b = b
    dlq = dlq
    Queues = {a, dlq}
    NoQueue = NoQueue
    Dests = {NoQueue, a}
    PidStep = 0
    SavesMayFail = FALSE
    MaxMessages = 1
    MaxCalls = 2
    MaxTasks = 1
    MaxCrashes = 1
    MaxDeletes = 0
    MaxResets = 0
    Redrive <- ToDlq
    UrlOrder <- DlqLast
PROPERTY EveryTaskEnds
\* Tasks, messages and crashes are bounded: behaviours end.
CHECK_DEADLOCK FALSE
