SPECIFICATION Spec
CONSTANTS
    a = a
    b = b
    dlq = dlq
    Queues = {a, dlq}
    NoQueue = NoQueue
    Dests = {NoQueue, a}
    PidStep = 1
    SavesMayFail = TRUE
    MaxMessages = 2
    MaxCalls = 2
    MaxTasks = 2
    MaxCrashes = 1
    MaxDeletes = 0
    MaxResets = 0
    Redrive <- ToDlq
    UrlOrder <- DlqLast
INVARIANT TypeOK
INVARIANT Conserved
INVARIANT OneMover
INVARIANT CancelStopsMover
\* Tasks, messages and crashes are bounded: behaviours end.
CHECK_DEADLOCK FALSE
