SPECIFICATION FairSpec
CONSTANTS
    k1 = k1
    k2 = k2
    g = g
    Keys = {k1}
    Groups = {g}
    NoSchedule = NoSchedule
    NoRetry = NoRetry
    TicksPerMinute = 2
    MaxTime = 3
    MaxCalls = 2
    MaxFailures = 1
    MaxCrashes = 0
    GroupOf <- InGroup
    Configs <- FailingOnce
PROPERTY FailuresDeadLettered
\* The clock, calls and failures are bounded: behaviours end.
CHECK_DEADLOCK FALSE
