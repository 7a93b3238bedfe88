SPECIFICATION FairSpec
CONSTANTS
    k1 = k1
    k2 = k2
    g = g
    Keys = {k1}
    Groups = {g}
    NoSchedule = NoSchedule
    NoRetry = NoRetry
    TicksPerMinute = 2
    MaxTime = 2
    MaxCalls = 4
    MaxFailures = 2
    MaxCrashes = 1
    GroupOf <- InGroup
    Configs <- AllConfigs
INVARIANT TypeOK
INVARIANT OneFireEach
INVARIANT FiredStaysFired
INVARIANT RetryBudget
PROPERTY EveryFireSettled
PROPERTY OneShotFires
\* The clock, calls and failures are bounded: behaviours end.
CHECK_DEADLOCK FALSE
