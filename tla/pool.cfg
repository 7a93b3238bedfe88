SPECIFICATION FairSpec
CONSTANTS
    i1 = i1
    i2 = i2
    i3 = i3
    old = old
    new = new
    Invokers = {i1, i2}
    NoInvoker = NoInvoker
    Reaper = Reaper
    Deploys = {old, new}
    FirstDeploy = old
    MaxConcurrency = 1
    MaxAttempts = 2
    CancelPoints = {"lock", "teardown", "launch", "starting", "wait", "probe", "post", "evicting"}
    Disruptions = {"dies", "flaky", "launch", "cancel", "update", "expire", "reset", "delete", "take"}
    MaxDisruptions = 2
    MaxLaunches = 4
INVARIANT TypeOK
INVARIANT CapRespected
INVARIANT SweptNotInUse
INVARIANT AtMostOnce
INVARIANT RevokedWhenGone
PROPERTY EveryInvocationEnds
PROPERTY RetiringLeaves
\* Every invocation is made once: the system stops when all are over.
CHECK_DEADLOCK FALSE
