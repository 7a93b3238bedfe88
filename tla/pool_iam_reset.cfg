SPECIFICATION FairSpec
CONSTANTS
    i1 = i1
    i2 = i2
    i3 = i3
    old = old
    new = new
    Invokers = {i1}
    NoInvoker = NoInvoker
    Reaper = Reaper
    Deploys = {old}
    FirstDeploy = old
    MaxConcurrency = 1
    MaxAttempts = 2
    CancelPoints = {}
    Disruptions = {"reset"}
    MaxDisruptions = 1
    MaxLaunches = 2
PROPERTY NoRevokedStart
\* Every invocation is made once: the system stops when all are over.
CHECK_DEADLOCK FALSE
