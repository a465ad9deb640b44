CONSTANTS
    j1 = j1
    r1 = r1
    r2 = r2
    Account = Account
    Jobs = {j1}
    CompileJobs = {}
    Runners = {r1, r2}
    Groups <- MCGroups
    RateGroup <- MCRateGroup
    MaxConc = 3
    Retries = 1
    MaxProgress = 0
    MayPassDeadline = TRUE
    RedisMayFail = FALSE
SPECIFICATION FairSpec
PROPERTIES EveryJobSettles OfflineDetected CancelStopsRunner
CHECK_DEADLOCK FALSE
