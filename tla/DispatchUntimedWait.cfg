CONSTANTS
    j1 = j1
    r1 = r1
    Account = Account
    Jobs = {j1}
    CompileJobs = {}
    Runners = {r1}
    Groups <- MCGroups
    RateGroup <- MCRateGroup
    MaxConc = 3
    Retries = 1
    MaxProgress = 1
    MayPassDeadline = TRUE
    RedisMayFail = FALSE
SPECIFICATION FairSpec
PROPERTIES WaitEnds
CHECK_DEADLOCK FALSE
