CONSTANTS
    j1 = j1
    j2 = j2
    Account = Account
    Jobs = {j1, j2}
    CompileJobs = {}
    Runners = {}
    Groups <- MCGroups
    RateGroup <- MCRateGroup
    MaxConc = 4
    Retries = 3
    MaxProgress = 0
    MayPassDeadline = FALSE
    RedisMayFail = FALSE
SPECIFICATION FairSpec
PROPERTIES RetryReassigned
CHECK_DEADLOCK FALSE
