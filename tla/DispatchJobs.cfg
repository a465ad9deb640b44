CONSTANTS
    j1 = j1
    j2 = j2
    r1 = r1
    Account = Account
    Jobs = {j1, j2}
    CompileJobs = {j1}
    Runners = {r1}
    Groups <- MCGroups
    RateGroup <- MCRateGroup
    MaxConc = 3
    Retries = 1
    MaxProgress = 0
    MayPassDeadline = TRUE
    RedisMayFail = FALSE
SPECIFICATION Spec
INVARIANTS TypeOK PermitsConserved PermitsSuffice RegistryExact OneTaskPerRunner WatchedIsPolled AbortsPending
CHECK_DEADLOCK FALSE
