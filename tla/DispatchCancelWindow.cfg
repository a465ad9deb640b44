CONSTANTS
    j1 = j1
    r1 = r1
    Account = Account
    Jobs = {j1}
    CompileJobs = {}
    Runners = {r1}
    Groups <- MCGroups
    RateGroup <- MCRateGroup
    MaxConc = 3
    Retries = 1
    MaxProgress = 0
    MayPassDeadline = FALSE
    RedisMayFail = FALSE
SPECIFICATION Spec
INVARIANTS InterruptedIsAborted
CHECK_DEADLOCK FALSE
