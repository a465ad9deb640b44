CONSTANTS
    j1 = j1
    r1 = r1
    r2 = r2
    Account = Account
    Jobs = {j1}
    CompileJobs = {}
    Runners = {r1, r2}
    Groups <- MCGroups
    RateGroup <- MCRateGroup
    MaxConc = 2
    Retries = 1
    MaxProgress = 1
    MayPassDeadline = TRUE
    RedisMayFail = TRUE
SPECIFICATION Spec
SYMMETRY RunnerSymmetry
INVARIANTS ExecutedByOne
CHECK_DEADLOCK FALSE
