CONSTANTS
    s1 = s1
    Submissions = {s1}
    MaxRuns = 1
    MaxUpdates = 2
    RequestRetries = 10
    NetMayFail = TRUE
    MayCrash = FALSE
SPECIFICATION Spec
INVARIANTS RequestRetried
CHECK_DEADLOCK FALSE
