CONSTANTS
    s1 = s1
    Submissions = {s1}
    MaxRuns = 1
    MaxUpdates = 2
    RequestRetries = 2
    NetMayFail = TRUE
    MayCrash = TRUE
SPECIFICATION FairSpec
PROPERTIES AbortEnds
CHECK_DEADLOCK FALSE
