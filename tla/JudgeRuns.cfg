CONSTANTS
    s1 = s1
    Submissions = {s1}
    MaxRuns = 2
    MaxUpdates = 2
    RequestRetries = 2
    NetMayFail = TRUE
    MayCrash = TRUE
SPECIFICATION Spec
INVARIANTS TypeOK RegistryAgrees ResultsInOrder CodeAvailable FilesRemoved ContextsExact
PROPERTY RunsInOrder
VIEW View
CHECK_DEADLOCK FALSE
