CONSTANTS
    Ids <- Ids3
SPECIFICATION FairSpec
INVARIANTS TypeOK DependencyPassed SkippedForCause VerdictIsFinal StartedOnce
PROPERTIES ResultsStay Ends
CHECK_DEADLOCK FALSE
