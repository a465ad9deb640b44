CONSTANTS
    Ids <- Ids4
SPECIFICATION ScoredSpec
INVARIANT LoopDetectedIsLoop
CHECK_DEADLOCK FALSE
