CONSTANTS
    Ids <- Ids7
SPECIFICATION DiamondSpec
INVARIANT RunIfPassed
CHECK_DEADLOCK FALSE
