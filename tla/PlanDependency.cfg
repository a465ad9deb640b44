CONSTANTS
    Ids <- Swapped
SPECIFICATION Spec
INVARIANT DependencyIsPosition
CHECK_DEADLOCK FALSE
