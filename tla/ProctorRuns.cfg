SPECIFICATION Spec
CONSTANTS
    Kinds = {screen}
    MaxAttempts = 2
    MaxTokens = 2
    MaxChunks = 2
    MaxFaults = 1
INVARIANTS
    TypeOK
    AckedKept
    SegmentsPure
PROPERTIES
    QueueDrains
CHECK_DEADLOCK FALSE
