SPECIFICATION Safety
CONSTANTS
    Kinds = {camera, screen}
    MaxAttempts = 2
    MaxTokens = 2
    MaxChunks = 2
    MaxFaults = 1
INVARIANTS
    TypeOK
    AckedKept
    SegmentsPure
CHECK_DEADLOCK FALSE
