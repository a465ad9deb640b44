SPECIFICATION Safety
CONSTANTS
    Kinds = {screen}
    MaxAttempts = 2
    MaxTokens = 2
    MaxChunks = 2
    MaxFaults = 1
PROPERTIES
    SegmentsKept
CHECK_DEADLOCK FALSE
