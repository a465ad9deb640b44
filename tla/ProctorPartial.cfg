SPECIFICATION Safety
CONSTANTS
    Kinds = {camera, screen}
    MaxAttempts = 2
    MaxTokens = 2
    MaxChunks = 3
    MaxFaults = 0
PROPERTIES
    NeverOverwritten
CHECK_DEADLOCK FALSE
