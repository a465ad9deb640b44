SPECIFICATION Safety
CONSTANTS
    Kinds = {camera, screen}
    MaxAttempts = 2
    MaxTokens = 2
    MaxChunks = 2
    MaxFaults = 0
INVARIANTS
    RegistrySaved
CHECK_DEADLOCK FALSE
