SPECIFICATION Safety
CONSTANTS
    RetryBufferMax = 2
    MaxAttempts = 2
    MaxChunks = 4
INVARIANTS
    DroppedWereTried
CHECK_DEADLOCK FALSE
