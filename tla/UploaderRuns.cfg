SPECIFICATION Spec
CONSTANTS
    RetryBufferMax = 2
    MaxAttempts = 2
    MaxChunks = 4
INVARIANTS
    CleanInOrder
PROPERTIES
    ChunksSettle
    Accountable
CHECK_DEADLOCK FALSE
