SPECIFICATION Safety
CONSTANTS
    MaxBatch = 2
    MaxTabSwitches = 0
    FullscreenRequired = TRUE
    RequireCamera = TRUE
    MaxEvents = 3
    MaxStray = 1
    MaxReloads = 1
INVARIANTS
    Gate
CHECK_DEADLOCK FALSE
