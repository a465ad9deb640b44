SPECIFICATION Safety
CONSTANTS
    Langs = {cpp, python}
    Available = {cpp, python}
    Bodies = {mine}
    Marked = {}
    Starters = {old, new}
    Empty = empty
    Stale = stale
    None = none
    StorageWorks = FALSE
    ClearsOnClose = FALSE
    MaxActs = 3
    MaxLoads = 2
INVARIANTS
    TypeOK
    Synced
CHECK_DEADLOCK FALSE
