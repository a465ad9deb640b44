SPECIFICATION Spec
CONSTANTS
    Langs = {cpp, python}
    Available = {cpp, python}
    Bodies = {mine}
    Marked = {}
    Starters = {old, new}
    Empty = empty
    Stale = stale
    None = none
    StorageWorks = TRUE
    ClearsOnClose = TRUE
    MaxActs = 3
    MaxLoads = 2
INVARIANTS
    WorkKept
    Synced
PROPERTIES
    MarkersSettle
CHECK_DEADLOCK FALSE
