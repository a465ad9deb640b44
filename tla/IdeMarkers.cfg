SPECIFICATION Spec
CONSTANTS
    Langs = {cpp, python}
    Available = {cpp, python}
    Bodies = {mine, marked}
    Marked = {marked}
    Starters = {old, new}
    Empty = empty
    Stale = stale
    None = none
    StorageWorks = TRUE
    ClearsOnClose = TRUE
    MaxActs = 3
    MaxLoads = 2
INVARIANTS
    MarkersOfCurrent
CHECK_DEADLOCK FALSE
