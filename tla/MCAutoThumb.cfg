\* Three workers that may die, one thumbnail of two blocks, a disk that may be full.
SPECIFICATION Spec
CONSTANTS
    Workers = {w1, w2, w3}
    Thumbs = {t1}
    Blocks = 2
    Crashes = TRUE
    DiskFull = TRUE
    MaxRequests = 2
SYMMETRY Symmetry
INVARIANTS TypeOK StoreServes
PROPERTY SettledStays
\* the workers stop after MaxRequests
CHECK_DEADLOCK FALSE
