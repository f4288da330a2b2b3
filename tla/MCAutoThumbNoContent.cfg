\* Two workers; the first wrong answer ends the run.
SPECIFICATION Spec
CONSTANTS
    Workers = {w1, w2}
    Thumbs = {t1}
    Blocks = 2
    Crashes = FALSE
    DiskFull = FALSE
    MaxRequests = 2
INVARIANT SomethingToSend
\* the workers stop after MaxRequests
CHECK_DEADLOCK FALSE
