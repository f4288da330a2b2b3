\* The first counterexample ends the run.
SPECIFICATION Spec
CONSTANTS
    Procs = {w1, w2}
    max_worker = 2
    MaxSignals = 2
    MaxDeaths = 1
PROPERTY StopForwarded
\* the parent ends, and so do the workers
CHECK_DEADLOCK FALSE
