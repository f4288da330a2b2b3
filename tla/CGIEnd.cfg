\* What a script writes that never ends a header or a line, at the end of its pipe.
CONSTANTS
    Requests = {1}
    Pids = {2, 3}
    MaxStarts = 1
SPECIFICATION Spec
INVARIANT BodyInReality
CHECK_DEADLOCK FALSE
