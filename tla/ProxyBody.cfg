\* A request with a body, and a second host for it.
SPECIFICATION Spec
CONSTANTS
    Requests = {1}
    NHosts = 2
    Balance = "rr"
    Weight = 0
    Retry = 3
    ConnectTime = 1
    Posts = {1}
INVARIANT BodyKept
CHECK_DEADLOCK FALSE
