\* A remote host whose connections break after they were made.
SPECIFICATION Spec
CONSTANTS
    Requests = {1}
    NHosts = 1
    Local = {}
    NProcs = 1
    MaxReconnects = 5
    MaxFaults = 0
    MaxLoad = 3
    SizeModulus = 4
INVARIANT Reconnects
CHECK_DEADLOCK FALSE
