\* A session of one request, by server.max-keep-alive-requests.
SPECIFICATION Spec
CONSTANTS
    MaxReadIdle = 0
    MaxKeepAliveIdle = 1
    MaxWriteIdle = 0
    Linger = 0
    MaxKeepAliveRequests = 1
    MaxHeader = 1
    MaxBody = 0
    MaxChunks = 1
    MaxRx = 1
    Hosts = 0
    MaxFdWait = 0
    MaxJump = 1
    ErrorHandler = FALSE
    Throttled = FALSE
INVARIANT SessionLimit
CHECK_DEADLOCK FALSE
