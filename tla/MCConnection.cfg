\* One connection: with a gateway that has one host, under a traffic limit and on a
\* clock that may jump.  The other bounds are beside the instances.
SPECIFICATION AllSpec
CONSTANTS
    MaxReadIdle = 0
    MaxKeepAliveIdle = 1
    MaxWriteIdle = 0
    Linger = 0
    MaxKeepAliveRequests = 1
    MaxHeader = 1
    MaxBody = 1
    MaxChunks = 1
    MaxRx = 1
    Hosts = 1
    MaxFdWait = 1
    MaxJump = 2
    ErrorHandler = TRUE
    Throttled = TRUE
INVARIANTS
    TypeOK
    NobodyForgotten
    CountsRight
    DispatchedRegistered
    FreeIsClean
    Agree
PROPERTIES
    Logged
    FreshWriteStamp
    ImplementsLifecycle
