\* Two connections with a gateway, which use up the descriptors.
SPECIFICATION Spec
CONSTANTS
    Size = 2
    MaxConns = 2
    MaxFds = 5
    SpareFds = 1
    AcceptLoops = 2
    Hosts = 1
    MaxKeepAliveRequests = 0
    MaxFdWait = 1
    MaxJobs = 1
INVARIANTS TypeOK TableOK RecordsAgree Watched EventsFresh
PROPERTIES AcceptsOnlyEnabled IndexNeverGrows
