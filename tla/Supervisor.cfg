SPECIFICATION FairSpec
CONSTANTS
    Caller = {c1, c2}
    Server = {s1, s2}
    None = None
    MaxFailures = 2
    MaxCount = 3
    MaxOrphans = 1
INVARIANT ServersAreOwned
PROPERTY RetryIsScheduled
PROPERTY ImplementsServerHealth
PROPERTY EveryCallReturns
PROPERTY Recovers
CHECK_DEADLOCK FALSE
