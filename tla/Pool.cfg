SPECIFICATION FairSpec
CONSTANTS
    Languages = {py, ts}
    Queries = {q1, q2}
    Watcher = w
    Background = {w}
    Restarters = {r}
    None = None
    MaxQueries = 2
    MaxRestarts = 1
    MaxSupervisors = 2
CHECK_DEADLOCK FALSE
INVARIANTS NoServerIsLost PoolOffersLiveOnes
PROPERTY GateOpens
