\* Two jobs compete for one consumer, so that one can wait behind the other,
\* and share one permit with one direct call and one health check; the queue
\* times out after one step of time, so that expiry is reached.
CONSTANTS
    j1 = j1
    j2 = j2
    w1 = w1
    d1 = d1
    h1 = h1
    Jobs = {j1, j2}
    Workers = {w1}
    NoJob = NoJob
    PendingLimit = 1
    QueueTimeout = 1
    HistoryTtl = 1
    HistoryCapacity = 1
    ContextCapacity = 1
    AbsorbingJobs = {}
    DirectCalls = {d1}
    Capacity = 1
    Checkers = {h1}
    NoProbe = NoProbe
SPECIFICATION MCFairSpec
CHECK_DEADLOCK FALSE
INVARIANTS
    GracefulCancelsNothing
    ClearedQuiet
PROPERTIES
    OnlyDeadlineInterrupts
    ShutdownReturns
    PlaceReturned
