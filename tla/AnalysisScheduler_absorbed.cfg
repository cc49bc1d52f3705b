SPECIFICATION FairSpec
CONSTANTS
    Jobs = {j1, j2}
    Workers = {w1}
    NoJob = NoJob
    PendingLimit = 2
    QueueTimeout = 1
    HistoryTtl = 1
    HistoryCapacity = 1
    ContextCapacity = 1
    AbsorbingJobs = {j1}
PROPERTIES
    CloseTerminates
CHECK_DEADLOCK FALSE
