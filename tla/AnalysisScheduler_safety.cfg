SPECIFICATION Spec
CONSTANTS
    Jobs = {j1, j2, j3}
    Workers = {w1, w2}
    NoJob = NoJob
    PendingLimit = 2
    QueueTimeout = 2
    HistoryTtl = 2
    HistoryCapacity = 2
    ContextCapacity = 1
    AbsorbingJobs = {j1, j2, j3}
SYMMETRY Symmetry
INVARIANTS
    PlacesConsistent
    RecordsConsistent
PROPERTIES
    FirstComeFirstServed
    JoinHonest
    FinishedIsFinal
    ImplementsService
CHECK_DEADLOCK FALSE
