\* In the database three commands: two imports of one package and a publication, or
\* two publications in two regions and an import, while the application starts.
\* On the canvas: two changes, each an edit or a save by another window, that can
\* both be undone, and a second load.
\* In a graph: a decision, an edit by hand or a change of the source, and a second
\* decision; the least and the greatest waiting time and a default between them.
CONSTANTS
    Clients = {c1, c2, c3}
    Regions = {r1, r2}
    Default = r1
    Versions = {v1, v2}
    None = None
    FileCount = 2
    MaxStarts = 2
    r1 = r1
    r2 = r2
    Nothing = Nothing
    MaxSteps = 2
    MaxChanges = 2
    MaxLoads = 2
    Patient = TRUE
    Waits = {0, 1, 3}
    DefaultWait = 1
    Threshold = 4
    Budget = 1
    MaxDone = 3
SPECIFICATION LifeSpec
SYMMETRY Symmetry
CHECK_DEADLOCK FALSE
INVARIANTS
    NoDuplicateKey
    ServesOneMoment
    LifetimesClean
    RefinementSound
PROPERTIES
    EditsKept
