\* Synthetic: one analysis, its browser and three requests for coverage: one computes,
\* one waits for the gate and one comes when the result is cached.  Real: two analyses,
\* all grids of nine nodes inside a border, two of them at the threshold at most, a street of five places, two directions.
CONSTANTS
    CoverageRequests = {c1, c2, c3}
    Nobody = Nobody
    Sampled = {s1, s2}
    Idle = Idle
    Side = 5
    Services <- MCServices
    Places <- MCPlaces
    KindOf <- MCKindOf
    Radius = 1
    MinZone = 2
    PerCategory = 1
    Directions = {"north", "east"}
    Street = {1, 2, 3, 4, 5}
    MaxAt = 2
    Spots = {0, 2, 4}
SPECIFICATION ModesSpec
SYMMETRY Symmetry
CHECK_DEADLOCK FALSE
INVARIANTS
    LastRevisionShown
    RecordSettled
    CoverageOfRevision
    OneSamples
    SampledSound
    IsolineExact
