\* Two windows and two contents between them: two canvases, or a canvas and a
\* context, or one and the POI document of a bundle.  Two mishaps are a failed
\* write whose rollback fails, a crash before and after a restart, or a fault and
\* one command-line run.
CONSTANTS
    Windows = {w1, w2}
    None = None
    MaxContents = 2
    MaxMishaps = 2
SPECIFICATION PackageSpec
SYMMETRY Symmetry
CHECK_DEADLOCK FALSE
INVARIANTS
    PackageSound
    InterruptionsRepairable
PROPERTIES
    NoLostSave
