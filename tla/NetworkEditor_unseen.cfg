\* One window and one run of the bundle script are enough.
CONSTANTS
    Windows = {w1}
    None = None
    MaxContents = 2
    MaxMishaps = 1
SPECIFICATION PackageSpec
CHECK_DEADLOCK FALSE
PROPERTIES
    PreparationSeesChanges
