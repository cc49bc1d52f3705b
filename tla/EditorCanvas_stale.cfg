\* One edit, one save by another window, and a second load are enough.
CONSTANTS
    Nothing = Nothing
    MaxSteps = 1
    MaxChanges = 2
    MaxLoads = 2
    Patient = FALSE
SPECIFICATION CanvasSpec
CHECK_DEADLOCK FALSE
PROPERTIES
    StaleRefused
