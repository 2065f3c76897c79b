SPECIFICATION Spec
CONSTANTS
    Modes = {standalone, msBased}
    Standalone = standalone
    None = none
    MaxCall = 4
    MaxCrash = 1
    MaxRefuse = 0
INVARIANTS StopStops
CHECK_DEADLOCK FALSE
