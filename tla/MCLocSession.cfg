SPECIFICATION Spec
CONSTANTS
    Modes = {standalone, msBased}
    Standalone = standalone
    None = none
    MaxCall = 4
    MaxCrash = 1
    MaxRefuse = 1
INVARIANTS SessionRuns ModemFollows LayersAgree DeletionNotHeldUp
PROPERTIES StartRuns
CHECK_DEADLOCK FALSE
