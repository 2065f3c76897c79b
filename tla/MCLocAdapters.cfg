SPECIFICATION FairSpec
CONSTANTS
    Adapters <- MCAdapters
    Engine = "engine"
    Events <- MCEvents
    Measurement = "measurement"
    mExcludedMask <- MCExcluded
    MaxAdapters = 2
    MaxRetries = 1
    MaxOp = 2
    MaxCrash = 2
    MaxRefuse = 1
INVARIANTS EventsKept
PROPERTIES Reopened
CHECK_DEADLOCK FALSE
