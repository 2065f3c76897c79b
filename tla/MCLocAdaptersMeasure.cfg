SPECIFICATION Spec
CONSTANTS
    Adapters <- MCAdapters
    Engine = "engine"
    Events <- MCEvents
    Measurement = "measurement"
    mExcludedMask = {}
    MaxAdapters = 2
    MaxRetries = 1
    MaxOp = 2
    MaxCrash = 2
    MaxRefuse = 1
INVARIANTS MeasurementsKept
CHECK_DEADLOCK FALSE
