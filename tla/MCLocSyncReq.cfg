SPECIFICATION FairSpec
CONSTANTS
    Threads <- Two
    Size = 2
    Ids <- One
    Old = Old
    None = None
    NullPayload = TRUE
    Spurious = TRUE
    MaxInd = 2
INVARIANTS PayloadOwned InUseExact NoWakeupLost SuccessMeansArrived
PROPERTIES CallReturns
