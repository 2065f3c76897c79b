SPECIFICATION FairSpec
CONSTANTS
    Clients <- MCClients
    MaxRetries = 2
    MaxList = 2
    MaxRestart = 1
INVARIANTS CallOwned AcquiredIsUp
PROPERTIES SoleRequestServed
CHECK_DEADLOCK FALSE
