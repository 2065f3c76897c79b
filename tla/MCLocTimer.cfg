SPECIFICATION FairSpec
CONSTANTS
    Clients <- MCClients
    NoClient = NoClient
    Delays <- MCDelays
    Second = 2
    MaxStart = 3
    MaxTime = 2
INVARIANTS ArmedForTop NothingDangles
PROPERTIES TimerEnds StopsExpired
CHECK_DEADLOCK FALSE
