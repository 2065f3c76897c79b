SPECIFICATION FairSpec
CONSTANTS
    Clients <- MCClients
    ModemClients <- MCModemClients
    EnforceSingle = TRUE
    WaitClose = TRUE
    MaxCh = 4
    MaxRestart = 0
INVARIANTS ReleasingAnswered
PROPERTIES CloseAnswered
