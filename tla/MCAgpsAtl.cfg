SPECIFICATION FairSpec
CONSTANTS
    Clients <- MCClients
    ModemClients <- MCModemClients
    EnforceSingle = FALSE
    WaitClose = FALSE
    MaxCh = 3
    MaxRestart = 1
INVARIANTS ToldTrue PendingAnswered AcquiredIsOpen
PROPERTIES RequestAnswered ImplementsLease
