SPECIFICATION TaskFairSpec
CONSTANTS
    MaxMsg = 4
INVARIANTS NoLostWakeup DelegateLives
PROPERTIES TaskDeleted MessageLeaves ImplementsMailbox
CHECK_DEADLOCK FALSE
