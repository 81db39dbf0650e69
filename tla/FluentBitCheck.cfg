SPECIFICATION FairSpec
CONSTANTS
    FluentBits <- OneFluentBit
    Namespace <- OneNamespace
    Namespaced = FALSE
    Specs <- Edited
    MaxUid = 2
    MaxPending = 2
    MaxFaults = 1
INVARIANTS TypeOK NoLostWakeup Granted
PROPERTIES ImplementsLifecycle Converges
CHECK_DEADLOCK FALSE
