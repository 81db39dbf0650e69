SPECIFICATION Spec
CONSTANTS
    FluentBits <- TwoFluentBits
    Namespace <- OneNamespace
    Namespaced = TRUE
    Specs <- Unedited
    MaxUid = 2
    MaxPending = 1
    MaxFaults = 0
INVARIANTS Granted
CHECK_DEADLOCK FALSE
