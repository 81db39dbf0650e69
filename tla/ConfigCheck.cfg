\* One config that changes, two that refer to something, and an update of the
\* operator, with one fault.
SPECIFICATION FairSpec
CONSTANTS
    Configs = {"app", "sys"}
    Managers = {1, 2}
    Worlds <- AllWorlds
    MaxFaults = 1
INVARIANTS TypeOK NoLostWakeup
PROPERTIES NeverBackwards ImplementsPublisher Converges Quiesces
CHECK_DEADLOCK FALSE
