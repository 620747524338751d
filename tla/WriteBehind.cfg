SPECIFICATION FairSpec
CONSTANTS
    Callers = {c1, c2}
    SeedLength = 1
    MaxEvents = 3
    MaxFailures = 2
INVARIANTS
    ControllerInv
PROPERTIES
    WritesNeverOverlap
    FlushSettles
    EventuallyDurable
    ImplementsDurableLog
CHECK_DEADLOCK FALSE
