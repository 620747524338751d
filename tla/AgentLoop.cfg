SPECIFICATION FairSpec
CONSTANTS
    Msgs = {m1, m2}
    Causes = {"user", "parent"}
    MaxSteps = 2
    MaxDepth = 3
INVARIANTS
    DriverInv
    MessagesKept
    RestingOwesNothing
    CeilingIsReported
PROPERTIES
    AbortedTurnWindsDown
    Converges
CHECK_DEADLOCK FALSE
