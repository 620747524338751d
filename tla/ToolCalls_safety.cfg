SPECIFICATION FairSpec
CONSTANTS
    N = 4
    MaxParallel = 2
INVARIANTS
    SchedulerInv
    LogLegal
    ReturnsAllAnswered
    ResultsInOrder
    ThrowsQuiescent
PROPERTIES
    NothingStartsLate
    Settles
CHECK_DEADLOCK FALSE
