SPECIFICATION FairSpec
CONSTANTS
    Calls = {1, 2}
    MaxTurns = 2
    MaxSteps = 1
    MaxCrashes = 2
    Framed = TRUE
INVARIANTS
    LogLegal
    EveryCallAnswered
    EffectsAreTold
PROPERTIES
    ResumesBalanced
    ConfirmedIsForever
    Recovers
CHECK_DEADLOCK FALSE
