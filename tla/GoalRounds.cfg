SPECIFICATION FairSpec
CONSTANTS
    Humans = {h1}
    Ids = {i1, i2, i3, i4}
    NoAttempt = NoAttempt
    MaxRounds = 2
    MaxRev = 2
    MaxTrouble = 2
INVARIANT
    RoundsInv
PROPERTIES
    RoundsUnderAuthority
    GoalAdvances
CHECK_DEADLOCK FALSE
