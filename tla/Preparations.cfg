SPECIFICATION FairSpec
CONSTANTS
    c1 = c1
    c2 = c2
    c3 = c3
    Calls = {c1, c2, c3}
    Kinds <- MCKinds
    Entries = {e1, e2, e3, e4, e5}
    NoCall = NoCall
    NoEntry = NoEntry
    NoSource = NoSource
    Untracked = Untracked
    MaxOwn = 3
    MaxTrouble = 1
INVARIANT
    PreparationInv
PROPERTIES
    ImplementsExclusiveSession
    CallsReturn
CHECK_DEADLOCK FALSE
