SPECIFICATION Spec
CONSTANTS
    c1 = c1
    c2 = c2
    c3 = c3
    Calls = {c1, c2, c3}
    Kinds <- WritersAndReader
    Entries = {e1, e2, e3, e4, e5}
    NoCall = NoCall
    NoEntry = NoEntry
    NoSource = NoSource
    Untracked = Untracked
    MaxOwn = 3
    MaxTrouble = 0
INVARIANT
    CursorIsLogLength
CHECK_DEADLOCK FALSE
