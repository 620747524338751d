SPECIFICATION FairSpec
CONSTANTS
    Calls = {c1}
    Owner = Owner
    Delays = {1}
    Instants = {}
    Intervals = {1}
    Horizon = 3
    MaxIds = 1
    MaxTurns = 2
    MaxTrouble = 1
PROPERTIES
    RemindersAreDelivered
    WaitsEnd
CHECK_DEADLOCK FALSE
