SPECIFICATION Spec
CONSTANTS
    Calls = {c1}
    Owner = Owner
    Delays = {}
    Instants = {2}
    Intervals = {2}
    Horizon = 4
    MaxIds = 2
    MaxTurns = 1
    MaxTrouble = 1
INVARIANTS
    QueueInv
    ReminderInv
    AnswersSurvive
PROPERTIES
    ActsOnDurable
    NeverEarly
CHECK_DEADLOCK FALSE
