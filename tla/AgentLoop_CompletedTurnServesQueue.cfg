SPECIFICATION Spec
CONSTANTS
    Msgs = {m1, m2}
    Causes = {"user"}
    MaxSteps = 1
    MaxDepth = 2
PROPERTY
    CompletedTurnServesQueue
CHECK_DEADLOCK FALSE
