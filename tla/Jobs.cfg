SPECIFICATION JobsFairSpec
CONSTANTS
    a = a
    j1 = j1
    j2 = j2
    u1 = u1
    Jobs = {j1, j2, u1}
    Owners = {a}
    NoOwner = NoOwner
    OwnerOf <- MCOwnerOf
    Waits = {w1}
    NoJob = NoJob
    Outcomes = {"completed"}
    Limit = 1
INVARIANT
    RegistryInv
PROPERTIES
    ImplementsCompletionDelivery
    TeardownEnds
CHECK_DEADLOCK FALSE
