SPECIFICATION FairSpec
CONSTANTS
    r2 = r2
    r3 = r3
    asker = asker
    x = x
    y = y
    z = z
    Approvals = {r3}
    Actors = {asker, x, y, z}
    Requester <- AskedByOne
    Needed <- ByRisk
    Keys <- KeysValue
    MadeFor <- MadeForValue
    MaxFacts = 2
    MaxCalls = 3
INVARIANTS
    ApprovedByEnough
    AnswersAreTrue
PROPERTIES
    ImplementsLifecycle
    EveryWaitEnds
CHECK_DEADLOCK FALSE
