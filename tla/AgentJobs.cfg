SPECIFICATION FairSpec
CONSTANTS
    p1 = p1
    p2 = p2
    NoJob = NoJob
    Proposals = {p1}
    External = {p1}
    Workers = {w1, w2}
    MaxAttempts <- TwoAttempts
    Requests = {r1}
    LeaseTicks = 1
    RetryTicks = 1
    Horizon = 1
    TenantConcurrency = 1
    MaxClaims = 3
INVARIANTS
    LinkedStatuses
    RetryWithinBudget
    SuccessIsReal
PROPERTIES
    OnlyHolderSettles
    OnlyOperatorReopens
    ImplementsWorkQueue
    EveryJobSettles
