SPECIFICATION FairSpec
CONSTANTS
    NoId = NoId
    DomainEvents = {d}
    Messages = {}
    InboxWorkers = {i1}
    OutboxWorkers = {o1, o2}
    Senders = {}
    MaxAttempts = 2
    LeaseTicks = 1
    RetryTicks = 1
    TenantConcurrency = 1
    Horizon = 1
    MaxDeliveries = 1
    MaxClaims = 3
    MaxFaults = 1
INVARIANTS
    NothingIsLost
PROPERTIES
    EventsGetPublished
