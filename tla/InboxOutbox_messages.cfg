SPECIFICATION FairSpec
CONSTANTS
    NoId = NoId
    DomainEvents = {}
    Messages = {m}
    InboxWorkers = {i1, i2}
    OutboxWorkers = {}
    Senders = {i1}
    MaxAttempts = 2
    LeaseTicks = 1
    RetryTicks = 1
    TenantConcurrency = 1
    Horizon = 1
    MaxDeliveries = 2
    MaxClaims = 3
    MaxFaults = 1
INVARIANTS
    HandledOnce
PROPERTIES
    ImplementsWorkQueues
    MessagesGetReplies
