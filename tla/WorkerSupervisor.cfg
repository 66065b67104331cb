SPECIFICATION Spec
CONSTANTS
    NRoles = 2
    Detached = {2}
    Waited = {1}
    NTenants = 3
    Broken = {1}
    Runs = {"run"}
    start = start
    cancel = cancel
    other = other
    Leases <- LeasesValue
    RunOf <- RunOfValue
    Budget = 1
    MaxFaults = 1
INVARIANTS
    StopIsAnnounced
    OnlyDisplacedIsLeft
PROPERTIES
    EveryTenantGetsATurn
    ShutdownEnds
CHECK_DEADLOCK FALSE
