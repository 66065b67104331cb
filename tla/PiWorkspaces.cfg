SPECIFICATION WsSpec
CONSTANTS
    l = l
    w = w
    o = o
    g = g
    t = t
    i1 = i1
    i2 = i2
    q1 = q1
    q2 = q2
    Tenants = {t}
    Instances = {i1, i2}
    Named = {i1}
    Slots = {q1, q2}
    Leases = {l}
    Workspaces = {w}
    Objects = {o}
    Grants = {g}
    TenantOf <- OneTenant
    LeaseOf <- OneLease
    ObjectOf <- OneObject
    MaxCalls = 3
    MaxStarts = 3
    MaxMishaps = 1
CONSTRAINT GitOrObjects
SYMMETRY Symmetry
INVARIANTS AcknowledgedIsKept WithdrawnStaysAway
CHECK_DEADLOCK FALSE
