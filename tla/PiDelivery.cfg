SPECIFICATION FairSpec
CONSTANTS
    m = m
    m2 = m2
    r = r
    Merges = {m}
    Releases = {}
    c1 = c1
    c2 = c2
    w1 = w1
    w2 = w2
    Callers = {c1}
    Workers = {w1, w2}
    MaxRows = 2
    MaxFaults = 1
INVARIANTS
    RowActsOnce
    ActedOnlyIfGranted
    OutcomesAreReal
PROPERTIES
    ImplementsWorkQueue
    OldestSettles
CHECK_DEADLOCK FALSE
