SPECIFICATION FairSpec
CONSTANTS
    Sandboxes = {s1}
    NoSandbox = NoSandbox
    Requests = {q1, q2, q3}
    MaxFaults = 2
INVARIANTS
    DestroyedIsGone
    NothingUnowned
PROPERTIES
    EveryDestroyEnds
CHECK_DEADLOCK FALSE
