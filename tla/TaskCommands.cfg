SPECIFICATION Spec
CONSTANTS
    t1 = t1
    ann = ann
    bob = bob
    cat = cat
    nobody = nobody
    run1 = run1
    noRun = noRun
    c1 = c1
    c2 = c2
    Packages = {t1}
    People = {ann, bob, cat}
    NoOne = nobody
    Runs = {run1}
    NoRun = noRun
    Callers = {c1, c2}
    MaxVersion = 4
    MaxHandoffs = 2
INVARIANT
    ChainUnbroken
PROPERTY
    ImplementsCustody
SYMMETRY Symmetry
CHECK_DEADLOCK FALSE
