--------------------------- MODULE MCTaskCommands ---------------------------
EXTENDS TaskCommands, TLC

CONSTANTS t1, ann, bob, cat, nobody, run1, noRun, c1, c2

Symmetry == Permutations(People) \cup Permutations(Callers)
=============================================================================
