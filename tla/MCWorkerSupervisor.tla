------------------------- MODULE MCWorkerSupervisor -------------------------
EXTENDS WorkerSupervisor

CONSTANTS start, cancel, other      \* leases: on two commands of one run, and on another tenant's

LeasesValue == {start, cancel, other}
RunOfValue == [l \in LeasesValue |-> <<2, IF l = other THEN 2 ELSE 0, "run">>]
=============================================================================
