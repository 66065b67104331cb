--------------------------- MODULE MCInboxOutbox ---------------------------
(* InboxOutbox on small instances.                                         *)
EXTENDS InboxOutbox, TLC

Symmetry == Permutations(InboxWorkers) \cup Permutations(OutboxWorkers)
=============================================================================
