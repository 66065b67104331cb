---------------------------- MODULE MCPiDelivery ----------------------------
(* PiDelivery on small instances.                                          *)
EXTENDS PiDelivery, TLC

CONSTANTS m, m2, r, c1, c2, w1, w2

Symmetry == Permutations(Callers) \cup Permutations(Workers)
=============================================================================
