--------------------------- MODULE MCPiWorkspaces ---------------------------
(***************************************************************************)
(* One tenant with a lease, a workspace under it, an object and a grant    *)
(* for it.                                                                 *)
(***************************************************************************)
EXTENDS PiWorkspaces, TLC

CONSTANTS l, w, o, g, t, i1, i2, q1, q2

OneTenant == [x \in Items |-> t]
OneLease == [x \in Workspaces |-> l]
OneObject == [x \in Grants |-> o]

(* Checkouts and artifacts share nothing but the row they are written to:  *)
(* a behaviour is about the one or the other.                              *)
GitOrObjects == ids \subseteq {l, w} \/ ids \subseteq {o, g}

Symmetry == Permutations({q1, q2})
=============================================================================
