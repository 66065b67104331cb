---------------------------- MODULE MCPiApproval ----------------------------
(* PiApproval on small instances: the first actor asks, and each has two   *)
(* keys for each approval.                                                 *)
EXTENDS PiApproval

CONSTANTS r2, r3, asker, x, y, z

AskedByOne == [a \in Approvals |-> asker]
KeysValue == Approvals \X Actors \X {1, 2}
MadeForValue == [k \in KeysValue |-> <<k[1], k[2]>>]
ByRisk == [a \in Approvals |-> IF a = r3 THEN 2 ELSE 1]
=============================================================================
