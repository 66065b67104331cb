------------------------- MODULE ApprovalLifecycle -------------------------
(***************************************************************************)
(* What everybody may rely on about an approval (pi_approvals.status),     *)
(* whoever decides it and however many of them there are: it is asked for  *)
(* once and decided once; a refusal is final; what was granted may lapse   *)
(* but is never granted again.                                             *)
(***************************************************************************)
CONSTANT Approvals

VARIABLE status

Refusals == {"rejected", "cancelled", "expired"}
Lapses == {"expired", "superseded"}
Statuses == {"absent", "pending", "approved"} \cup Refusals \cup Lapses

Init == status = [a \in Approvals |-> "absent"]

Becomes(a, s) == status' = [status EXCEPT ![a] = s]

Request(a) == status[a] = "absent" /\ Becomes(a, "pending")
Grant(a) == status[a] = "pending" /\ Becomes(a, "approved")
Refuse(a) == status[a] = "pending" /\ \E s \in Refusals : Becomes(a, s)
Lapse(a) == status[a] = "approved" /\ \E s \in Lapses : Becomes(a, s)

Next == \E a \in Approvals : Request(a) \/ Grant(a) \/ Refuse(a) \/ Lapse(a)

Spec == Init /\ [][Next]_status
=============================================================================
