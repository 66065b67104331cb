----------------------------- MODULE WorkQueue -----------------------------
(***************************************************************************)
(* What every durable queue of the platform promises, whichever table it   *)
(* lives in (inbox_events, agent_tool_jobs, outbox_events): an item is     *)
(* submitted once; leases are granted one at a time, each with a token     *)
(* never used before; an item is settled or put back only while it is      *)
(* leased; a settled item is never leased again unless an operator reopens *)
(* it, and only queues with an operator's control plane allow that.        *)
(***************************************************************************)
EXTENDS Naturals

CONSTANTS
    Items,
    Operated    \* whether an operator can cancel and reopen items of this queue

VARIABLES
    state,      \* "absent", "ready", "leased" or "settled"
    holder,     \* the token of the current lease, 0 without one
    granted     \* the newest token

queueVars == <<state, holder, granted>>

Init ==
    /\ state = [i \in Items |-> "absent"]
    /\ holder = [i \in Items |-> 0]
    /\ granted = 0

Move(i, s, token) ==
    /\ state' = [state EXCEPT ![i] = s]
    /\ holder' = [holder EXCEPT ![i] = token]

Submit(i) == state[i] = "absent" /\ Move(i, "ready", 0) /\ UNCHANGED granted

(* An expired lease is granted anew: the item goes from holder to holder. *)
Lease(i) ==
    /\ state[i] \in {"ready", "leased"}
    /\ granted' = granted + 1
    /\ Move(i, "leased", granted + 1)

Settle(i) == state[i] = "leased" /\ Move(i, "settled", 0) /\ UNCHANGED granted

PutBack(i) == state[i] = "leased" /\ Move(i, "ready", 0) /\ UNCHANGED granted

Cancel(i) == Operated /\ state[i] = "ready" /\ Move(i, "settled", 0) /\ UNCHANGED granted

Reopen(i) == Operated /\ state[i] = "settled" /\ Move(i, "ready", 0) /\ UNCHANGED granted

Next == \E i \in Items : Submit(i) \/ Lease(i) \/ Settle(i) \/ PutBack(i) \/ Cancel(i) \/ Reopen(i)

Spec == Init /\ [][Next]_queueVars
=============================================================================
