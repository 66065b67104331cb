---------------------------- MODULE TaskCustody ----------------------------
(***************************************************************************)
(* What everybody may rely on about who answers for a task: an open task   *)
(* is claimed once, and from then on it passes only from the one who holds *)
(* it to the one it was offered to, when that one accepts.  Work on it     *)
(* changes nothing of that, and a task that has a holder keeps one.        *)
(***************************************************************************)
CONSTANTS Tasks, People, NoOne

VARIABLES
    phase,      \* "absent", "open" to be claimed, "taken", or "over"
    holder,
    offer       \* who offers the task to whom

vars == <<phase, holder, offer>>

Offers == {o \in [from : People, to : People] : o.from # o.to}
NoOffer == [from |-> NoOne, to |-> NoOne]

Init ==
    /\ phase = [t \in Tasks |-> "absent"]
    /\ holder = [t \in Tasks |-> NoOne]
    /\ offer = [t \in Tasks |-> NoOffer]

PutUp(t) ==
    /\ phase[t] = "absent"
    /\ \/ phase' = [phase EXCEPT ![t] = "open"] /\ UNCHANGED holder
       \/ /\ phase' = [phase EXCEPT ![t] = "taken"]
          /\ \E a \in People : holder' = [holder EXCEPT ![t] = a]
    /\ UNCHANGED offer

Claim(t) ==
    /\ phase[t] = "open"
    /\ phase' = [phase EXCEPT ![t] = "taken"]
    /\ \E a \in People : holder' = [holder EXCEPT ![t] = a]
    /\ UNCHANGED offer

(* A task may be taken off the list without anybody claiming it.           *)
Withdraw(t) ==
    /\ phase[t] = "open"
    /\ phase' = [phase EXCEPT ![t] = "taken"]
    /\ UNCHANGED <<holder, offer>>

(* An offer may be made too late, by somebody who holds the task no more.  *)
Offer(t) ==
    /\ holder[t] # NoOne
    /\ offer[t] = NoOffer
    /\ \E o \in Offers : offer' = [offer EXCEPT ![t] = o]
    /\ UNCHANGED <<phase, holder>>

Accept(t) ==
    /\ phase[t] = "taken"
    /\ offer[t] # NoOffer /\ offer[t].from = holder[t]
    /\ holder' = [holder EXCEPT ![t] = offer[t].to]
    /\ offer' = [offer EXCEPT ![t] = NoOffer]
    /\ UNCHANGED phase

Decline(t) ==
    /\ offer[t] # NoOffer
    /\ offer' = [offer EXCEPT ![t] = NoOffer]
    /\ UNCHANGED <<phase, holder>>

Finish(t) ==
    /\ phase[t] \in {"open", "taken"}
    /\ phase' = [phase EXCEPT ![t] = "over"]
    /\ UNCHANGED <<holder, offer>>

Next == \E t \in Tasks :
    PutUp(t) \/ Claim(t) \/ Withdraw(t) \/ Offer(t) \/ Accept(t) \/ Decline(t) \/ Finish(t)

Spec == Init /\ [][Next]_vars
=============================================================================
