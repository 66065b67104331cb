----------------------------- MODULE PiApproval -----------------------------
(***************************************************************************)
(* The approval gateway of the Pi agent: proposals for protected actions,  *)
(* the decisions of their approvers, and the permit for the action.        *)
(*                                                                         *)
(* Every service call reads the approval, awaits, and then writes it in a  *)
(* transaction that looks again at less than the call looked at first.     *)
(* `calls` holds the calls between the two.  A tool call of the agent      *)
(* waits for its approval; a delivery action asks for a permit whenever    *)
(* its worker finds it.                                                    *)
(***************************************************************************)
EXTENDS Naturals, FiniteSets

CONSTANTS
    Approvals,
    Actors,
    Requester,      \* who asked
    Needed,         \* requiredApprovalCount: 1 at risk level R2, 2 at R3
    Keys,           \* idempotency keys; clients make them up at random for a decision, so
    MadeFor,        \* no two people, and no two approvals, ever share one
    MaxFacts,       \* bound: changes of the objects and the policy an approval is bound to
    MaxCalls        \* bound: calls of people and delivery workers under way

ASSUME ActorAssumption == /\ IsFiniteSet(Actors)
                          /\ Requester \in [Approvals -> Actors]
ASSUME KeyAssumption == MadeFor \in [Keys -> Approvals \X Actors]
ASSUME NumberAssumption == /\ Needed \in [Approvals -> Nat \ {0}]
                           /\ {MaxFacts, MaxCalls} \subseteq Nat

Verdicts == {"approve", "reject"}
Decisions == {d \in [approval : Approvals, actor : Actors, verdict : Verdicts, key : Keys] :
                 MadeFor[d.key] = <<d.approval, d.actor>>}

VARIABLES
    status,     \* pi_approvals.status
    chosen,     \* required_approver_ids
    bound,      \* expected_object_versions and policy_snapshot, as a version of `facts`
    due,        \* whether expires_at is over
    facts,      \* the version the objects and the policy are at
    decisions,  \* pi_approval_decisions
    told,       \* decisions their actors were told are recorded
    calls,
    permits,    \* the permits issued: <<approval, version the objects were read at>>
    tool        \* what the tool call is doing

vars == <<status, chosen, bound, due, facts, decisions, told, calls, permits, tool>>

Lifecycle == INSTANCE ApprovalLifecycle

CallKinds == [op : {"decide"}, decision : Decisions]
       \cup [op : {"expire", "cancel", "lapse"}, approval : Approvals]
       \cup [op : {"resume"}, approval : Approvals, facts : Nat]

TypeOK ==
    /\ status \in [Approvals -> Lifecycle!Statuses]
    /\ chosen \in [Approvals -> SUBSET Actors]
    /\ bound \in [Approvals -> Nat]
    /\ due \in [Approvals -> BOOLEAN]
    /\ facts \in Nat
    /\ decisions \subseteq Decisions
    /\ told \subseteq Decisions
    /\ calls \subseteq CallKinds
    /\ permits \subseteq Approvals \X Nat
    /\ tool \in [Approvals -> {"none", "waiting", "resuming", "running", "denied"}]

Init ==
    /\ status = [a \in Approvals |-> "absent"]
    /\ chosen = [a \in Approvals |-> {}]
    /\ bound = [a \in Approvals |-> 0]
    /\ due = [a \in Approvals |-> FALSE]
    /\ facts = 0
    /\ decisions = {}
    /\ told = {}
    /\ calls = {}
    /\ permits = {}
    /\ tool = [a \in Approvals |-> "none"]

-----------------------------------------------------------------------------
(* The world around the gateway.                                           *)

(* A merge, a refresh or a new policy changes what approvals are bound to. *)
Drift ==
    /\ facts < MaxFacts
    /\ facts' = facts + 1
    /\ UNCHANGED <<status, chosen, bound, due, decisions, told, calls, permits, tool>>

(* expires_at passes: five or ten minutes after the proposal.              *)
TimeIsUp(a) ==
    /\ status[a] # "absent" /\ ~due[a]
    /\ due' = [due EXCEPT ![a] = TRUE]
    /\ UNCHANGED <<status, chosen, bound, facts, decisions, told, calls, permits, tool>>

-----------------------------------------------------------------------------
(* Calls.                                                                  *)

Launch(call) == calls' = calls \cup {call}
Start(call) == Cardinality(calls) < MaxCalls /\ Launch(call)

(* The directory's candidates are cut to as many as are needed, without    *)
(* the requester.  The caller, a tool call or the delivery service, read   *)
(* the versions some time ago.  Asking again under the same key returns    *)
(* what is there.                                                          *)
CreateProposal(a) ==
    /\ status[a] = "absent"
    /\ status' = [status EXCEPT ![a] = "pending"]
    /\ \E s \in SUBSET (Actors \ {Requester[a]}) :
        /\ Cardinality(s) = Needed[a]
        /\ chosen' = [chosen EXCEPT ![a] = s]
    /\ \E f \in 0 .. facts : bound' = [bound EXCEPT ![a] = f]
    /\ \E t \in {"none", "waiting"} : tool' = [tool EXCEPT ![a] = t]
    /\ UNCHANGED <<due, facts, decisions, told, calls, permits>>

(* The store looks a key up in the tenant, the service in the approval;     *)
(* neither looks at the actor.                                              *)
SameKey(d) == {e \in decisions : e.key = d.key}
Prior(d) == {e \in SameKey(d) : e.approval = d.approval}

(* recordDecision up to the store: a repetition is answered from the       *)
(* record, one that is late expires the approval instead.                  *)
BeginDecision(d) ==
    /\ Prior(d) = {}
    /\ status[d.approval] = "pending"
    /\ \/ due[d.approval] /\ Start([op |-> "expire", approval |-> d.approval])
       \/ /\ ~due[d.approval]
          /\ d.actor \in chosen[d.approval]
          /\ d.actor # Requester[d.approval]
          /\ Start([op |-> "decide", decision |-> d])
    /\ UNCHANGED <<status, chosen, bound, due, facts, decisions, told, permits, tool>>

RepeatDecision(d) ==
    /\ \E e \in Prior(d) : e.verdict = d.verdict
    /\ told' = told \cup {d}
    /\ UNCHANGED <<status, chosen, bound, due, facts, decisions, calls, permits, tool>>

Approving(a, ds) == {e \in ds : e.approval = a /\ e.verdict = "approve"}

(* The status after a decision, counted over the rows of the approval.     *)
Outcome(d, ds) ==
    IF d.verdict = "reject" THEN "rejected"
    ELSE IF Cardinality(Approving(d.approval, ds)) >= Needed[d.approval] THEN "approved"
    ELSE "pending"

(* Slip: an actor may decide again under another key.                      *)
HasDecidedByKey(d) == SameKey(d) # {}

(* The store accepts one decision per actor.                               *)
HasDecided(d) == \E e \in decisions : e.approval = d.approval /\ e.actor = d.actor

(* Slip: whatever was recorded under the key is taken for the answer.      *)
AnsweredUnread(d) == {d}

(* A call that finds its key is answered if its verdict is the one on      *)
(* record, and fails if it is not.                                         *)
Answered(d) == IF \E e \in SameKey(d) : e.verdict = d.verdict THEN {d} ELSE {}

(* The store's transaction, with the approval's row locked: neither the    *)
(* expiry nor the approver is looked at again.                             *)
CommitDecision(c) ==
    /\ c.op = "decide"
    /\ calls' = calls \ {c}
    /\ LET d == c.decision IN
        \/ /\ SameKey(d) # {}
           /\ told' = told \cup Answered(d)
           /\ UNCHANGED <<status, decisions>>
        \/ /\ SameKey(d) = {}
           /\ HasDecided(d) \/ status[d.approval] # "pending"
           /\ UNCHANGED <<status, decisions, told>>
        \/ /\ SameKey(d) = {} /\ ~HasDecided(d) /\ status[d.approval] = "pending"
           /\ decisions' = decisions \cup {d}
           /\ told' = told \cup {d}
           /\ status' = [status EXCEPT ![d.approval] = Outcome(d, decisions')]
    /\ UNCHANGED <<chosen, bound, due, facts, permits, tool>>

(* cancel(), by the requester or an administrator.                         *)
BeginCancel(a) ==
    /\ status[a] = "pending"
    /\ Start([op |-> "cancel", approval |-> a])
    /\ UNCHANGED <<status, chosen, bound, due, facts, decisions, told, permits, tool>>

(* Slip: the status is overwritten without a look at it.                   *)
TransitionAnyway(a, from, to) == status' = [status EXCEPT ![a] = to]

(* transition() compares the status and nothing else; a call that comes    *)
(* too late changes nothing.                                               *)
Transition(a, from, to) == status' = IF status[a] = from THEN [status EXCEPT ![a] = to] ELSE status

CommitTransition(c) ==
    /\ \/ c.op = "expire" /\ Transition(c.approval, "pending", "expired")
       \/ c.op = "cancel" /\ Transition(c.approval, "pending", "cancelled")
       \/ c.op = "lapse" /\ Transition(c.approval, "approved", "expired")
    /\ calls' = calls \ {c}
    /\ tool' = [tool EXCEPT ![c.approval] = IF c.op = "lapse" /\ @ = "resuming" THEN "denied" ELSE @]
    /\ UNCHANGED <<chosen, bound, due, facts, decisions, told, permits>>

(* revalidate() up to its transition: the objects are read, and may change *)
(* before it.                                                              *)
Resuming(a) ==
    /\ status[a] = "approved"
    /\ Launch(IF due[a] THEN [op |-> "lapse", approval |-> a]
              ELSE [op |-> "resume", approval |-> a, facts |-> facts])

(* A delivery worker asks for a permit, as often as it likes.              *)
BeginResume(a) ==
    /\ tool[a] = "none"
    /\ Cardinality(calls) < MaxCalls
    /\ Resuming(a)
    /\ UNCHANGED <<status, chosen, bound, due, facts, decisions, told, permits, tool>>

Permitted(c) == c.facts = bound[c.approval] /\ status[c.approval] = "approved"

CommitResume(c) ==
    /\ c.op = "resume"
    /\ LET a == c.approval IN
        /\ Transition(a, "approved", IF c.facts = bound[a] THEN "approved" ELSE "superseded")
        /\ permits' = IF Permitted(c) THEN permits \cup {<<a, c.facts>>} ELSE permits
        /\ tool' = [tool EXCEPT ![a] = IF @ # "resuming" THEN @
                                       ELSE IF Permitted(c) THEN "running" ELSE "denied"]
    /\ calls' = calls \ {c}
    /\ UNCHANGED <<chosen, bound, due, facts, decisions, told>>

(* The process of a call dies before its write, and with it a tool call.   *)
Abandon(c) ==
    /\ calls' = calls \ {c}
    /\ tool' = IF c.op \in {"lapse", "resume"}
               THEN [tool EXCEPT ![c.approval] = IF @ = "resuming" THEN "denied" ELSE @]
               ELSE tool
    /\ UNCHANGED <<status, chosen, bound, due, facts, decisions, told, permits>>

-----------------------------------------------------------------------------
(* waitForApproval: the tool call polls its approval.                      *)

Denied(a) == tool' = [tool EXCEPT ![a] = "denied"]

(* Slip: only the decision is waited for.                                  *)
PollDecided(a) ==
    /\ tool[a] = "waiting"
    /\ \/ Resuming(a) /\ tool' = [tool EXCEPT ![a] = "resuming"]
       \/ status[a] \notin {"pending", "approved"} /\ Denied(a) /\ UNCHANGED calls
    /\ UNCHANGED <<status, chosen, bound, due, facts, decisions, told, permits>>

Poll(a) ==
    /\ tool[a] = "waiting"
    /\ \/ Resuming(a) /\ tool' = [tool EXCEPT ![a] = "resuming"]
       \/ status[a] \notin {"pending", "approved"} /\ Denied(a) /\ UNCHANGED calls
       \/ /\ status[a] = "pending" /\ due[a]
          /\ Launch([op |-> "expire", approval |-> a])
          /\ Denied(a)
    /\ UNCHANGED <<status, chosen, bound, due, facts, decisions, told, permits>>

(* The run is aborted or the wait is over: the approval stays as it is.    *)
GiveUp(a) ==
    /\ tool[a] = "waiting"
    /\ Denied(a)
    /\ UNCHANGED <<status, chosen, bound, due, facts, decisions, told, calls, permits>>

-----------------------------------------------------------------------------
Commit(c) == CommitDecision(c) \/ CommitTransition(c) \/ CommitResume(c)

Next ==
    \/ Drift
    \/ \E a \in Approvals : TimeIsUp(a) \/ CreateProposal(a) \/ BeginCancel(a) \/ BeginResume(a)
                            \/ Poll(a) \/ GiveUp(a)
    \/ \E d \in Decisions : BeginDecision(d) \/ RepeatDecision(d)
    \/ \E c \in calls : Commit(c) \/ Abandon(c)

Spec == Init /\ [][Next]_vars

(* Time passes, a waiting tool call polls every 250 ms, and the database   *)
(* answers the calls.                                                      *)
FairSpec ==
    /\ Spec
    /\ \A a \in Approvals : WF_vars(TimeIsUp(a)) /\ WF_vars(Poll(a))
    /\ WF_vars(\E c \in calls : Commit(c))

-----------------------------------------------------------------------------
(* Properties.                                                             *)

(* A protected action is permitted, and a tool runs, only after as many    *)
(* different people as its risk level needs have approved it, none of them *)
(* the one who asked and none of them against it: whatever keys their      *)
(* clients use and however their calls interleave.                         *)
Agreed(a) ==
    /\ \E s \in SUBSET (Actors \ {Requester[a]}) :
        /\ Cardinality(s) >= Needed[a]
        /\ \A x \in s : \E d \in decisions : d.approval = a /\ d.actor = x /\ d.verdict = "approve"
    /\ \A d \in decisions : d.approval = a => d.verdict # "reject"

ApprovedByEnough ==
    \A a \in Approvals :
        status[a] \in {"approved", "superseded"} \/ tool[a] = "running" \/ (\E p \in permits : p[1] = a)
            => Agreed(a)

(* Whoever is told that a decision is recorded finds it recorded, with     *)
(* that verdict: also after a lost answer, a double click or a change of   *)
(* mind under the same key.                                                *)
AnswersAreTrue == told \subseteq decisions

(* Whatever the calls do between their reads and their writes, an approval *)
(* goes through its life once: no decision after a refusal, no second      *)
(* grant after a lapse.                                                    *)
ImplementsLifecycle == Lifecycle!Spec

(* A tool call that waits for its approval runs or is refused in the end,  *)
(* also if nobody decides.                                                 *)
EveryWaitEnds == \A a \in Approvals : tool[a] = "waiting" ~> tool[a] \in {"running", "denied"}
=============================================================================
