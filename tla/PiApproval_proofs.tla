------------------------- MODULE PiApproval_proofs -------------------------
(***************************************************************************)
(* What the approval gateway promises for any number of approvals, actors, *)
(* keys and calls under way, and whatever the objects do meanwhile.        *)
(***************************************************************************)
EXTENDS PiApproval, FiniteSetTheorems, TLAPS

-----------------------------------------------------------------------------
(* Type correctness.                                                       *)

(* What a call under way carries, by its kind. *)
LEMMA CallShape ==
    ASSUME NEW c \in CallKinds
    PROVE  /\ c.op \in {"decide", "expire", "cancel", "lapse", "resume"}
           /\ c.op = "decide" => c.decision \in Decisions
           /\ c.op # "decide" => c.approval \in Approvals
           /\ c.op = "resume" => c.facts \in Nat
  BY DEF CallKinds

LEMMA DecisionShape ==
    ASSUME NEW d \in Decisions
    PROVE  d.approval \in Approvals /\ d.actor \in Actors /\ d.verdict \in Verdicts /\ d.key \in Keys
  BY DEF Decisions

LEMMA OutcomeStatus == \A d, ds : Outcome(d, ds) \in {"rejected", "approved", "pending"}
  BY DEF Outcome

LEMMA InitType == Init => TypeOK
  BY DEF Init, TypeOK, Lifecycle!Statuses

LEMMA StepType == TypeOK /\ [Next]_vars => TypeOK'
  <1> SUFFICES ASSUME TypeOK, [Next]_vars PROVE TypeOK'
    OBVIOUS
  <1> USE DEF TypeOK
  <1>1. CASE Drift
    BY <1>1 DEF Drift
  <1>2. ASSUME NEW a \in Approvals, TimeIsUp(a) PROVE TypeOK'
    BY <1>2 DEF TimeIsUp
  <1>3. ASSUME NEW a \in Approvals, CreateProposal(a) PROVE TypeOK'
    <2>1. status' \in [Approvals -> Lifecycle!Statuses]
      BY <1>3 DEF CreateProposal, Lifecycle!Statuses
    <2>2. chosen' \in [Approvals -> SUBSET Actors]
      BY <1>3 DEF CreateProposal
    <2>3. bound' \in [Approvals -> Nat]
      BY <1>3 DEF CreateProposal
    <2>4. tool' \in [Approvals -> {"none", "waiting", "resuming", "running", "denied"}]
      BY <1>3 DEF CreateProposal
    <2> QED BY <1>3, <2>1, <2>2, <2>3, <2>4 DEF CreateProposal
  <1>4. ASSUME NEW a \in Approvals, BeginCancel(a) PROVE TypeOK'
    BY <1>4 DEF BeginCancel, Start, Launch, CallKinds
  <1>5. ASSUME NEW a \in Approvals, Resuming(a) PROVE calls' \subseteq CallKinds
    BY <1>5 DEF Resuming, Launch, CallKinds
  <1>6. ASSUME NEW a \in Approvals, BeginResume(a) PROVE TypeOK'
    BY <1>5, <1>6 DEF BeginResume
  <1>7. ASSUME NEW a \in Approvals, Poll(a) PROVE TypeOK'
    <2>1. calls' \subseteq CallKinds
      <3>1. CASE Resuming(a)
        BY <1>5, <3>1
      <3>2. CASE UNCHANGED calls
        BY <3>2
      <3>3. CASE Launch([op |-> "expire", approval |-> a])
        BY <3>3 DEF Launch, CallKinds
      <3> QED BY <1>7, <3>1, <3>2, <3>3 DEF Poll
    <2>2. tool' \in [Approvals -> {"none", "waiting", "resuming", "running", "denied"}]
      BY <1>7 DEF Poll, Denied
    <2> QED BY <1>7, <2>1, <2>2 DEF Poll
  <1>8. ASSUME NEW a \in Approvals, GiveUp(a) PROVE TypeOK'
    BY <1>8 DEF GiveUp, Denied
  <1>9. ASSUME NEW d \in Decisions, BeginDecision(d) PROVE TypeOK'
    <2>1. calls' \subseteq CallKinds
      BY <1>9, DecisionShape DEF BeginDecision, Start, Launch, CallKinds
    <2> QED BY <1>9, <2>1 DEF BeginDecision
  <1>10. ASSUME NEW d \in Decisions, RepeatDecision(d) PROVE TypeOK'
    BY <1>10 DEF RepeatDecision
  <1>11. ASSUME NEW c \in calls, CommitDecision(c) PROVE TypeOK'
    <2>1. c.decision \in Decisions
      BY <1>11, CallShape DEF CommitDecision
    <2>2. decisions' \subseteq Decisions
      BY <1>11, <2>1 DEF CommitDecision
    <2>3. told' \subseteq Decisions
      BY <1>11, <2>1 DEF CommitDecision, Answered
    <2>4. status' \in [Approvals -> Lifecycle!Statuses]
      BY <1>11, <2>1, OutcomeStatus DEF CommitDecision, Lifecycle!Statuses, Lifecycle!Refusals
    <2> QED BY <1>11, <2>2, <2>3, <2>4 DEF CommitDecision
  <1>12. ASSUME NEW c \in calls, CommitTransition(c) PROVE TypeOK'
    <2>1. c.approval \in Approvals
      BY <1>12, CallShape DEF CommitTransition
    <2>2. status' \in [Approvals -> Lifecycle!Statuses]
      BY <1>12, <2>1 DEF CommitTransition, Transition, Lifecycle!Statuses, Lifecycle!Refusals, Lifecycle!Lapses
    <2>3. tool' \in [Approvals -> {"none", "waiting", "resuming", "running", "denied"}]
      BY <1>12, <2>1 DEF CommitTransition
    <2> QED BY <1>12, <2>2, <2>3 DEF CommitTransition
  <1>13. ASSUME NEW c \in calls, CommitResume(c) PROVE TypeOK'
    <2>1. c.approval \in Approvals /\ c.facts \in Nat
      BY <1>13, CallShape DEF CommitResume
    <2>2. status' \in [Approvals -> Lifecycle!Statuses]
      BY <1>13, <2>1 DEF CommitResume, Transition, Lifecycle!Statuses, Lifecycle!Refusals, Lifecycle!Lapses
    <2>3. tool' \in [Approvals -> {"none", "waiting", "resuming", "running", "denied"}]
      BY <1>13, <2>1 DEF CommitResume
    <2>4. permits' \subseteq Approvals \X Nat
      BY <1>13, <2>1 DEF CommitResume
    <2> QED BY <1>13, <2>2, <2>3, <2>4 DEF CommitResume
  <1>14. ASSUME NEW c \in calls, Abandon(c) PROVE TypeOK'
    <2>1. c.op \in {"lapse", "resume"} => c.approval \in Approvals
      BY CallShape
    <2>2. tool' \in [Approvals -> {"none", "waiting", "resuming", "running", "denied"}]
      BY <1>14, <2>1 DEF Abandon
    <2> QED BY <1>14, <2>2 DEF Abandon
  <1>15. CASE UNCHANGED vars
    BY <1>15 DEF vars
  <1> QED BY <1>1, <1>2, <1>3, <1>4, <1>6, <1>7, <1>8, <1>9, <1>10, <1>11, <1>12, <1>13, <1>14, <1>15
          DEF Next, Commit

(* The rows of approvals and decisions, the calls under way and the state  *)
(* of the tool calls keep to their types.                                  *)
THEOREM TypeCorrect == Spec => []TypeOK
  BY InitType, StepType, PTL DEF Spec

-----------------------------------------------------------------------------
(* Enough different approvers.                                             *)

(* What the store's transaction keeps although it looks at less than the   *)
(* call did: one decision for each actor, none by the requester because    *)
(* no such call gets that far, and none against what is granted.           *)
OneDecisionEach ==
    \A d, e \in decisions : d.approval = e.approval /\ d.actor = e.actor => d = e

NobodyDecidesHisOwn ==
    /\ \A d \in decisions : d.actor # Requester[d.approval]
    /\ \A c \in calls : c.op = "decide" => c.decision.actor # Requester[c.decision.approval]

RefusalsStand == \A d \in decisions : d.verdict = "reject" => status[d.approval] = "rejected"

Granted(a) ==
    status[a] \in {"approved", "superseded"} \/ tool[a] = "running" \/ (\E p \in permits : p[1] = a)

GrantsAreDecided == \A a \in Approvals : Granted(a) => status[a] \in {"approved", "expired", "superseded"}

GrantInv ==
    /\ TypeOK
    /\ OneDecisionEach
    /\ NobodyDecidesHisOwn
    /\ RefusalsStand
    /\ GrantsAreDecided
    /\ ApprovedByEnough

(* Where each actor decides once, decisions are no more than their actors. *)
LEMMA ActorsAreAsMany ==
    ASSUME NEW ds \in SUBSET Decisions,
           \A d, e \in ds : d.actor = e.actor => d = e
    PROVE  LET s == {e.actor : e \in ds}
           IN  s \subseteq Actors /\ Cardinality(s) \in Nat /\ Cardinality(ds) \in Nat
               /\ Cardinality(ds) <= Cardinality(s)
  <1> DEFINE s == {e.actor : e \in ds}
             f == [e \in ds |-> e.actor]
  <1>1. s \subseteq Actors
    BY DecisionShape
  <1>2. IsFiniteSet(s)
    BY <1>1, ActorAssumption, FS_Subset
  <1>3. f \in Injection(ds, s)
    <2>1. f \in [ds -> s]
      OBVIOUS
    <2>2. \A d, e \in DOMAIN f : f[d] = f[e] => d = e
      OBVIOUS
    <2> QED BY <2>1, <2>2 DEF Injection, IsInjective
  <1>4. IsFiniteSet(ds) /\ Cardinality(ds) <= Cardinality(s)
    <2> HIDE DEF s, f
    <2> QED BY <1>2, <1>3, FS_Injection
  <1>5. Cardinality(s) \in Nat /\ Cardinality(ds) \in Nat
    BY <1>2, <1>4, FS_CardinalityType
  <1> QED BY <1>1, <1>4, <1>5

(* An agreement that is reached stays: it is not decided about any more.   *)
LEMMA AgreementStays ==
    ASSUME NEW a \in Approvals, Agreed(a), decisions \subseteq decisions',
           \A d \in decisions' : d \in decisions \/ d.approval # a
    PROVE  Agreed(a)'
  BY DEF Agreed

(* The decision that completes the count completes the agreement.          *)
LEMMA DecisionGrants ==
    ASSUME GrantInv, TypeOK', OneDecisionEach', NobodyDecidesHisOwn',
           NEW c \in calls, CommitDecision(c),
           NEW a \in Approvals, status'[a] = "approved", status[a] # "approved"
    PROVE  Agreed(a)'
  <1> DEFINE d == c.decision
             ds == Approving(a, decisions')
             s == {e.actor : e \in ds}
  <1>1. d \in Decisions /\ d.approval \in Approvals /\ d.verdict \in Verdicts
    BY CallShape, DecisionShape DEF CommitDecision, GrantInv, TypeOK
  <1>2. /\ status[d.approval] = "pending"
        /\ decisions' = decisions \cup {d}
        /\ status' = [status EXCEPT ![d.approval] = Outcome(d, decisions')]
    BY DEF CommitDecision
  <1>3. a = d.approval /\ Outcome(d, decisions') = "approved"
    BY <1>1, <1>2 DEF GrantInv, TypeOK
  <1>4. d.verdict = "approve" /\ Cardinality(ds) >= Needed[a]
    BY <1>1, <1>3 DEF Outcome, Verdicts
  <1>5. /\ s \subseteq Actors /\ Cardinality(s) \in Nat /\ Cardinality(ds) \in Nat
        /\ Cardinality(ds) <= Cardinality(s)
    <2>1. ds \in SUBSET Decisions
      BY DEF Approving, TypeOK
    <2>2. \A e, g \in ds : e.actor = g.actor => e = g
      BY DEF Approving, OneDecisionEach
    <2> HIDE DEF ds
    <2> QED BY <2>1, <2>2, ActorsAreAsMany
  <1>6. s \in SUBSET (Actors \ {Requester[a]})
    BY <1>5 DEF Approving, NobodyDecidesHisOwn
  <1>7. Cardinality(s) >= Needed[a]
    BY <1>4, <1>5, NumberAssumption
  <1>8. \A x \in s : \E e \in decisions' : e.approval = a /\ e.actor = x /\ e.verdict = "approve"
    BY DEF Approving
  <1>9. \A e \in decisions' : e.approval = a => e.verdict # "reject"
    <2>1. \A e \in decisions : e.approval = a => e.verdict # "reject"
      BY <1>2, <1>3 DEF GrantInv, RefusalsStand
    <2> QED BY <1>2, <1>4, <2>1
  <1> HIDE DEF s
  <1> QED BY <1>6, <1>7, <1>8, <1>9 DEF Agreed

LEMMA GrantInit == Init => GrantInv
  BY InitType DEF Init, GrantInv, OneDecisionEach, NobodyDecidesHisOwn, RefusalsStand,
                  GrantsAreDecided, Granted, ApprovedByEnough

(* A step that records nothing and grants nothing. *)
LEMMA NothingGranted ==
    ASSUME GrantInv, TypeOK', UNCHANGED decisions,
           \A c \in calls' : c \in calls \/ c.op # "decide"
                             \/ c.decision.actor # Requester[c.decision.approval],
           \A a \in Approvals : status'[a] # status[a] =>
               \/ status[a] \in {"absent", "pending"} /\ status'[a] \notin {"approved", "superseded"}
               \/ status[a] = "approved" /\ status'[a] \in {"expired", "superseded"},
           \A a \in Approvals : /\ tool'[a] = "running" => tool[a] = "running" \/ status[a] = "approved"
                                /\ (\E p \in permits' : p[1] = a) =>
                                       (\E p \in permits : p[1] = a) \/ status[a] = "approved"
    PROVE  GrantInv'
  <1>1. OneDecisionEach'
    BY DEF GrantInv, OneDecisionEach
  <1>2. NobodyDecidesHisOwn'
    BY DEF GrantInv, NobodyDecidesHisOwn
  <1>3. RefusalsStand'
    BY DecisionShape DEF GrantInv, RefusalsStand, TypeOK
  <1>4. \A a \in Approvals : Granted(a)' => Granted(a)
    BY DEF Granted
  <1>5. GrantsAreDecided'
    BY <1>4 DEF GrantInv, GrantsAreDecided
  <1>6. \A a \in Approvals : Granted(a)' => Agreed(a)
    BY <1>4 DEF GrantInv, ApprovedByEnough, Granted
  <1>7. ApprovedByEnough'
    BY <1>6, AgreementStays DEF ApprovedByEnough, Granted
  <1> QED BY <1>1, <1>2, <1>3, <1>5, <1>7 DEF GrantInv

LEMMA GrantStep == GrantInv /\ [Next]_vars => GrantInv'
  <1> SUFFICES ASSUME GrantInv, [Next]_vars PROVE GrantInv'
    OBVIOUS
  <1>0. TypeOK /\ TypeOK'
    BY StepType DEF GrantInv
  <1>1. CASE Drift
    BY <1>0, <1>1, NothingGranted DEF Drift
  <1>2. ASSUME NEW a \in Approvals, TimeIsUp(a) PROVE GrantInv'
    BY <1>0, <1>2, NothingGranted DEF TimeIsUp
  <1>3. ASSUME NEW a \in Approvals, CreateProposal(a) PROVE GrantInv'
    BY <1>0, <1>3, NothingGranted DEF CreateProposal, TypeOK
  <1>4. ASSUME NEW a \in Approvals, BeginCancel(a) PROVE GrantInv'
    BY <1>0, <1>4, NothingGranted DEF BeginCancel, Start, Launch
  <1>5. ASSUME NEW a \in Approvals, Resuming(a), NEW c \in calls' PROVE c \in calls \/ c.op # "decide"
    BY <1>5 DEF Resuming, Launch
  <1>6. ASSUME NEW a \in Approvals, BeginResume(a) PROVE GrantInv'
    BY <1>0, <1>5, <1>6, NothingGranted DEF BeginResume
  <1>7. ASSUME NEW a \in Approvals, Poll(a) PROVE GrantInv'
    <2>1. \A c \in calls' : c \in calls \/ c.op # "decide"
      BY <1>5, <1>7 DEF Poll, Launch
    <2>2. \A b \in Approvals : tool'[b] = "running" => tool[b] = "running"
      BY <1>0, <1>7 DEF Poll, Denied, TypeOK
    <2> QED BY <1>0, <1>7, <2>1, <2>2, NothingGranted DEF Poll
  <1>8. ASSUME NEW a \in Approvals, GiveUp(a) PROVE GrantInv'
    BY <1>0, <1>8, NothingGranted DEF GiveUp, Denied, TypeOK
  <1>9. ASSUME NEW d \in Decisions, BeginDecision(d) PROVE GrantInv'
    <2>1. \A c \in calls' : \/ c \in calls \/ c.op # "decide"
                            \/ c.decision.actor # Requester[c.decision.approval]
      BY <1>9 DEF BeginDecision, Start, Launch
    <2> QED BY <1>0, <1>9, <2>1, NothingGranted DEF BeginDecision
  <1>10. ASSUME NEW d \in Decisions, RepeatDecision(d) PROVE GrantInv'
    BY <1>0, <1>10, NothingGranted DEF RepeatDecision
  <1>11. ASSUME NEW c \in calls, CommitDecision(c) PROVE GrantInv'
    <2>1. c.decision \in Decisions /\ c.decision.approval \in Approvals
      BY <1>0, <1>11, CallShape, DecisionShape DEF CommitDecision, TypeOK
    <2>2. CASE UNCHANGED decisions
      <3>1. UNCHANGED status
        BY <1>11, <2>2 DEF CommitDecision, SameKey
      <3> QED BY <1>0, <1>11, <2>2, <3>1, NothingGranted DEF CommitDecision
    <2>3. CASE decisions' # decisions
      <3> DEFINE d == c.decision
                 a == d.approval
      <3>1. /\ ~HasDecided(d) /\ status[a] = "pending"
            /\ decisions' = decisions \cup {d}
            /\ status' = [status EXCEPT ![a] = Outcome(d, decisions')]
            /\ calls' \subseteq calls
            /\ UNCHANGED <<permits, tool>>
        BY <1>11, <2>3 DEF CommitDecision
      <3>2. OneDecisionEach'
        BY <3>1 DEF GrantInv, OneDecisionEach, HasDecided
      <3>3. NobodyDecidesHisOwn'
        BY <1>11, <3>1 DEF GrantInv, NobodyDecidesHisOwn, CommitDecision
      <3>4. RefusalsStand'
        <4>1. \A e \in decisions : e.verdict = "reject" => e.approval # a
          BY <3>1 DEF GrantInv, RefusalsStand
        <4>2. \A e \in decisions : e.approval # a => status'[e.approval] = status[e.approval]
          BY <1>0, <2>1, <3>1, DecisionShape DEF TypeOK
        <4>3. d.verdict = "reject" => status'[a] = "rejected"
          BY <1>0, <2>1, <3>1 DEF Outcome, TypeOK
        <4> QED BY <3>1, <4>1, <4>2, <4>3 DEF GrantInv, RefusalsStand
      <3>5. ~Granted(a)
        BY <2>1, <3>1 DEF GrantInv, GrantsAreDecided
      <3>6. \A b \in Approvals : b # a => status'[b] = status[b]
        BY <1>0, <2>1, <3>1 DEF TypeOK
      <3>7. status'[a] \in {"pending", "approved", "rejected"}
        BY <1>0, <2>1, <3>1, OutcomeStatus DEF TypeOK
      <3>8. \A b \in Approvals : Granted(b)' => Granted(b) \/ (b = a /\ status'[a] = "approved")
        BY <3>1, <3>6, <3>7 DEF Granted
      <3>9. GrantsAreDecided'
        BY <3>5, <3>6, <3>8 DEF GrantInv, GrantsAreDecided
      <3>10. \A b \in Approvals : Granted(b)' => Agreed(b)'
        <4> TAKE b \in Approvals
        <4> HAVE Granted(b)'
        <4>1. CASE Granted(b)
          <5>1. Agreed(b) /\ b # a
            BY <3>5, <4>1 DEF GrantInv, ApprovedByEnough, Granted
          <5> QED BY <3>1, <5>1, AgreementStays
        <4>2. CASE b = a /\ status'[a] = "approved"
          BY <1>0, <1>11, <3>1, <3>2, <3>3, <4>2, DecisionGrants
        <4> QED BY <3>8, <4>1, <4>2
      <3>11. ApprovedByEnough'
        BY <3>10 DEF ApprovedByEnough, Granted
      <3> QED BY <1>0, <3>2, <3>3, <3>4, <3>9, <3>11 DEF GrantInv
    <2> QED BY <2>2, <2>3
  <1>12. ASSUME NEW c \in calls, CommitTransition(c) PROVE GrantInv'
    <2>1. c.approval \in Approvals
      BY <1>0, <1>12, CallShape DEF CommitTransition, TypeOK
    <2>2. \A a \in Approvals : tool'[a] = "running" => tool[a] = "running"
      BY <1>0, <1>12, <2>1 DEF CommitTransition, TypeOK
    <2>3. \A a \in Approvals : status'[a] # status[a] =>
               \/ status[a] \in {"absent", "pending"} /\ status'[a] \notin {"approved", "superseded"}
               \/ status[a] = "approved" /\ status'[a] \in {"expired", "superseded"}
      BY <1>0, <1>12, <2>1 DEF CommitTransition, Transition, TypeOK
    <2> QED BY <1>0, <1>12, <2>2, <2>3, NothingGranted DEF CommitTransition
  <1>13. ASSUME NEW c \in calls, CommitResume(c) PROVE GrantInv'
    <2>1. c.approval \in Approvals
      BY <1>0, <1>13, CallShape DEF CommitResume, TypeOK
    <2>2. \A a \in Approvals : tool'[a] = "running" => tool[a] = "running" \/ status[a] = "approved"
      BY <1>0, <1>13, <2>1 DEF CommitResume, Permitted, TypeOK
    <2>3. \A a \in Approvals : status'[a] # status[a] =>
               status[a] = "approved" /\ status'[a] \in {"expired", "superseded"}
      BY <1>0, <1>13, <2>1 DEF CommitResume, Transition, TypeOK
    <2>4. \A a \in Approvals : (\E p \in permits' : p[1] = a) =>
                                   (\E p \in permits : p[1] = a) \/ status[a] = "approved"
      BY <1>13 DEF CommitResume, Permitted
    <2> QED BY <1>0, <1>13, <2>2, <2>3, <2>4, NothingGranted DEF CommitResume
  <1>14. ASSUME NEW c \in calls, Abandon(c) PROVE GrantInv'
    <2>1. \A a \in Approvals : tool'[a] = "running" => tool[a] = "running"
      BY <1>0, <1>14, CallShape DEF Abandon, TypeOK
    <2> QED BY <1>0, <1>14, <2>1, NothingGranted DEF Abandon
  <1>15. CASE UNCHANGED vars
    BY <1>0, <1>15, NothingGranted DEF vars
  <1> QED BY <1>1, <1>2, <1>3, <1>4, <1>6, <1>7, <1>8, <1>9, <1>10, <1>11, <1>12, <1>13, <1>14, <1>15
          DEF Next, Commit

(* Nothing protected is permitted, and no tool runs, before as many people *)
(* as the action's risk needs have approved it, all of them different and  *)
(* none of them the requester, and nobody has decided against it.          *)
THEOREM GrantsAreAgreed == Spec => []ApprovedByEnough
  <1>1. GrantInv => ApprovedByEnough
    BY DEF GrantInv
  <1> QED BY GrantInit, GrantStep, <1>1, PTL DEF Spec

-----------------------------------------------------------------------------
(* What actors are told is on record.                                      *)

\* Decisions with one key and one verdict are one decision.
LEMMA KeyTellsDecision ==
    ASSUME NEW d \in Decisions, NEW e \in Decisions, e.key = d.key, e.verdict = d.verdict
    PROVE  e = d
  <1>1. e.approval = d.approval /\ e.actor = d.actor
    BY DEF Decisions
  <1> QED BY <1>1 DEF Decisions

LEMMA AnswersStep == TypeOK /\ AnswersAreTrue /\ [Next]_vars => AnswersAreTrue'
  <1> SUFFICES ASSUME TypeOK, AnswersAreTrue, [Next]_vars PROVE AnswersAreTrue'
    OBVIOUS
  <1>1. ASSUME NEW d \in Decisions, RepeatDecision(d) PROVE AnswersAreTrue'
    BY <1>1, KeyTellsDecision DEF RepeatDecision, Prior, SameKey, TypeOK, AnswersAreTrue
  <1>2. ASSUME NEW c \in calls, CommitDecision(c) PROVE AnswersAreTrue'
    <2>1. c.decision \in Decisions
      BY <1>2, CallShape DEF CommitDecision, TypeOK
    <2>2. Answered(c.decision) \subseteq decisions
      BY <2>1, KeyTellsDecision DEF Answered, SameKey, TypeOK
    <2> QED BY <1>2, <2>2 DEF CommitDecision, AnswersAreTrue
  <1>3. CASE UNCHANGED <<decisions, told>>
    BY <1>3 DEF AnswersAreTrue
  <1> QED BY <1>1, <1>2, <1>3 DEF Next, Commit, vars, Drift, TimeIsUp, CreateProposal, BeginCancel,
          BeginResume, Poll, GiveUp, BeginDecision, CommitTransition, CommitResume, Abandon

(* Whoever is told that a decision is recorded finds it on record, with    *)
(* the verdict he gave.                                                    *)
THEOREM AnswersAreOnRecord == Spec => []AnswersAreTrue
  <1>1. Init => TypeOK /\ AnswersAreTrue
    BY InitType DEF Init, AnswersAreTrue
  <1> QED BY <1>1, StepType, AnswersStep, PTL DEF Spec

-----------------------------------------------------------------------------
(* The gateway implements the life of an approval.                         *)

LEMMA LifecycleStep == TypeOK /\ [Next]_vars => [Lifecycle!Next]_status
  <1> SUFFICES ASSUME TypeOK, [Next]_vars PROVE [Lifecycle!Next]_status
    OBVIOUS
  <1>1. ASSUME NEW a \in Approvals, CreateProposal(a) PROVE Lifecycle!Next
    BY <1>1 DEF CreateProposal, Lifecycle!Next, Lifecycle!Request, Lifecycle!Becomes
  <1>2. ASSUME NEW c \in calls, CommitDecision(c) PROVE Lifecycle!Next \/ UNCHANGED status
    <2> DEFINE d == c.decision
               a == d.approval
    <2>1. a \in Approvals
      BY <1>2, CallShape, DecisionShape DEF CommitDecision, TypeOK
    <2>2. CASE status[a] = "pending" /\ status' = [status EXCEPT ![a] = Outcome(d, decisions')]
      <3>1. Outcome(d, decisions') = "approved" => Lifecycle!Grant(a)
        BY <2>2 DEF Lifecycle!Grant, Lifecycle!Becomes
      <3>2. Outcome(d, decisions') = "rejected" => Lifecycle!Refuse(a)
        BY <2>2 DEF Lifecycle!Refuse, Lifecycle!Becomes, Lifecycle!Refusals
      <3>3. Outcome(d, decisions') = "pending" => UNCHANGED status
        BY <2>1, <2>2 DEF TypeOK
      <3> QED BY <2>1, <3>1, <3>2, <3>3, OutcomeStatus DEF Lifecycle!Next
    <2> QED BY <1>2, <2>2 DEF CommitDecision
  <1>3. ASSUME NEW c \in calls, CommitTransition(c) PROVE Lifecycle!Next \/ UNCHANGED status
    <2> DEFINE a == c.approval
    <2>1. a \in Approvals
      BY <1>3, CallShape DEF CommitTransition, TypeOK
    <2>2. \/ UNCHANGED status
          \/ status[a] = "pending" /\ status' = [status EXCEPT ![a] = "expired"]
          \/ status[a] = "pending" /\ status' = [status EXCEPT ![a] = "cancelled"]
          \/ status[a] = "approved" /\ status' = [status EXCEPT ![a] = "expired"]
      BY <1>3 DEF CommitTransition, Transition
    <2>3. UNCHANGED status \/ Lifecycle!Refuse(a) \/ Lifecycle!Lapse(a)
      BY <2>2 DEF Lifecycle!Refuse, Lifecycle!Lapse, Lifecycle!Becomes, Lifecycle!Refusals, Lifecycle!Lapses
    <2> QED BY <2>1, <2>3 DEF Lifecycle!Next
  <1>4. ASSUME NEW c \in calls, CommitResume(c) PROVE Lifecycle!Next \/ UNCHANGED status
    <2> DEFINE a == c.approval
    <2>1. a \in Approvals
      BY <1>4, CallShape DEF CommitResume, TypeOK
    <2>2. \/ UNCHANGED status
          \/ status[a] = "approved" /\ status' = [status EXCEPT ![a] = "superseded"]
      BY <1>4, <2>1 DEF CommitResume, Transition, TypeOK
    <2>3. UNCHANGED status \/ Lifecycle!Lapse(a)
      BY <2>2 DEF Lifecycle!Lapse, Lifecycle!Becomes, Lifecycle!Lapses
    <2> QED BY <2>1, <2>3 DEF Lifecycle!Next
  <1> QED BY <1>1, <1>2, <1>3, <1>4 DEF Next, Commit, vars, Drift, TimeIsUp, BeginCancel,
          BeginResume, Poll, GiveUp, BeginDecision, RepeatDecision, Abandon

(* Every run of the gateway is a run of ApprovalLifecycle: an approval is  *)
(* asked for once, decided once, and what has lapsed is never granted      *)
(* again.                                                                  *)
THEOREM LifecycleImplemented == Spec => ImplementsLifecycle
  <1>1. Init => Lifecycle!Init
    BY DEF Init, Lifecycle!Init
  <1> QED BY <1>1, InitType, StepType, LifecycleStep, PTL DEF Spec, ImplementsLifecycle, Lifecycle!Spec
=============================================================================
