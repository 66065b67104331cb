---------------------------- MODULE InboxOutbox ----------------------------
(***************************************************************************)
(* From a webhook to a published domain event, or to an agent's reply.     *)
(*                                                                         *)
(* A platform delivers an event, perhaps more than once; the ingress       *)
(* recognises a replay, stores one inbox row and only then acknowledges.   *)
(* Inbox workers lease the row: a domain event becomes an outbox row under *)
(* a stable id, a message becomes one agent run and a reply.  The outbox   *)
(* dispatcher leases the outbox row and publishes it with a receipt in one *)
(* transaction.  Any process may be slow, fail or crash in between.        *)
(*                                                                         *)
(* Times are distances from the present, as in AgentJobs.                  *)
(***************************************************************************)
EXTENDS Integers, FiniteSets

CONSTANTS
    DomainEvents,       \* external events that become domain events
    Messages,           \* external events that are messages to the agent
    NoId,
    InboxWorkers,
    OutboxWorkers,
    MaxAttempts,        \* max_attempts of both tables
    LeaseTicks,
    RetryTicks,
    TenantConcurrency,
    Senders,            \* inbox workers whose connector registry can send
    Horizon,            \* bound: the oldest time told apart
    MaxDeliveries,      \* bound: deliveries of one event
    MaxClaims,          \* bound: leases granted per queue
    MaxFaults           \* bound: crashes and errors of workers

ASSUME EventAssumption == DomainEvents \cap Messages = {} /\ InboxWorkers \cap OutboxWorkers = {}
ASSUME NumberAssumption == /\ {MaxAttempts, LeaseTicks, TenantConcurrency, MaxDeliveries} \subseteq Nat \ {0}
                           /\ {RetryTicks, Horizon, MaxClaims, MaxFaults} \subseteq Nat
                           /\ Senders \subseteq InboxWorkers

Events == DomainEvents \cup Messages
Workers == InboxWorkers \cup OutboxWorkers
Stamps == 1 .. MaxDeliveries
(* The id of an event the platform gave none is derived from its content    *)
(* and the time it was received: one id per event and receipt time.         *)
Ids == Events \X Stamps
Queues == {"inbox", "outbox"}

VARIABLES
    delivered,  \* how often the platform has sent each event
    ingress,    \* webhook requests being handled
    replay,     \* webhook_replay_claims: the receipt time first claimed, 0 without one
    acked,      \* events the platform has had an acknowledgement for
    rows,       \* inbox_events and outbox_events
    issued,     \* leases granted per queue; the newest token
    worker,
    run,        \* agent_runs.status of the run a message started
    receipts,   \* domain_event_publications: <<id, token of the publisher>>
    replies,    \* what the user was sent for a message
    sent,       \* the connector's memory, per process, of what it has sent
    faults

ingressVars == <<delivered, ingress, replay, acked>>
agentVars == <<run, replies, sent>>
vars == <<ingressVars, rows, issued, worker, agentVars, receipts, faults>>

-----------------------------------------------------------------------------
RowStatus == {"absent", "waiting", "retry_scheduled", "processing", "done", "failed", "dead_letter"}
Waiting == {"waiting", "retry_scheduled"}
NoRow == [status |-> "absent", attempts |-> 0, token |-> 0, left |-> 0, wait |-> 0]
NewRow == [NoRow EXCEPT !.status = "waiting"]

Handling == {"claimed", "inserting", "thinking", "replying"}
Polls == {"polling", "claiming"}
Phase == {"idle", "report"} \cup Polls \cup Handling
Idle == [phase |-> "idle", id |-> NoId, token |-> 0, age |-> 0, found |-> {}, note |-> "none"]

QueueOf(w) == IF w \in InboxWorkers THEN "inbox" ELSE "outbox"

Lower(n) == IF n > -Horizon THEN n - 1 ELSE n
Older(n) == IF n < Horizon THEN n + 1 ELSE n

Init ==
    /\ delivered = [e \in Events |-> 0]
    /\ ingress = {}
    /\ replay = [e \in Events |-> 0]
    /\ acked = {}
    /\ rows = [q \in Queues |-> [i \in Ids |-> NoRow]]
    /\ issued = [q \in Queues |-> 0]
    /\ worker = [w \in Workers |-> Idle]
    /\ run = [i \in Ids |-> "absent"]
    /\ receipts = {}
    /\ replies = [i \in Ids |-> {}]
    /\ sent = [w \in Workers |-> {}]
    /\ faults = 0

Tick ==
    /\ rows' = [q \in Queues |-> [i \in Ids |->
                  [rows[q][i] EXCEPT !.left = IF rows[q][i].status = "processing" THEN Lower(@) ELSE @,
                                     !.wait = IF rows[q][i].status \in Waiting THEN Lower(@) ELSE @]]]
    /\ worker' = [w \in Workers |->
                    IF worker[w].phase \in Polls THEN [worker[w] EXCEPT !.age = Older(@)] ELSE worker[w]]
    /\ UNCHANGED <<ingressVars, issued, agentVars, receipts, faults>>

-----------------------------------------------------------------------------
(* Webhook ingress *)

Deliver(e) ==
    /\ delivered[e] < MaxDeliveries
    /\ delivered' = [delivered EXCEPT ![e] = @ + 1]
    /\ ingress' = ingress \cup {[event |-> e, stamp |-> delivered[e] + 1, step |-> "verified"]}
    /\ UNCHANGED <<replay, acked, rows, issued, worker, agentVars, receipts, faults>>

(* Slip: every delivery keeps its own receipt time. *)
OwnStamp(d) == d.stamp

(* The first claim keeps its receipt time; a replay takes it over, so that  *)
(* both derive the same event id.                                           *)
FirstStamp(d) == IF replay[d.event] = 0 THEN d.stamp ELSE replay[d.event]

ClaimReplay(d) ==
    /\ d.step = "verified"
    /\ replay' = [replay EXCEPT ![d.event] = FirstStamp(d)]
    /\ ingress' = (ingress \ {d}) \cup {[d EXCEPT !.step = "deduplicated", !.stamp = FirstStamp(d)]}
    /\ UNCHANGED <<delivered, acked, rows, issued, worker, agentVars, receipts, faults>>

(* A replay goes this way too: its first delivery may have died before it   *)
(* stored anything.                                                         *)
ClaimInbound(d) ==
    LET id == <<d.event, d.stamp>> IN
    /\ d.step = "deduplicated"
    /\ rows' = [rows EXCEPT !["inbox"][id] = IF @.status = "absent" THEN NewRow ELSE @]
    /\ ingress' = (ingress \ {d}) \cup {[d EXCEPT !.step = "stored"]}
    /\ UNCHANGED <<delivered, replay, acked, issued, worker, agentVars, receipts, faults>>

(* Slip: the answer does not wait for the row. *)
AcknowledgeEarly(d) ==
    /\ d.step \in {"deduplicated", "stored"}
    /\ acked' = acked \cup {d.event}
    /\ ingress' = ingress \ {d}
    /\ UNCHANGED <<delivered, replay, rows, issued, worker, agentVars, receipts, faults>>

Acknowledge(d) ==
    /\ d.step = "stored"
    /\ acked' = acked \cup {d.event}
    /\ ingress' = ingress \ {d}
    /\ UNCHANGED <<delivered, replay, rows, issued, worker, agentVars, receipts, faults>>

(* The request dies half way, or its answer does not arrive. *)
DeliveryDies(d) ==
    /\ ingress' = ingress \ {d}
    /\ UNCHANGED <<delivered, replay, acked, rows, issued, worker, agentVars, receipts, faults>>

-----------------------------------------------------------------------------
(* Claiming a row of either queue *)

StartCycle(w) ==
    /\ worker[w].phase = "idle"
    /\ worker' = [worker EXCEPT ![w].phase = "polling"]
    /\ UNCHANGED <<ingressVars, rows, issued, agentVars, receipts, faults>>

(* Slip: a lease that expired is nobody's business. *)
ClaimableWhenWaiting(q, i, age) == rows[q][i].status \in Waiting /\ rows[q][i].wait <= -age

(* Slip: a failed row is tried again. *)
ClaimableWhenFailed(q, i, age) ==
    \/ rows[q][i].status \in Waiting \cup {"failed"} /\ rows[q][i].wait <= -age
    \/ rows[q][i].status = "processing" /\ rows[q][i].left <= -age

Claimable(q, i, age) ==
    \/ rows[q][i].status \in Waiting /\ rows[q][i].wait <= -age
    \/ rows[q][i].status = "processing" /\ rows[q][i].left <= -age

HasSlot(q, age) ==
    Cardinality({i \in Ids : rows[q][i].status = "processing" /\ rows[q][i].left > -age}) < TenantConcurrency

(* As in AgentJobs: the claim counts the live leases and looks for rows in  *)
(* the snapshot it starts with, then waits for the tenant's row.            *)
TakeSnapshot(w) ==
    LET q == QueueOf(w)
        age == worker[w].age
    IN
    /\ worker[w].phase = "polling"
    /\ worker' = [worker EXCEPT ![w] =
                    [@ EXCEPT !.phase = "claiming",
                              !.found = IF HasSlot(q, age) THEN {i \in Ids : Claimable(q, i, age)} ELSE {}]]
    /\ UNCHANGED <<ingressVars, rows, issued, agentVars, receipts, faults>>

NothingToClaim(w) ==
    /\ worker[w].phase = "claiming"
    /\ \A i \in worker[w].found : ~ Claimable(QueueOf(w), i, worker[w].age)
    /\ worker' = [worker EXCEPT ![w] = Idle]
    /\ UNCHANGED <<ingressVars, rows, issued, agentVars, receipts, faults>>

Leased(row, token, left) ==
    [row EXCEPT !.status = "processing", !.attempts = @ + 1, !.wait = 0, !.token = token, !.left = left]

LeaseRow(q, w, i) ==
    LET age == worker[w].age IN
    /\ worker[w].phase = "claiming"
    /\ issued[q] < MaxClaims
    /\ i \in worker[w].found
    /\ Claimable(q, i, age)
    /\ issued' = [issued EXCEPT ![q] = @ + 1]
    /\ rows' = [rows EXCEPT ![q][i] = Leased(@, issued[q] + 1, LeaseTicks - age)]
    /\ worker' = [worker EXCEPT ![w] = [Idle EXCEPT !.phase = "claimed", !.id = i, !.token = issued[q] + 1]]
    /\ UNCHANGED <<ingressVars, agentVars, receipts, faults>>

ClaimInbox(w, i) == w \in InboxWorkers /\ LeaseRow("inbox", w, i)
ClaimOutbox(w, i) == w \in OutboxWorkers /\ LeaseRow("outbox", w, i)

Goes(w, phase, note) == worker' = [worker EXCEPT ![w] = [@ EXCEPT !.phase = phase, !.note = note]]

-----------------------------------------------------------------------------
(* Handling an inbox row: a domain event *)

(* The outbox id is computed from the event's, so a second handler of the   *)
(* same event finds its row there.                                          *)
AppendOutbox(w) ==
    LET i == worker[w].id IN
    /\ worker[w].phase = "claimed"
    /\ w \in InboxWorkers
    /\ i[1] \in DomainEvents
    /\ rows' = [rows EXCEPT !["outbox"][i] = IF @.status = "absent" THEN NewRow ELSE @]
    /\ Goes(w, "report", "done")
    /\ UNCHANGED <<ingressVars, issued, agentVars, receipts, faults>>

-----------------------------------------------------------------------------
(* Handling an inbox row: a message *)

(* createRun answers with the run this message already has, in whatever     *)
(* state; otherwise it is going to insert one.                              *)
FindRun(w) ==
    LET i == worker[w].id IN
    /\ worker[w].phase = "claimed"
    /\ w \in InboxWorkers
    /\ i[1] \in Messages
    /\ IF run[i] = "absent" THEN Goes(w, "inserting", "none")
       ELSE Goes(w, "replying", IF run[i] = "finished" THEN "answer" ELSE "empty")
    /\ UNCHANGED <<ingressVars, rows, issued, agentVars, receipts, faults>>

(* The unique index on client_request_id admits one insert. *)
InsertRun(w) ==
    LET i == worker[w].id IN
    /\ worker[w].phase = "inserting"
    /\ IF run[i] = "absent"
       THEN run' = [run EXCEPT ![i] = "running"] /\ Goes(w, "thinking", "none")
       ELSE run' = run /\ Goes(w, "report", "retry")
    /\ UNCHANGED <<ingressVars, rows, issued, replies, sent, receipts, faults>>

FinishRun(w) ==
    /\ worker[w].phase = "thinking"
    /\ run' = [run EXCEPT ![worker[w].id] = "finished"]
    /\ Goes(w, "replying", "answer")
    /\ UNCHANGED <<ingressVars, rows, issued, replies, sent, receipts, faults>>

Fault == faults < MaxFaults /\ faults' = faults + 1

(* The agent fails: the run is saved as failed and the error rethrown.      *)
(* What fails outside the try, or in its catch, leaves the run as it was    *)
(* saved before: running, or finished when the answer was a refusal.        *)
RunFails(w, verdict) ==
    /\ worker[w].phase = "thinking"
    /\ verdict \in {"retry", "failed"}
    /\ Fault
    /\ \E end \in {"running", "failed", "finished"} : run' = [run EXCEPT ![worker[w].id] = end]
    /\ Goes(w, "report", verdict)
    /\ UNCHANGED <<ingressVars, rows, issued, replies, sent, receipts>>

(* One process sends one message once; another process does not know.       *)
SendReply(w) ==
    LET i == worker[w].id IN
    /\ worker[w].phase = "replying"
    /\ w \in Senders
    /\ replies' = [replies EXCEPT ![i] = IF i \in sent[w] THEN @ ELSE @ \cup {worker[w].note}]
    /\ sent' = [sent EXCEPT ![w] = @ \cup {i}]
    /\ Goes(w, "report", "done")
    /\ UNCHANGED <<ingressVars, rows, issued, run, receipts, faults>>

CannotSend(w) ==
    /\ worker[w].phase = "replying"
    /\ w \notin Senders
    /\ Goes(w, "report", "retry")
    /\ UNCHANGED <<ingressVars, rows, issued, agentVars, receipts, faults>>

-----------------------------------------------------------------------------
(* Errors and crashes *)

(* A handler, or recording its success, throws; the code decides whether a  *)
(* retry is due.                                                            *)
HandlerThrows(w, verdict) ==
    /\ \/ w \in InboxWorkers /\ worker[w].phase \in Handling \ {"thinking"}
       \/ worker[w].phase = "report" /\ worker[w].note = "done"
    /\ verdict \in {"retry", "failed"}
    /\ Fault
    /\ Goes(w, "report", verdict)
    /\ UNCHANGED <<ingressVars, rows, issued, agentVars, receipts>>

Crash(w) ==
    /\ worker[w].phase # "idle"
    /\ Fault
    /\ worker' = [worker EXCEPT ![w] = Idle]
    /\ sent' = [sent EXCEPT ![w] = {}]
    /\ UNCHANGED <<ingressVars, rows, issued, run, replies, receipts>>

-----------------------------------------------------------------------------
(* Recording the outcome *)

HoldsLease(w) ==
    LET row == rows[QueueOf(w)][worker[w].id] IN row.status = "processing" /\ row.token = worker[w].token

Settle(w, status, wait) ==
    /\ rows' = [rows EXCEPT ![QueueOf(w)][worker[w].id] =
                  [@ EXCEPT !.status = status, !.token = 0, !.left = 0, !.wait = wait]]
    /\ worker' = [worker EXCEPT ![w] = Idle]

Reports(w, note) == worker[w].phase = "report" /\ worker[w].note = note

Complete(w) ==
    /\ Reports(w, "done")
    /\ HoldsLease(w)
    /\ Settle(w, "done", 0)
    /\ UNCHANGED <<ingressVars, issued, agentVars, receipts, faults>>

Fail(w) ==
    /\ Reports(w, "failed")
    /\ HoldsLease(w)
    /\ Settle(w, "failed", 0)
    /\ UNCHANGED <<ingressVars, issued, agentVars, receipts, faults>>

BudgetSpent(w) == rows[QueueOf(w)][worker[w].id].attempts >= MaxAttempts

Retry(w) ==
    /\ Reports(w, "retry")
    /\ HoldsLease(w)
    /\ IF BudgetSpent(w) THEN Settle(w, "dead_letter", 0) ELSE Settle(w, "retry_scheduled", RetryTicks)
    /\ UNCHANGED <<ingressVars, issued, agentVars, receipts, faults>>

LeaseLost(w) ==
    /\ worker[w].phase = "report"
    /\ ~ HoldsLease(w)
    /\ worker' = [worker EXCEPT ![w] = Idle]
    /\ UNCHANGED <<ingressVars, rows, issued, agentVars, receipts, faults>>

-----------------------------------------------------------------------------
(* Publishing: receipt and row change in one transaction, which a lost      *)
(* lease rolls back                                                         *)

Publish(w) ==
    LET i == worker[w].id IN
    /\ worker[w].phase = "claimed"
    /\ w \in OutboxWorkers
    /\ HoldsLease(w)
    /\ receipts' = IF \E r \in receipts : r[1] = i THEN receipts ELSE receipts \cup {<<i, worker[w].token>>}
    /\ Settle(w, "done", 0)
    /\ UNCHANGED <<ingressVars, issued, agentVars, faults>>

PublishLosesLease(w) ==
    /\ worker[w].phase = "claimed"
    /\ w \in OutboxWorkers
    /\ ~ HoldsLease(w)
    /\ worker' = [worker EXCEPT ![w] = Idle]
    /\ UNCHANGED <<ingressVars, rows, issued, agentVars, receipts, faults>>

(* The dispatcher retries whatever the error is. *)
PublishThrows(w) ==
    /\ worker[w].phase = "claimed"
    /\ w \in OutboxWorkers
    /\ Fault
    /\ Goes(w, "report", "retry")
    /\ UNCHANGED <<ingressVars, rows, issued, agentVars, receipts>>

-----------------------------------------------------------------------------
IngressStep ==
    \/ \E e \in Events : Deliver(e)
    \/ \E d \in ingress : ClaimReplay(d) \/ ClaimInbound(d) \/ Acknowledge(d) \/ DeliveryDies(d)

ClaimStep(w) == StartCycle(w) \/ TakeSnapshot(w) \/ NothingToClaim(w) \/ \E i \in Ids : ClaimInbox(w, i) \/ ClaimOutbox(w, i)
HandleStep(w) == AppendOutbox(w) \/ FindRun(w) \/ InsertRun(w) \/ FinishRun(w) \/ SendReply(w) \/ CannotSend(w)
                 \/ Publish(w) \/ PublishLosesLease(w)
ReportStep(w) == Complete(w) \/ Fail(w) \/ Retry(w) \/ LeaseLost(w)
FaultStep(w) == \/ Crash(w)
                \/ PublishThrows(w)
                \/ \E verdict \in {"retry", "failed"} : RunFails(w, verdict) \/ HandlerThrows(w, verdict)

Next ==
    \/ Tick
    \/ IngressStep
    \/ \E w \in Workers : ClaimStep(w) \/ HandleStep(w) \/ ReportStep(w) \/ FaultStep(w)

Spec == Init /\ [][Next]_vars

-----------------------------------------------------------------------------
(* Properties *)

Row == [status : RowStatus, attempts : Nat, token : Nat, left : Int, wait : Int]
WorkerState == [phase : Phase, id : Ids \cup {NoId}, token : Nat, age : Nat, found : SUBSET Ids,
                note : {"none", "done", "retry", "failed", "answer", "empty"}]
Request == [event : Events, stamp : Stamps, step : {"verified", "deduplicated", "stored"}]

(* Both tables keep to the statuses their workers write, and every worker   *)
(* is in a phase of processTenant.                                          *)
TypeOK ==
    /\ delivered \in [Events -> 0 .. MaxDeliveries]
    /\ ingress \subseteq Request
    /\ replay \in [Events -> 0 .. MaxDeliveries]
    /\ acked \subseteq Events
    /\ rows \in [Queues -> [Ids -> Row]]
    /\ issued \in [Queues -> Nat]
    /\ worker \in [Workers -> WorkerState]
    /\ run \in [Ids -> {"absent", "running", "finished", "failed"}]
    /\ receipts \subseteq Ids \X Nat
    /\ replies \in [Ids -> SUBSET {"answer", "empty"}]
    /\ sent \in [Workers -> SUBSET Ids]
    /\ faults \in Nat

(* However often a platform repeats a signed request, and wherever an       *)
(* earlier delivery of it died, it becomes one inbox row, even when the     *)
(* event's id has to be derived from its receipt time (webhook-ingress.ts). *)
OneRowPerEvent ==
    \A e \in Events : Cardinality({s \in Stamps : rows["inbox"][<<e, s>>].status # "absent"}) <= 1

Published(i) == \E r \in receipts : r[1] = i
GivenUp(q, i) == rows[q][i].status \in {"failed", "dead_letter"}

(* A publication exists exactly for the rows marked published, and there is *)
(* one of it, whichever dispatchers overtook each other (DR-006).           *)
ReceiptIffPublished ==
    \A i \in Ids : Cardinality({r \in receipts : r[1] = i}) = IF rows["outbox"][i].status = "done" THEN 1 ELSE 0

(* An acknowledged event is stored (DR-001), and from then on it can always *)
(* be accounted for: its inbox row is open or given up, or its domain event *)
(* is in the outbox, and there open, given up or published, once.           *)
NothingIsLost ==
    /\ \A e \in acked : \E s \in Stamps :
          LET i == <<e, s>> IN
          /\ rows["inbox"][i].status # "absent"
          /\ rows["inbox"][i].status = "done" /\ e \in DomainEvents =>
               /\ rows["outbox"][i].status # "absent"
               /\ rows["outbox"][i].status = "done" => Published(i)
    /\ ReceiptIffPublished

(* The agent works on a message with one worker at a time, and the run says *)
(* so (client_request_id is unique).                                        *)
OnePlanner ==
    \A i \in Ids :
        LET planners == {w \in Workers : worker[w].phase = "thinking" /\ worker[w].id = i} IN
        /\ Cardinality(planners) <= 1
        /\ planners # {} => run[i] = "running"

(* A message is handled once: one row, however often it is delivered, and   *)
(* no second worker, and no later attempt, calls the model for it again.    *)
HandledOnce == OneRowPerEvent /\ OnePlanner

(* Each table is a work queue without an operator: once settled, a row is   *)
(* never leased again, and only the current lease settles it (DR-002,       *)
(* DR-003).                                                                 *)
QueueState(q, i) ==
    CASE rows[q][i].status = "absent" -> "absent"
      [] rows[q][i].status \in Waiting -> "ready"
      [] rows[q][i].status = "processing" -> "leased"
      [] OTHER -> "settled"

Inbox == INSTANCE WorkQueue WITH
    Items <- Ids,
    Operated <- FALSE,
    state <- [i \in Ids |-> QueueState("inbox", i)],
    holder <- [i \in Ids |-> rows["inbox"][i].token],
    granted <- issued["inbox"]

Outbox == INSTANCE WorkQueue WITH
    Items <- Ids,
    Operated <- FALSE,
    state <- [i \in Ids |-> QueueState("outbox", i)],
    holder <- [i \in Ids |-> rows["outbox"][i].token],
    granted <- issued["outbox"]

ImplementsWorkQueues == Inbox!Spec /\ Outbox!Spec

-----------------------------------------------------------------------------
(* Liveness *)

(* Time passes; a worker process is restarted, is not killed at every poll, *)
(* and takes the steps that are its own to take.                            *)
Fairness ==
    /\ WF_vars(Tick)
    /\ \A w \in Workers :
        /\ WF_vars(StartCycle(w))
        /\ SF_vars(TakeSnapshot(w))
        /\ WF_vars(NothingToClaim(w))
        /\ WF_vars(HandleStep(w))
        /\ WF_vars(ReportStep(w))
    /\ SF_vars(\E w \in InboxWorkers, i \in Ids : ClaimInbox(w, i))
    /\ SF_vars(\E w \in OutboxWorkers, i \in Ids : ClaimOutbox(w, i))

FairSpec == Spec /\ Fairness

(* The exploration has run out of leases. *)
Exhausted == \E q \in Queues : issued[q] = MaxClaims

(* What was acknowledged as a domain event ends as a publication, or where  *)
(* an operator finds it: failed or in the dead letters.                     *)
EventsGetPublished ==
    \A i \in DomainEvents \X Stamps :
        rows["inbox"][i].status # "absent" ~>
            Published(i) \/ (\E q \in Queues : GivenUp(q, i)) \/ Exhausted

(* A message to the agent gets a reply, unless its row is given up.         *)
MessagesGetReplies ==
    \A i \in Messages \X Stamps :
        rows["inbox"][i].status # "absent" ~> replies[i] # {} \/ GivenUp("inbox", i) \/ Exhausted

-----------------------------------------------------------------------------
(* What the documentation and the tests say and the code does not do *)

(* docs/16, section 5.1: work is finished when its business is; a message  *)
(* is done only when the agent has answered it, or is still at it.          *)
DoneMeansHandled ==
    \A i \in Messages \X Stamps :
        rows["inbox"][i].status = "done" =>
            run[i] = "finished" \/ \E w \in InboxWorkers : worker[w].phase = "thinking" /\ worker[w].id = i

(* tests/unit/wecom-agent-message.test.ts: a message makes the worker send  *)
(* a reply (here: unless the exploration runs out of leases first).         *)
ReplyIsSent ==
    \A i \in Messages \X Stamps :
        rows["inbox"][i].status # "absent" ~> replies[i] # {} \/ issued["inbox"] = MaxClaims
=============================================================================
