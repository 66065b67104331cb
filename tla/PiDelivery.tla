----------------------------- MODULE PiDelivery -----------------------------
(***************************************************************************)
(* Delivery of one change: its submission, its pull request, proposals to  *)
(* merge it and to release it, and the outbox whose rows are carried to    *)
(* the forge by workers.                                                   *)
(*                                                                         *)
(* A request of a user writes an entity and then its outbox row, in two    *)
(* transactions.  A worker takes the oldest row, asks for a permit under   *)
(* the row's approval, leases the row, calls the forge, writes the result  *)
(* to the entities, one compare-and-set each, and completes the row.  What *)
(* a call did is unknown once its worker or its lease is gone.             *)
(*                                                                         *)
(* Approvals behave as ApprovalLifecycle says and PiApproval implements.   *)
(***************************************************************************)
EXTENDS Naturals, Sequences, FiniteSets

CONSTANTS
    Merges, Releases,   \* idempotency keys of merge and release proposals
    Callers,            \* requests of users under way
    Workers,
    MaxRows,            \* bound: rows of the outbox
    MaxFaults           \* bound: crashes, dropped requests, failed event writes, leases lost by slow workers

ASSUME KeyAssumption == Merges \cap Releases = {} /\ {"sub", "pr"} \cap (Merges \cup Releases) = {}
ASSUME NumberAssumption == {MaxRows, MaxFaults} \subseteq Nat

Proposals == Merges \cup Releases
Entities == {"sub", "pr"} \cup Proposals
Subjects == {"pr"} \cup Proposals   \* what an outbox row is about, and what is approved

VARIABLES
    entity,     \* status and version of the submission, the pull request and the proposals
    approval,   \* pi_approvals.status, by subject
    bound,      \* the versions of pull request and submission a proposal's approval is bound to
    rows,       \* pi_delivery_outbox, by created_at
    issued,     \* leases granted so far; the newest lease token
    request,
    worker,
    faults

deliveryVars == <<entity, rows, issued>>
approvalVars == <<approval, bound>>
vars == <<deliveryVars, approvalVars, request, worker, faults>>

Lifecycle == INSTANCE ApprovalLifecycle WITH Approvals <- Subjects, status <- approval

Results == {"succeeded", "failed", "unknown"}
StatusesOf(e) ==
    {"none", "failed", "unknown"} \cup
    CASE e = "sub" -> {"awaiting_approval", "queued", "submitted"}
      [] e = "pr" -> {"pending", "open", "merged"}
      [] OTHER -> {"awaiting_approval", "succeeded"}
Rows == [subject : Subjects, status : {"awaiting_approval", "queued", "leased"} \cup Results,
         version : Nat, token : Nat, live : BOOLEAN, calls : Nat, reported : Results \cup {"none"}]
Requests == [pc : {"idle", "submit", "open", "queue", "mark", "ask", "insert"},
             subject : Subjects, seen : Nat \X Nat]
Dispatches == [pc : {"idle", "read", "permit", "activate", "claim", "call", "look", "write",
                     "complete", "emit", "failed"},
               row : Nat, version : Nat, token : Nat, step : Nat, seen : Nat,
               result : Results, again : BOOLEAN, acted : BOOLEAN]

TypeOK ==
    /\ entity \in [Entities -> [status : UNION {StatusesOf(e) : e \in Entities}, version : Nat]]
    /\ \A e \in Entities : entity[e].status \in StatusesOf(e)
    /\ approval \in [Subjects -> Lifecycle!Statuses]
    /\ bound \in [Subjects -> Nat \X Nat]
    /\ rows \in Seq(Rows)
    /\ issued \in Nat
    /\ request \in [Callers -> Requests]
    /\ worker \in [Workers -> Dispatches]
    /\ faults \in Nat

NoRequest == [pc |-> "idle", subject |-> "pr", seen |-> <<0, 0>>]
NoDispatch == [pc |-> "idle", row |-> 0, version |-> 0, token |-> 0, step |-> 0, seen |-> 0,
               result |-> "unknown", again |-> FALSE, acted |-> FALSE]

Init ==
    /\ entity = [e \in Entities |-> [status |-> "none", version |-> 0]]
    /\ Lifecycle!Init
    /\ bound = [s \in Subjects |-> <<0, 0>>]
    /\ rows = <<>>
    /\ issued = 0
    /\ request = [c \in Callers |-> NoRequest]
    /\ worker = [w \in Workers |-> NoDispatch]
    /\ faults = 0

Terminal(i) == rows[i].status \in Results

(* Every update of an entity compares the version it read and moves it on. *)
Write(e, s) == entity' = [entity EXCEPT ![e] = [status |-> s, version |-> @.version + 1]]
Seen == <<entity["pr"].version, entity["sub"].version>>

-----------------------------------------------------------------------------
(* Approvals.                                                              *)

(* People decide at any time; that nobody does in time, or the request is  *)
(* withdrawn, is a refusal too.  A granted approval changes again only     *)
(* when somebody asks for a permit.                                        *)
Decide(s) ==
    /\ Lifecycle!Grant(s) \/ (approval[s] = "pending" /\ Lifecycle!Becomes(s, "rejected"))
    /\ UNCHANGED <<deliveryVars, bound, request, worker, faults>>

(* createProposal(): the first request binds the versions it has seen, a   *)
(* repetition finds that approval whatever it has seen itself.             *)
AskApproval(s, seen) ==
    IF approval[s] = "absent"
    THEN Lifecycle!Request(s) /\ bound' = [bound EXCEPT ![s] = seen]
    ELSE UNCHANGED approvalVars

(* The facts a submission's approval is bound to never change.             *)
FactsHold(s) == s = "pr" \/ bound[s] = Seen

(* Slip: an approval that is there is taken for granted.                   *)
PermitUnread(s) == approval[s] # "absent" /\ FactsHold(s) /\ UNCHANGED approval

(* resumeToolCall(): a permit only for an approval that is granted, not    *)
(* over, and bound to the facts as they are.                               *)
Permit(s) == approval[s] = "approved" /\ FactsHold(s) /\ UNCHANGED approval
NoPermit(s) ==
    \/ approval[s] # "approved" /\ UNCHANGED approval
    \/ approval[s] = "approved" /\ Lifecycle!Becomes(s, "expired")
    \/ approval[s] = "approved" /\ ~FactsHold(s) /\ Lifecycle!Becomes(s, "superseded")

-----------------------------------------------------------------------------
(* Requests of users.                                                      *)

Go(c, pc, s, seen) == request' = [request EXCEPT ![c] = [pc |-> pc, subject |-> s, seen |-> seen]]
Done(c) == request' = [request EXCEPT ![c] = NoRequest]
At(c, pc) == request[c].pc = pc

(* submitChange(): the change set is validated, approval is asked for, and *)
(* the submission is stored.                                               *)
Submit(c) ==
    /\ At(c, "idle")
    /\ entity["sub"].status = "none"
    /\ AskApproval("pr", <<0, 0>>)
    /\ Go(c, "submit", "pr", <<0, 0>>)
    /\ UNCHANGED <<deliveryVars, worker, faults>>

InsertSubmission(c) ==
    /\ At(c, "submit")
    /\ IF entity["sub"].status = "none" THEN Write("sub", "awaiting_approval") ELSE UNCHANGED entity
    /\ Done(c)
    /\ UNCHANGED <<rows, issued, approvalVars, worker, faults>>

(* createPullRequest() up to its permit; with a pull request there already *)
(* it only looks for the outbox row.                                       *)
OpenPullRequest(c) ==
    /\ At(c, "idle")
    /\ entity["sub"].status \in {"awaiting_approval", "queued"}
    /\ entity["pr"].status = "none"
    /\ \/ Permit("pr") /\ Go(c, "open", "pr", Seen)
       \/ NoPermit("pr") /\ UNCHANGED request
    /\ UNCHANGED <<deliveryVars, bound, worker, faults>>

InsertPullRequest(c) ==
    /\ At(c, "open")
    /\ IF entity["pr"].status = "none" THEN Write("pr", "pending") ELSE UNCHANGED entity
    /\ Go(c, "queue", "pr", request[c].seen)
    /\ UNCHANGED <<rows, issued, approvalVars, worker, faults>>

NewRow(s, status) ==
    [subject |-> s, status |-> status, version |-> 1, token |-> 0, live |-> FALSE,
     calls |-> 0, reported |-> "none"]

(* queueOutbox() for the pull request: one key, one row, ready to go.      *)
QueuePullRequest(c) ==
    /\ At(c, "queue") /\ request[c].subject = "pr"
    /\ IF \E i \in DOMAIN rows : rows[i].subject = "pr" THEN UNCHANGED rows
       ELSE Len(rows) < MaxRows /\ rows' = Append(rows, NewRow("pr", "queued"))
    /\ Go(c, "mark", "pr", request[c].seen)
    /\ UNCHANGED <<entity, issued, approvalVars, worker, faults>>

(* The submission is marked queued, unless it is not as the request saw it.*)
MarkQueued(c) ==
    /\ At(c, "mark")
    /\ IF entity["sub"].version = request[c].seen[2] THEN Write("sub", "queued") ELSE UNCHANGED entity
    /\ Done(c)
    /\ UNCHANGED <<rows, issued, approvalVars, worker, faults>>

Proposable(s) == IF s \in Merges THEN {"open"} ELSE {"open", "merged"}

(* proposeMerge() and proposeRelease(): nothing more happens when the key  *)
(* has a proposal already.                                                 *)
Propose(c, s) ==
    /\ At(c, "idle")
    /\ entity[s].status = "none"
    /\ entity["pr"].status \in Proposable(s)
    /\ Go(c, "ask", s, Seen)
    /\ UNCHANGED <<deliveryVars, approvalVars, worker, faults>>

AskForProposal(c) ==
    /\ At(c, "ask")
    /\ AskApproval(request[c].subject, request[c].seen)
    /\ Go(c, "insert", request[c].subject, request[c].seen)
    /\ UNCHANGED <<deliveryVars, worker, faults>>

InsertProposal(c) ==
    /\ At(c, "insert")
    /\ IF entity[request[c].subject].status = "none"
       THEN Write(request[c].subject, "awaiting_approval") ELSE UNCHANGED entity
    /\ Go(c, "queue", request[c].subject, request[c].seen)
    /\ UNCHANGED <<rows, issued, approvalVars, worker, faults>>

(* queueOutbox() for a proposal: its key holds the id this request made    *)
(* up, which is new even when the proposal it found was not.               *)
QueueProposal(c) ==
    /\ At(c, "queue") /\ request[c].subject \in Proposals
    /\ Len(rows) < MaxRows
    /\ rows' = Append(rows, NewRow(request[c].subject, "awaiting_approval"))
    /\ Done(c)
    /\ UNCHANGED <<entity, issued, approvalVars, worker, faults>>

(* The server of a request dies.                                           *)
DropRequest(c) ==
    /\ ~At(c, "idle")
    /\ faults < MaxFaults
    /\ faults' = faults + 1
    /\ Done(c)
    /\ UNCHANGED <<deliveryVars, approvalVars, worker>>

-----------------------------------------------------------------------------
(* The worker (change-delivery-worker.ts) and dispatchOutbox().            *)

WorkerAt(w, pc) == worker[w].pc = pc
Turn(w, d) == worker' = [worker EXCEPT ![w] = d]
StepTo(w, pc) == Turn(w, [worker[w] EXCEPT !.pc = pc])
Fail(w) == Turn(w, [NoDispatch EXCEPT !.pc = "failed", !.acted = worker[w].acted])
Holds(w, i) == rows[i].status = "leased" /\ rows[i].token = worker[w].token

(* Slip: a leased row is left to whoever leased it.                        *)
TakeableWaiting(i) == rows[i].status \in {"awaiting_approval", "queued"}

(* What a cycle takes up: the oldest row that waits or whose lease is over.*)
Takeable(i) == rows[i].status \in {"awaiting_approval", "queued"} \/ (rows[i].status = "leased" /\ ~rows[i].live)

Pick(w) ==
    /\ worker[w].pc \in {"idle", "failed"}
    /\ \E i \in DOMAIN rows :
        /\ Takeable(i) /\ \A j \in 1 .. i - 1 : ~Takeable(j)
        /\ Turn(w, [NoDispatch EXCEPT !.pc = "read", !.row = i])
    /\ UNCHANGED <<deliveryVars, approvalVars, request, faults>>

(* Another lease on the row, under a token never used before.              *)
Leased(row, token) ==
    [row EXCEPT !.status = "leased", !.live = TRUE, !.token = token, !.version = @ + 1]

LeaseRow(w, i, pc, again) ==
    /\ issued' = issued + 1
    /\ rows' = [rows EXCEPT ![i] = Leased(@, issued + 1)]
    /\ Turn(w, [worker[w] EXCEPT !.pc = pc, !.token = issued + 1, !.version = rows[i].version + 1,
                                 !.step = 1, !.again = again])

(* Slip: the action of an expired lease is simply tried again.             *)
RecoverByCall(w, i) == LeaseRow(w, i, "call", FALSE)

(* An expired lease: nobody knows what its worker did, so the result is    *)
(* unknown, and the forge is not called.                                   *)
Recover(w, i) == LeaseRow(w, i, "look", TRUE)

(* dispatchOutbox() reads the row again.                                   *)
ReadRow(w) ==
    /\ WorkerAt(w, "read")
    /\ LET i == worker[w].row IN
        \/ /\ Terminal(i) \/ (rows[i].status = "leased" /\ rows[i].live)
           /\ Turn(w, NoDispatch) /\ UNCHANGED <<rows, issued>>
        \/ rows[i].status = "leased" /\ ~rows[i].live /\ Recover(w, i)
        \/ /\ rows[i].status \in {"awaiting_approval", "queued"}
           /\ Turn(w, [worker[w] EXCEPT !.pc = "permit", !.version = rows[i].version])
           /\ UNCHANGED <<rows, issued>>
    /\ UNCHANGED <<entity, approvalVars, request, faults>>

(* prepareProtectedOutbox(): an approval that is not granted leaves the    *)
(* row for a later cycle, one that has lapsed fails the cycle.             *)
AskPermit(w) ==
    /\ WorkerAt(w, "permit")
    /\ LET s == rows[worker[w].row].subject IN
        \/ Permit(s) /\ StepTo(w, "activate")
        \/ NoPermit(s) /\ IF approval[s] = "approved" THEN Fail(w) ELSE Turn(w, NoDispatch)
    /\ UNCHANGED <<deliveryVars, bound, request, faults>>

Unchanged(w, i) == rows[i].version = worker[w].version

Queued(row) == [row EXCEPT !.status = "queued", !.version = @ + 1]

Activate(w) ==
    /\ WorkerAt(w, "activate")
    /\ LET i == worker[w].row IN
        \/ rows[i].status = "awaiting_approval" /\ Unchanged(w, i)
           /\ rows' = [rows EXCEPT ![i] = Queued(@)]
           /\ Turn(w, [worker[w] EXCEPT !.pc = "claim", !.version = @ + 1])
        \/ rows[i].status = "queued" /\ Unchanged(w, i) /\ StepTo(w, "claim") /\ UNCHANGED rows
        \/ ~Unchanged(w, i) /\ Fail(w) /\ UNCHANGED rows
    /\ UNCHANGED <<entity, issued, approvalVars, request, faults>>

(* Slip: the row is leased unless somebody else holds it.                  *)
ClaimableUnheld(w, i) == rows[i].status # "leased"

(* claimOutbox() compares version and status.                              *)
Claimable(w, i) == Unchanged(w, i) /\ rows[i].status \in {"awaiting_approval", "queued"}

Claim(w) ==
    /\ WorkerAt(w, "claim")
    /\ LET i == worker[w].row IN
        \/ Claimable(w, i) /\ LeaseRow(w, i, "call", FALSE)
        \/ ~Claimable(w, i) /\ Fail(w) /\ UNCHANGED <<rows, issued>>
    /\ UNCHANGED <<entity, approvalVars, request, faults>>

(* callGateway(): the forge acts and says how it went, or it acts and its  *)
(* answer is lost, or it is never reached; releases have no forge to go to.*)
Called(row, r) == [row EXCEPT !.calls = @ + 1, !.reported = r]

Call(w) ==
    /\ WorkerAt(w, "call")
    /\ LET i == worker[w].row IN
        \/ /\ rows[i].subject \notin Releases
           /\ \E r \in {"succeeded", "failed"} :
                /\ rows' = [rows EXCEPT ![i] = Called(@, r)]
                /\ Turn(w, [worker[w] EXCEPT !.pc = "look", !.result = r, !.acted = TRUE])
        \/ /\ rows[i].subject \notin Releases
           /\ rows' = [rows EXCEPT ![i] = Called(@, rows[i].reported)]
           /\ Turn(w, [worker[w] EXCEPT !.pc = "look", !.again = TRUE, !.acted = TRUE])
        \/ Turn(w, [worker[w] EXCEPT !.pc = "look", !.again = TRUE]) /\ UNCHANGED rows
    /\ UNCHANGED <<entity, issued, approvalVars, request, faults>>

-----------------------------------------------------------------------------
(* recordExternalResultInternal().                                         *)

(* The entities a result is written to, in order.                          *)
Touched(s, result) ==
    IF s = "pr" THEN <<"pr", "sub">>
    ELSE IF s \in Merges /\ result = "succeeded" THEN <<s, "pr">> ELSE <<s>>

Success(s, e) ==
    CASE e = "sub" -> "submitted"
      [] e = "pr" -> IF s = "pr" THEN "open" ELSE "merged"
      [] OTHER -> "succeeded"

(* Slip: the pull request gets the status it would have.                   *)
StatusForHopeful(s, e, result) == IF result = "succeeded" \/ e = "pr" THEN Success(s, e) ELSE result

StatusFor(s, e, result) == IF result = "succeeded" THEN Success(s, e) ELSE result

(* A write that finds another version, or an event that is not stored: all *)
(* is written once more as unknown, and the cycle fails if that fails too. *)
Conflict(w) ==
    IF worker[w].again THEN Fail(w)
    ELSE Turn(w, [worker[w] EXCEPT !.pc = "look", !.step = 1, !.again = TRUE, !.result = "unknown"])

Look(w) ==
    /\ WorkerAt(w, "look")
    /\ LET s == rows[worker[w].row].subject
           e == Touched(s, worker[w].result)[worker[w].step]
       IN Turn(w, [worker[w] EXCEPT !.pc = "write", !.seen = entity[e].version])
    /\ UNCHANGED <<deliveryVars, approvalVars, request, faults>>

WriteResult(w) ==
    /\ WorkerAt(w, "write")
    /\ LET s == rows[worker[w].row].subject
           es == Touched(s, worker[w].result)
           e == es[worker[w].step]
       IN \/ /\ entity[e].version = worker[w].seen
             /\ Write(e, StatusFor(s, e, worker[w].result))
             /\ Turn(w, IF worker[w].step = Len(es) THEN [worker[w] EXCEPT !.pc = "complete", !.seen = 0]
                        ELSE [worker[w] EXCEPT !.pc = "look", !.step = @ + 1, !.seen = 0])
          \/ entity[e].version # worker[w].seen /\ Conflict(w) /\ UNCHANGED entity
    /\ UNCHANGED <<rows, issued, approvalVars, request, faults>>

(* completeOutbox(): only under the lease the worker was given.            *)
MayComplete(w, i) == Unchanged(w, i) /\ Holds(w, i) /\ rows[i].live

Completed(row, result) ==
    [row EXCEPT !.status = result, !.version = @ + 1, !.token = 0, !.live = FALSE]

Complete(w) ==
    /\ WorkerAt(w, "complete")
    /\ LET i == worker[w].row IN
        \/ /\ MayComplete(w, i)
           /\ rows' = [rows EXCEPT ![i] = Completed(@, worker[w].result)]
           /\ StepTo(w, "emit")
        \/ ~MayComplete(w, i) /\ Conflict(w) /\ UNCHANGED rows
    /\ UNCHANGED <<entity, issued, approvalVars, request, faults>>

(* The event is stored, or is not: the row is complete all the same.       *)
Emit(w) ==
    /\ WorkerAt(w, "emit")
    /\ \/ Turn(w, NoDispatch) /\ UNCHANGED faults
       \/ faults < MaxFaults /\ faults' = faults + 1 /\ Conflict(w)
    /\ UNCHANGED <<deliveryVars, approvalVars, request>>

(* lease_expires_at passes, with its worker gone or, which is bounded,     *)
(* slow.                                                                   *)
LeaseEnds(i) ==
    /\ rows[i].live
    /\ rows' = [rows EXCEPT ![i] = [@ EXCEPT !.live = FALSE]]
    /\ \/ (\A w \in Workers : ~Holds(w, i)) /\ UNCHANGED faults
       \/ faults < MaxFaults /\ faults' = faults + 1
    /\ UNCHANGED <<entity, issued, approvalVars, request, worker>>

Crash(w) ==
    /\ ~WorkerAt(w, "idle")
    /\ faults < MaxFaults
    /\ faults' = faults + 1
    /\ Turn(w, NoDispatch)
    /\ UNCHANGED <<deliveryVars, approvalVars, request>>

-----------------------------------------------------------------------------
RequestStep(c) ==
    \/ Submit(c) \/ InsertSubmission(c)
    \/ OpenPullRequest(c) \/ InsertPullRequest(c) \/ QueuePullRequest(c) \/ MarkQueued(c)
    \/ \E s \in Proposals : Propose(c, s)
    \/ AskForProposal(c) \/ InsertProposal(c) \/ QueueProposal(c)
    \/ DropRequest(c)

Dispatch(w) ==
    \/ Pick(w) \/ ReadRow(w) \/ AskPermit(w) \/ Activate(w) \/ Claim(w) \/ Call(w)
    \/ Look(w) \/ WriteResult(w) \/ Complete(w) \/ Emit(w)

Next ==
    \/ \E s \in Subjects : Decide(s)
    \/ \E c \in Callers : RequestStep(c)
    \/ \E w \in Workers : Dispatch(w) \/ Crash(w)
    \/ \E i \in DOMAIN rows : LeaseEnds(i)

Spec == Init /\ [][Next]_vars

(* The supervisor runs a cycle after the other, and leases run out.        *)
FairSpec ==
    /\ Spec
    /\ \A w \in Workers : WF_vars(Dispatch(w))
    /\ \A i \in 1 .. MaxRows : WF_vars(i \in DOMAIN rows /\ LeaseEnds(i))

-----------------------------------------------------------------------------
(* Properties.                                                             *)

(* Whatever crashes, expires or is taken over, the forge is called at most *)
(* once for a row of the outbox: a lost answer is never asked for again.   *)
RowActsOnce == \A i \in DOMAIN rows : rows[i].calls <= 1

(* Nothing leaves for the forge under an approval that people refused or   *)
(* have not decided, though rows, approvals and permits are read at        *)
(* different times.                                                        *)
ActedOnlyIfGranted ==
    \A i \in DOMAIN rows :
        rows[i].calls > 0 => approval[rows[i].subject] \in {"approved", "expired", "superseded"}

(* What the records say of the forge the forge has said: a row and a       *)
(* proposal succeeded, and a pull request is open or merged, only after an *)
(* answer that it was so, never by a guess after a takeover or a conflict. *)
SaidSo(s, r) == \E i \in DOMAIN rows : rows[i].subject = s /\ rows[i].reported = r

OutcomesAreReal ==
    /\ \A i \in DOMAIN rows :
        rows[i].status \in {"succeeded", "failed"} => rows[i].reported = rows[i].status
    /\ \A s \in Proposals : entity[s].status \in {"succeeded", "failed"} => SaidSo(s, entity[s].status)
    /\ entity["pr"].status \in {"open", "merged"} => SaidSo("pr", "succeeded")
    /\ entity["pr"].status = "merged" => \E m \in Merges : SaidSo(m, "succeeded")

(* The outbox is a work queue without an operator: leases one at a time    *)
(* under new tokens, terminal rows final.                                  *)
QueueState(i) ==
    IF i \notin DOMAIN rows THEN "absent"
    ELSE IF Terminal(i) THEN "settled"
    ELSE IF rows[i].status = "leased" THEN "leased" ELSE "ready"

Queue == INSTANCE WorkQueue WITH
    Items <- 1 .. MaxRows,
    Operated <- FALSE,
    state <- [i \in 1 .. MaxRows |-> QueueState(i)],
    holder <- [i \in 1 .. MaxRows |-> IF i \in DOMAIN rows THEN rows[i].token ELSE 0],
    granted <- issued

ImplementsWorkQueue == Queue!Spec

(* The oldest open row, once approved, gets an outcome, be it unknown, or  *)
(* its approval lapses, although workers crash, race and lose leases.      *)
Oldest(i) == i \in DOMAIN rows /\ ~Terminal(i) /\ \A j \in 1 .. i - 1 : Terminal(j)
Approved(i) == approval[rows[i].subject] = "approved"

OldestSettles == \A i \in 1 .. MaxRows : (Oldest(i) /\ Approved(i)) ~> (i \in DOMAIN rows => Terminal(i) \/ ~Approved(i))

(* The worker's comment on a failed cycle: the service has failed closed   *)
(* before any effect, and the row is untouched for operators to recover.   *)
FailedBeforeActing == \A w \in Workers : WorkerAt(w, "failed") => ~worker[w].acted

(* pi-change-delivery.test.ts:127, :154: an external action whose outcome  *)
(* is unknown is never replayed, a proposal goes to the forge exactly once.*)
CallsFor(s) == {i \in DOMAIN rows : rows[i].subject = s /\ rows[i].calls > 0}
ProposalActedOnce == \A s \in Subjects : Cardinality(CallsFor(s)) <= 1

(* Row and entity, written one after the other by whoever recorded the     *)
(* outcome, tell the same.                                                 *)
RowAndEntityAgree ==
    \A i \in DOMAIN rows :
        Terminal(i) /\ rows[i].subject \in Proposals /\ (\A w \in Workers : worker[w].row # i)
            => entity[rows[i].subject].status = rows[i].status

(* With nothing lost and nobody late, what the forge reports is recorded.  *)
ReportIsKept ==
    \A i \in DOMAIN rows :
        faults = 0 /\ Terminal(i) /\ rows[i].reported # "none" => rows[i].status = rows[i].reported

(* A pull request that was stored is put on its way.                       *)
EveryPullRequestLeaves ==
    entity["pr"].status = "pending" ~> \E i \in DOMAIN rows : rows[i].subject = "pr"

(* An approved row gets its outcome, whatever older rows wait for.         *)
EveryApprovedSettles ==
    \A i \in 1 .. MaxRows :
        (i \in DOMAIN rows /\ Approved(i)) ~> (i \in DOMAIN rows => Terminal(i) \/ ~Approved(i))
=============================================================================
