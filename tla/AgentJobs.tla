----------------------------- MODULE AgentJobs -----------------------------
(***************************************************************************)
(* Confirmed agent proposals and the tool jobs they become.                *)
(*                                                                         *)
(* A user confirms a proposal (AgentOrchestrator.confirmProposal), which   *)
(* queues exactly one row of agent_tool_jobs.  Worker processes lease the  *)
(* row, re-check the basis of the confirmation, run the tool and record    *)
(* the outcome in the job, the tool call, the proposal and the run, all in *)
(* one transaction.  A worker may be slow, crash, lose its lease, or run   *)
(* under the old cycle time the supervisor handed it; a tool call it gave  *)
(* up on may still take effect later.  An operator settles by hand what    *)
(* the workers could not (controlToolJob).                                 *)
(*                                                                         *)
(* A timestamp is kept as its distance from the present: a lease that      *)
(* expires in n ticks has left = n, and it keeps counting below zero, down *)
(* to -Horizon, because a worker may compare it with a time that is past.  *)
(***************************************************************************)
EXTENDS Integers, FiniteSets

CONSTANTS
    Proposals,          \* one run, one proposal, at most one job (UNIQUE(tenant_id, proposal_id))
    NoJob,              \* what an unoccupied worker works on
    Workers,            \* worker processes with the agent role
    External,           \* the proposals whose tool has an external side effect
    MaxAttempts,        \* the tool's own attempt budget, per proposal
    Requests,           \* request ids an operator may use
    LeaseTicks,         \* length of a lease
    RetryTicks,         \* delay before a retry
    Horizon,            \* bound: the oldest time told apart
    TenantConcurrency,  \* live leases a tenant may have
    MaxClaims           \* bound: leases granted in a behaviour

ASSUME ProposalAssumption == IsFiniteSet(Proposals) /\ IsFiniteSet(Workers) /\ NoJob \notin Proposals /\ External \subseteq Proposals
ASSUME BudgetAssumption == MaxAttempts \in [Proposals -> Nat \ {0}]
ASSUME TimeAssumption == /\ LeaseTicks \in Nat \ {0}
                         /\ RetryTicks \in Nat
                         /\ Horizon \in Nat
ASSUME BoundAssumption == MaxClaims \in Nat /\ TenantConcurrency \in Nat \ {0}

VARIABLES
    job,          \* agent_tool_jobs: one row per proposal
    call,         \* tool_calls.status of the job's tool call
    proposal,     \* agent_proposals.status
    run,          \* agent_runs.status
    approved,     \* proposals with confirmations, any number, that have passed their checks
    withdrawn,    \* proposals whose actor, policy, tool or object version has changed
    worker,       \* what each worker process is doing
    calls,        \* tool executions started, and what became of each
    resolutions,  \* agent_job_resolutions
    issued        \* leases granted so far; the newest lease token

linked == <<call, proposal, run>>
vars == <<job, call, proposal, run, approved, withdrawn, worker, calls, resolutions, issued>>

-----------------------------------------------------------------------------
(* Values *)

JobStatus == {"absent", "queued", "executing", "retry_scheduled", "succeeded", "failed",
              "unknown", "dead_letter", "cancelled", "compensated"}
CallStatus == (JobStatus \ {"retry_scheduled"})
ProposalStatus == {"pending", "queued", "executing", "executed", "failed", "unknown", "cancelled"}
RunStatus == {"awaiting_confirmation", "queued", "executing", "succeeded", "failed", "unknown", "cancelled"}
Waiting == {"queued", "retry_scheduled"}
Settled == {"succeeded", "failed", "unknown", "dead_letter", "cancelled", "compensated"}

Verdict == {"succeeded", "failed", "unknown", "retry"}
Polls == {"polling", "claiming"}
Phase == {"idle", "claimed", "running", "report"} \cup Polls
Idle == [phase |-> "idle", job |-> NoJob, token |-> 0, age |-> 0, found |-> {}, verdict |-> "retry"]

NoRow(p) == [status |-> "absent", attempts |-> 0, maxAttempts |-> MaxAttempts[p],
             token |-> 0, left |-> 0, wait |-> 0]

Lower(n) == IF n > -Horizon THEN n - 1 ELSE n
Older(n) == IF n < Horizon THEN n + 1 ELSE n

Init ==
    /\ job = [p \in Proposals |-> NoRow(p)]
    /\ call = [p \in Proposals |-> "absent"]
    /\ proposal = [p \in Proposals |-> "pending"]
    /\ run = [p \in Proposals |-> "awaiting_confirmation"]
    /\ approved = {}
    /\ withdrawn = {}
    /\ worker = [w \in Workers |-> Idle]
    /\ calls = {}
    /\ resolutions = {}
    /\ issued = 0

-----------------------------------------------------------------------------
(* The world: time, and changes to what a confirmation relied on *)

Aged(row) ==
    IF row.status = "executing" THEN [row EXCEPT !.left = Lower(row.left)]
    ELSE IF row.status \in Waiting THEN [row EXCEPT !.wait = Lower(row.wait)]
    ELSE row

Tick ==
    /\ job' = [p \in Proposals |-> Aged(job[p])]
    /\ worker' = [w \in Workers |->
                    IF worker[w].phase \in Polls
                    THEN [worker[w] EXCEPT !.age = Older(worker[w].age)] ELSE worker[w]]
    /\ UNCHANGED <<linked, approved, withdrawn, calls, resolutions, issued>>

(* The actor loses the permission, the tool's version or policy changes, or *)
(* the project moves to another version.                                    *)
Withdraw(p) ==
    /\ withdrawn' = withdrawn \cup {p}
    /\ UNCHANGED <<job, linked, approved, worker, calls, resolutions, issued>>

-----------------------------------------------------------------------------
(* Confirmation: the checks and the transaction are two steps *)

Approve(p) ==
    /\ proposal[p] = "pending"
    /\ p \notin withdrawn
    /\ approved' = approved \cup {p}
    /\ UNCHANGED <<job, linked, withdrawn, worker, calls, resolutions, issued>>

(* Slip: a confirmation relies on the checks it has passed.                 *)
QueueUncompared(p) ==
    /\ p \in approved
    /\ proposal' = [proposal EXCEPT ![p] = "queued"]
    /\ call' = [call EXCEPT ![p] = "queued"]
    /\ job' = [job EXCEPT ![p] = [NoRow(p) EXCEPT !.status = "queued"]]
    /\ run' = [run EXCEPT ![p] = "queued"]
    /\ UNCHANGED <<approved, withdrawn, worker, calls, resolutions, issued>>

(* The compare-and-set on 'pending' decides which confirmation queues the   *)
(* job.  The others, however late they come, return the existing job.       *)
QueueConfirmedProposal(p) ==
    /\ p \in approved
    /\ proposal[p] = "pending"
    /\ proposal' = [proposal EXCEPT ![p] = "queued"]
    /\ call' = [call EXCEPT ![p] = "queued"]
    /\ job' = [job EXCEPT ![p] = [NoRow(p) EXCEPT !.status = "queued"]]
    /\ run' = [run EXCEPT ![p] = "queued"]
    /\ UNCHANGED <<approved, withdrawn, worker, calls, resolutions, issued>>

-----------------------------------------------------------------------------
(* Claiming *)

StartCycle(w) ==
    /\ worker[w].phase = "idle"
    /\ worker' = [worker EXCEPT ![w] = [Idle EXCEPT !.phase = "polling"]]
    /\ UNCHANGED <<job, linked, approved, withdrawn, calls, resolutions, issued>>

(* Slip: a lease that expired is nobody's business. *)
ClaimableWhenWaiting(p, age) == job[p].status \in Waiting /\ job[p].wait <= -age

(* Slip: an unknown outcome is tried again. *)
ClaimableWhenUnknown(p, age) ==
    \/ job[p].status \in Waiting \cup {"unknown"} /\ job[p].wait <= -age
    \/ job[p].status = "executing" /\ job[p].left <= -age

(* Both tests compare with the cycle's start, age ticks ago. *)
Claimable(p, age) ==
    \/ job[p].status \in Waiting /\ job[p].wait <= -age
    \/ job[p].status = "executing" /\ job[p].left <= -age

Active(age) == {p \in Proposals : job[p].status = "executing" /\ job[p].left > -age}

HasSlot(age) == Cardinality(Active(age)) < TenantConcurrency

(* The claim is one statement of a READ COMMITTED transaction: it counts    *)
(* the live leases and looks for candidates in the snapshot it starts with, *)
(* and then waits for the tenant's row.                                     *)
TakeSnapshot(w) ==
    LET age == worker[w].age IN
    /\ worker[w].phase = "polling"
    /\ worker' = [worker EXCEPT ![w] =
                    [@ EXCEPT !.phase = "claiming",
                              !.found = IF HasSlot(age) THEN {p \in Proposals : Claimable(p, age)} ELSE {}]]
    /\ UNCHANGED <<job, linked, approved, withdrawn, calls, resolutions, issued>>

NothingToClaim(w) ==
    /\ worker[w].phase = "claiming"
    /\ \A p \in worker[w].found : ~ Claimable(p, worker[w].age)
    /\ worker' = [worker EXCEPT ![w] = Idle]
    /\ UNCHANGED <<job, linked, approved, withdrawn, calls, resolutions, issued>>

(* FOR UPDATE compares a row again that was changed after the snapshot; it  *)
(* counts nothing again.  The lease runs from the cycle's start, not from   *)
(* the claim.  Which row is taken is left open: SKIP LOCKED may pass over   *)
(* the oldest one.  wait is meaningful only while the row is waiting.       *)
Leased(row, age) ==
    [status |-> "executing", attempts |-> row.attempts + 1, maxAttempts |-> row.maxAttempts,
     token |-> issued + 1, left |-> LeaseTicks - age, wait |-> 0]

LeaseRow(p, age) ==
    /\ Claimable(p, age)
    /\ issued' = issued + 1
    /\ job' = [job EXCEPT ![p] = Leased(job[p], age)]
    /\ call' = [call EXCEPT ![p] = "executing"]
    /\ proposal' = [proposal EXCEPT ![p] = "executing"]
    /\ run' = [run EXCEPT ![p] = "executing"]

Claim(w, p) ==
    /\ worker[w].phase = "claiming"
    /\ p \in worker[w].found
    /\ issued < MaxClaims
    /\ LeaseRow(p, worker[w].age)
    /\ worker' = [worker EXCEPT ![w] = [Idle EXCEPT !.phase = "claimed", !.job = p, !.token = issued + 1]]
    /\ UNCHANGED <<approved, withdrawn, calls, resolutions>>

-----------------------------------------------------------------------------
(* Running the tool *)

(* Error codes by what classify makes of them: rejected codes are final,    *)
(* ambiguous ones (time-outs, connection, receipt) leave the outcome open   *)
(* when the tool is external, every other one may be retried.               *)
ErrorKind == {"rejected", "ambiguous", "other"}

Classify(p, kind) ==
    IF kind = "rejected" THEN "failed"
    ELSE IF kind = "ambiguous" /\ p \in External THEN "unknown"
    ELSE "retry"

ToReport(w, verdict) ==
    worker' = [worker EXCEPT ![w] = [@ EXCEPT !.phase = "report", !.verdict = verdict]]

(* Before the tool runs: the basis is gone, or a check itself fails. *)
RefuseToRun(w) ==
    /\ worker[w].phase = "claimed"
    /\ worker[w].job \in withdrawn
    /\ ToReport(w, "failed")
    /\ UNCHANGED <<job, linked, approved, withdrawn, calls, resolutions, issued>>

CheckFails(w, kind) ==
    /\ worker[w].phase = "claimed"
    /\ kind # "rejected"
    /\ ToReport(w, Classify(worker[w].job, kind))
    /\ UNCHANGED <<job, linked, approved, withdrawn, calls, resolutions, issued>>

StartTool(w) ==
    /\ worker[w].phase = "claimed"
    /\ worker[w].job \notin withdrawn
    /\ worker' = [worker EXCEPT ![w].phase = "running"]
    /\ calls' = calls \cup {[job |-> worker[w].job, token |-> worker[w].token, state |-> "flying"]}
    /\ UNCHANGED <<job, linked, approved, withdrawn, resolutions, issued>>

Becomes(c, state) == calls' = (calls \ {c}) \cup {[c EXCEPT !.state = state]}

(* The side effect of a tool execution takes place, or never will.  Neither *)
(* waits for the worker: an execution outlives its time-out and its process.*)
ToolLands(c) ==
    /\ c.state = "flying"
    /\ Becomes(c, "landed")
    /\ UNCHANGED <<job, linked, approved, withdrawn, worker, resolutions, issued>>

ToolIsLost(c) ==
    /\ c.state = "flying"
    /\ Becomes(c, "gone")
    /\ UNCHANGED <<job, linked, approved, withdrawn, worker, resolutions, issued>>

CallOf(w, state) == [job |-> worker[w].job, token |-> worker[w].token, state |-> state]

(* Slip: the tool is not awaited. *)
ToolReturnsUnawaited(w) ==
    /\ worker[w].phase = "running"
    /\ CallOf(w, "flying") \in calls
    /\ ToReport(w, "succeeded")
    /\ UNCHANGED <<job, linked, approved, withdrawn, calls, resolutions, issued>>

ToolReturns(w) ==
    /\ worker[w].phase = "running"
    /\ CallOf(w, "landed") \in calls
    /\ ToReport(w, "succeeded")
    /\ UNCHANGED <<job, linked, approved, withdrawn, calls, resolutions, issued>>

(* A refusal comes before any effect. *)
ToolRejects(w) ==
    /\ worker[w].phase = "running"
    /\ CallOf(w, "flying") \in calls
    /\ Becomes(CallOf(w, "flying"), "gone")
    /\ ToReport(w, Classify(worker[w].job, "rejected"))
    /\ UNCHANGED <<job, linked, approved, withdrawn, resolutions, issued>>

(* A time-out or another error, before or after the effect; the execution   *)
(* a time-out gave up on goes on.                                           *)
ToolThrows(w, kind) ==
    /\ worker[w].phase = "running"
    /\ kind # "rejected"
    /\ ToReport(w, Classify(worker[w].job, kind))
    /\ UNCHANGED <<job, linked, approved, withdrawn, calls, resolutions, issued>>

-----------------------------------------------------------------------------
(* Recording the outcome: every update is a compare-and-set on the token *)

(* Slip: the update matches the row but not the token. *)
HoldsAnyLease(w) == job[worker[w].job].status = "executing"

HoldsLease(w) ==
    /\ job[worker[w].job].status = "executing"
    /\ job[worker[w].job].token = worker[w].token

Reports(w, verdict) ==
    /\ worker[w].phase = "report"
    /\ worker[w].verdict = verdict
    /\ HoldsLease(w)
    /\ worker' = [worker EXCEPT ![w] = Idle]
    /\ UNCHANGED <<approved, withdrawn, calls, resolutions, issued>>

(* Slip: the lease columns stay. *)
ReleasedWithToken(row, status, wait) == [row EXCEPT !.status = status, !.wait = wait]

(* The row's new status; the lease columns are cleared. *)
Released(row, status, wait) ==
    [status |-> status, attempts |-> row.attempts, maxAttempts |-> row.maxAttempts,
     token |-> 0, left |-> 0, wait |-> wait]

Release(p, status, wait) == job' = [job EXCEPT ![p] = Released(job[p], status, wait)]

Link(p, callStatus, proposalStatus, runStatus) ==
    /\ call' = [call EXCEPT ![p] = callStatus]
    /\ proposal' = [proposal EXCEPT ![p] = proposalStatus]
    /\ run' = [run EXCEPT ![p] = runStatus]

Succeed(w) ==
    LET p == worker[w].job IN
    /\ Reports(w, "succeeded")
    /\ Release(p, "succeeded", job[p].wait)
    /\ Link(p, "succeeded", "executed", "succeeded")

Fail(w) ==
    LET p == worker[w].job IN
    /\ Reports(w, "failed")
    /\ Release(p, "failed", job[p].wait)
    /\ Link(p, "failed", "failed", "failed")

MarkUnknown(w) ==
    LET p == worker[w].job IN
    /\ Reports(w, "unknown")
    /\ Release(p, "unknown", job[p].wait)
    /\ Link(p, "unknown", "unknown", "unknown")

(* Slip: off by one. *)
BudgetSpentLate(p) == job[p].attempts > job[p].maxAttempts

BudgetSpent(p) == job[p].attempts >= job[p].maxAttempts

ScheduleRetry(w) ==
    LET p == worker[w].job IN
    /\ Reports(w, "retry")
    /\ ~ BudgetSpent(p)
    /\ Release(p, "retry_scheduled", RetryTicks)
    /\ Link(p, "queued", "queued", "queued")

(* Slip: the run is forgotten. *)
DeadLetterOfJobOnly(w) ==
    LET p == worker[w].job IN
    /\ Reports(w, "retry")
    /\ BudgetSpent(p)
    /\ Release(p, "dead_letter", job[p].wait)
    /\ Link(p, "dead_letter", "failed", run[p])

DeadLetter(w) ==
    LET p == worker[w].job IN
    /\ Reports(w, "retry")
    /\ BudgetSpent(p)
    /\ Release(p, "dead_letter", job[p].wait)
    /\ Link(p, "dead_letter", "failed", "failed")

(* The compare-and-set finds no row: lease_lost. *)
LeaseLost(w) ==
    /\ worker[w].phase = "report"
    /\ ~ HoldsLease(w)
    /\ worker' = [worker EXCEPT ![w] = Idle]
    /\ UNCHANGED <<job, linked, approved, withdrawn, calls, resolutions, issued>>

(* Recording success fails; the error is classified like one of the tool.   *)
SucceedThrows(w, kind) ==
    /\ worker[w].phase = "report"
    /\ worker[w].verdict = "succeeded"
    /\ kind # "rejected"
    /\ ToReport(w, Classify(worker[w].job, kind))
    /\ UNCHANGED <<job, linked, approved, withdrawn, calls, resolutions, issued>>

(* The process dies, or recording a failure throws and the cycle ends. *)
Crash(w) ==
    /\ worker[w].phase # "idle"
    /\ worker' = [worker EXCEPT ![w] = Idle]
    /\ UNCHANGED <<job, linked, approved, withdrawn, calls, resolutions, issued>>

-----------------------------------------------------------------------------
(* An operator's decision *)

ControlAction == {"cancel", "retry", "mark_succeeded", "mark_failed", "record_compensated"}

(* CONTROL_TRANSITIONS; "absent" where the transition is refused. *)
Transition(status, action) ==
    CASE action = "cancel" /\ status \in {"queued", "retry_scheduled"} -> "cancelled"
      [] action = "retry" /\ status \in {"unknown", "dead_letter", "failed"} -> "queued"
      [] action = "mark_succeeded" /\ status = "unknown" -> "succeeded"
      [] action = "mark_failed" /\ status = "unknown" -> "failed"
      [] action = "record_compensated" /\ status \in {"unknown", "failed", "dead_letter"} -> "compensated"
      [] OTHER -> "absent"

Larger(a, b) == IF a > b THEN a ELSE b

(* A replay is due at once and has one attempt left at least. *)
Decided(row, status, replay) ==
    [status |-> status, attempts |-> row.attempts, token |-> row.token, left |-> row.left,
     maxAttempts |-> IF replay THEN Larger(row.maxAttempts, row.attempts + 1) ELSE row.maxAttempts,
     wait |-> IF replay THEN 0 ELSE row.wait]

(* A request id decides once: a second decision under it changes nothing,   *)
(* by the prior read or, when two race, by the unique index.                *)
ControlToolJob(p, request, action) ==
    LET from == job[p].status
        next == Transition(from, action)
    IN
    /\ \A r \in resolutions : ~ (r.job = p /\ r.request = request)
    /\ next # "absent"
    /\ resolutions' = resolutions \cup
         {[job |-> p, request |-> request, action |-> action, from |-> from, to |-> next, issued |-> issued]}
    /\ job' = [job EXCEPT ![p] = Decided(job[p], next, action = "retry")]
    /\ Link(p, next,
            CASE next = "succeeded" -> "executed" [] next = "compensated" -> "cancelled" [] OTHER -> next,
            IF next = "compensated" THEN "cancelled" ELSE next)
    /\ UNCHANGED <<approved, withdrawn, worker, calls, issued>>

-----------------------------------------------------------------------------
WorkerStep(w) ==
    \/ StartCycle(w)
    \/ TakeSnapshot(w)
    \/ NothingToClaim(w)
    \/ \E p \in Proposals : Claim(w, p)
    \/ RefuseToRun(w)
    \/ StartTool(w)
    \/ ToolReturns(w)
    \/ ToolRejects(w)
    \/ \E kind \in ErrorKind : CheckFails(w, kind) \/ ToolThrows(w, kind) \/ SucceedThrows(w, kind)
    \/ Succeed(w)
    \/ Fail(w)
    \/ MarkUnknown(w)
    \/ ScheduleRetry(w)
    \/ DeadLetter(w)
    \/ LeaseLost(w)
    \/ Crash(w)

Next ==
    \/ Tick
    \/ \E p \in Proposals : Withdraw(p) \/ Approve(p) \/ QueueConfirmedProposal(p)
    \/ \E w \in Workers : WorkerStep(w)
    \/ \E c \in calls : ToolLands(c) \/ ToolIsLost(c)
    \/ \E p \in Proposals, request \in Requests, action \in ControlAction : ControlToolJob(p, request, action)

Spec == Init /\ [][Next]_vars

-----------------------------------------------------------------------------
(* Properties *)

JobRow == [status : JobStatus, attempts : Nat, maxAttempts : Nat, token : Nat, left : Int, wait : Int]
WorkerState == [phase : Phase, job : Proposals \cup {NoJob}, token : Nat, age : Nat,
                found : SUBSET Proposals, verdict : Verdict]
Call == [job : Proposals, token : Nat, state : {"flying", "landed", "gone"}]
Resolution == [job : Proposals, request : Requests, action : ControlAction,
               from : JobStatus, to : JobStatus, issued : Nat]

(* Every column keeps to the values its CHECK constraint allows, and every  *)
(* worker is in a phase of processTenant.                                   *)
TypeOK ==
    /\ job \in [Proposals -> JobRow]
    /\ call \in [Proposals -> CallStatus]
    /\ proposal \in [Proposals -> ProposalStatus]
    /\ run \in [Proposals -> RunStatus]
    /\ approved \subseteq Proposals
    /\ withdrawn \subseteq Proposals
    /\ worker \in [Workers -> WorkerState]
    /\ calls \subseteq Call
    /\ resolutions \subseteq Resolution
    /\ issued \in Nat

Busy(w) == worker[w].phase \in {"claimed", "running", "report"}

(* However often a row is reclaimed, at most one of the workers that still  *)
(* think they work on it can record an outcome (DR-002: one valid lease).   *)
OneHolder ==
    \A v, w \in Workers :
        Busy(v) /\ Busy(w) /\ worker[v].job = worker[w].job /\ HoldsLease(v) /\ HoldsLease(w) => v = w

(* What the tool call, the proposal and the run say of a job's status. *)
Story(status) ==
    CASE status = "absent" -> <<"absent", "pending", "awaiting_confirmation">>
      [] status \in Waiting -> <<"queued", "queued", "queued">>
      [] status = "succeeded" -> <<"succeeded", "executed", "succeeded">>
      [] status = "dead_letter" -> <<"dead_letter", "failed", "failed">>
      [] status = "compensated" -> <<"compensated", "cancelled", "cancelled">>
      [] OTHER -> <<status, status, status>>

Linked(p) == <<call[p], proposal[p], run[p]>> = Story(job[p].status)

(* The tool call, the proposal and the run always tell the same story as    *)
(* the job, whoever wrote last: the confirmation, a worker or an operator.  *)
LinkedStatuses == \A p \in Proposals : Linked(p)

(* A retry is scheduled only while the budget, which operators may extend   *)
(* but never shrink, has an attempt left (DR-004).                          *)
RetryWithinBudget ==
    \A p \in Proposals : job[p].status = "retry_scheduled" => job[p].attempts < job[p].maxAttempts

(* A job reads "succeeded" only if an execution of its tool really took     *)
(* effect, or an operator vouched for it with evidence.                     *)
SuccessIsReal ==
    \A p \in Proposals : job[p].status = "succeeded" =>
        \/ \E c \in calls : c.job = p /\ c.state = "landed"
        \/ \E r \in resolutions : r.job = p /\ r.action = "mark_succeeded"

LiveLeases == {p \in Proposals : job[p].status = "executing" /\ job[p].left > 0}

(* Stale snapshots and cycle times, crashes and reclaims never give a       *)
(* tenant more live leases than its limit and one more for every other      *)
(* worker process: the limit itself only when there is one process.         *)
ConcurrencyBound == Cardinality(LiveLeases) < TenantConcurrency + Cardinality(Workers)

(* A row leaves "executing" only by a report of the worker that holds its   *)
(* current token: a worker whose lease was taken over changes nothing       *)
(* (DR-003).                                                                *)
HolderSettles ==
    \A p \in Proposals : job[p].status = "executing" /\ job'[p].status # "executing" =>
        \E w \in Workers : /\ worker[w].phase = "report"
                           /\ worker[w].job = p
                           /\ worker[w].token = job[p].token
                           /\ worker'[w] = Idle
OnlyHolderSettles == [][HolderSettles]_vars

(* A job that has an outcome, a dead letter or an unknown one included,     *)
(* keeps it until an operator's resolution is on record (DR-008): no worker,*)
(* however late, and no second confirmation reopens it.                     *)
OperatorReopens ==
    \A p \in Proposals : job[p].status \in Settled /\ job'[p] # job[p] =>
        \E r \in resolutions' \ resolutions : r.job = p /\ r.from = job[p].status /\ r.to = job'[p].status
OnlyOperatorReopens == [][OperatorReopens]_vars

(* The job table is a work queue with an operator: an abstract lease, its   *)
(* token and an abstract outcome are read off the row.                      *)
QueueState(p) ==
    CASE job[p].status = "absent" -> "absent"
      [] job[p].status \in Waiting -> "ready"
      [] job[p].status = "executing" -> "leased"
      [] OTHER -> "settled"

Queue == INSTANCE WorkQueue WITH
    Items <- Proposals,
    Operated <- TRUE,
    state <- [p \in Proposals |-> QueueState(p)],
    holder <- [p \in Proposals |-> job[p].token],
    granted <- issued

ImplementsWorkQueue == Queue!Spec

-----------------------------------------------------------------------------
(* What the documentation says and the code does not do *)

(* docs/16, DR-014: a limit of concurrent work per tenant.                  *)
TenantLimit == Cardinality(LiveLeases) <= TenantConcurrency

(* docs/16, DR-004: every kind of work has a finite attempt budget.         *)
BudgetKept == \A p \in Proposals : job[p].attempts <= job[p].maxAttempts

(* docs/16, DR-008: an external execution whose outcome nobody observed is  *)
(* never started again blindly; with a budget of one attempt only an        *)
(* operator's "retry" can authorise the second one.                         *)
NoBlindReplay ==
    \A c, d \in calls :
        c.job = d.job /\ c.job \in External /\ c.token < d.token =>
            \E r \in resolutions : /\ r.job = c.job
                                   /\ r.action = "retry"
                                   /\ c.token <= r.issued
                                   /\ r.issued < d.token

-----------------------------------------------------------------------------
(* Liveness *)

(* Time passes; a confirmation that passed its checks is queued; a worker   *)
(* process is restarted and is not killed at every single poll; a step it   *)
(* has begun ends, the tool's by its time-out at the latest.                *)
Fairness ==
    /\ WF_vars(Tick)
    /\ \A p \in Proposals : WF_vars(QueueConfirmedProposal(p))
    /\ \A w \in Workers :
        /\ WF_vars(StartCycle(w))
        /\ SF_vars(TakeSnapshot(w))
        /\ WF_vars(NothingToClaim(w))
        /\ WF_vars(RefuseToRun(w) \/ StartTool(w))
        /\ WF_vars(ToolReturns(w) \/ ToolThrows(w, "ambiguous"))
        /\ WF_vars(Succeed(w) \/ Fail(w) \/ MarkUnknown(w) \/ ScheduleRetry(w) \/ DeadLetter(w) \/ LeaseLost(w))
    /\ SF_vars(\E w \in Workers, p \in Proposals : Claim(w, p))

FairSpec == Spec /\ Fairness

(* A queued job is not lost: whatever workers crash with its lease, or hold *)
(* it for too long beside each other, it reaches an outcome, or the         *)
(* exploration runs out of leases (MaxClaims).                              *)
EveryJobSettles ==
    \A p \in Proposals :
        job[p].status \in Waiting \cup {"executing"} ~> (job[p].status \in Settled \/ issued = MaxClaims)
=============================================================================
