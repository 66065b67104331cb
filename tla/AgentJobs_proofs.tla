-------------------------- MODULE AgentJobs_proofs --------------------------
(***************************************************************************)
(* What AgentJobs promises for any number of proposals, workers, operator  *)
(* requests and leases, and for any budgets, delays and horizon.           *)
(***************************************************************************)
EXTENDS AgentJobs, FiniteSetTheorems, TLAPS

-----------------------------------------------------------------------------
(* The inductive invariant.  Leases are safe because tokens are: a row has  *)
(* one while it is executing, no two busy workers have the same one, and    *)
(* the next one is new.  An outcome is true because a worker reports        *)
(* success only of an execution whose effect is on record.                  *)

LeaseInv ==
    /\ \A p \in Proposals : /\ job[p].token # 0 <=> job[p].status = "executing"
                            /\ job[p].token <= issued
    /\ \A w \in Workers : Busy(w) => worker[w].job \in Proposals /\ worker[w].token \in 1 .. issued
    /\ \A v, w \in Workers : Busy(v) /\ Busy(w) /\ worker[v].token = worker[w].token => v = w

OutcomeInv ==
    \A w \in Workers : worker[w].phase = "report" /\ worker[w].verdict = "succeeded" =>
                          CallOf(w, "landed") \in calls

-----------------------------------------------------------------------------
(* Type correctness *)

(* Classify always yields one of the four verdicts. *)
LEMMA ClassifyType == \A p, kind : Classify(p, kind) \in Verdict
  BY DEF Classify, Verdict

(* An operator's transition yields a job status, and never one of the two   *)
(* statuses that only a worker's report or a claim may write.               *)
LEMMA TransitionType ==
    \A status, action : /\ Transition(status, action) \in JobStatus
                        /\ Transition(status, action) \notin {"executing", "retry_scheduled", "unknown", "dead_letter"}
  BY DEF Transition, JobStatus

(* Transition is refused from a status in which nothing is left to decide,  *)
(* and while a worker holds the job.                                        *)
LEMMA TransitionDomain ==
    \A status, action :
        Transition(status, action) # "absent" =>
            status \in {"queued", "retry_scheduled", "unknown", "dead_letter", "failed"}
  BY DEF Transition

(* Time moves a distance by at most one, and stays within its type. *)
LEMMA ClockType == /\ \A n \in Int : Lower(n) \in Int /\ Lower(n) <= n
                   /\ \A n \in Nat : Older(n) \in Nat /\ n <= Older(n)
  BY TimeAssumption DEF Lower, Older

(* What each rewriting of a row makes of its type. *)
LEMMA RowType ==
    ASSUME NEW row \in JobRow
    PROVE  /\ Aged(row) \in JobRow
           /\ \A age \in Nat : issued \in Nat => Leased(row, age) \in JobRow
           /\ \A status \in JobStatus, wait \in Int : Released(row, status, wait) \in JobRow
           /\ \A status \in JobStatus, replay \in BOOLEAN : Decided(row, status, replay) \in JobRow
  <1>1. Aged(row) \in JobRow
    <2>1. row.left \in Int /\ row.wait \in Int
      BY DEF JobRow
    <2>2. Lower(row.left) \in Int /\ Lower(row.wait) \in Int
      BY <2>1, ClockType
    <2> QED BY <2>2 DEF Aged, JobRow
  <1>2. ASSUME NEW age \in Nat, issued \in Nat
        PROVE  Leased(row, age) \in JobRow
    BY <1>2, TimeAssumption DEF Leased, JobRow, JobStatus
  <1>3. ASSUME NEW status \in JobStatus, NEW wait \in Int
        PROVE  Released(row, status, wait) \in JobRow
    BY DEF Released, JobRow
  <1>4. ASSUME NEW status \in JobStatus, NEW replay \in BOOLEAN
        PROVE  Decided(row, status, replay) \in JobRow
    BY DEF Decided, Larger, JobRow
  <1> QED BY <1>1, <1>2, <1>3, <1>4

(* What a worker returns to, and what it starts a cycle with. *)
LEMMA IdleType == Idle \in WorkerState /\ [Idle EXCEPT !.phase = "polling"] \in WorkerState
  BY DEF Idle, WorkerState, Phase, Polls, Verdict

(* The initial state has the right types. *)
LEMMA InitType == Init => TypeOK
  BY ProposalAssumption, BudgetAssumption
  DEF Init, TypeOK, NoRow, Idle, JobRow, WorkerState, JobStatus, CallStatus, ProposalStatus, RunStatus,
      Phase, Polls, Verdict

(* Every step keeps the types, given that busy workers work on real jobs.   *)
LEMMA StepType == TypeOK /\ LeaseInv /\ [Next]_vars => TypeOK'
  <1> SUFFICES ASSUME TypeOK, LeaseInv, [Next]_vars PROVE TypeOK'
    OBVIOUS
  <1> USE DEF TypeOK
  <1>1. CASE Tick
    <2>1. job' \in [Proposals -> JobRow]
      BY <1>1, RowType DEF Tick
    <2>2. ASSUME NEW w \in Workers
          PROVE worker'[w] \in WorkerState
      <3>1. worker[w] \in WorkerState /\ worker[w].age \in Nat
        BY DEF WorkerState
      <3>2. Older(worker[w].age) \in Nat
        BY <3>1, ClockType
      <3> QED BY <1>1, <3>1, <3>2 DEF Tick, WorkerState
    <2>3. worker' \in [Workers -> WorkerState]
      BY <1>1, <2>2 DEF Tick
    <2> QED BY <1>1, <2>1, <2>3 DEF Tick, linked
  <1>2. ASSUME NEW p \in Proposals, Withdraw(p) \/ Approve(p)
        PROVE TypeOK'
    BY <1>2 DEF Withdraw, Approve, linked
  <1>3. ASSUME NEW p \in Proposals, QueueConfirmedProposal(p)
        PROVE TypeOK'
    <2>1. [NoRow(p) EXCEPT !.status = "queued"] \in JobRow
      BY BudgetAssumption DEF NoRow, JobRow, JobStatus
    <2> QED BY <1>3, <2>1 DEF QueueConfirmedProposal, CallStatus, JobStatus, ProposalStatus, RunStatus
  <1>4. ASSUME NEW w \in Workers, WorkerStep(w)
        PROVE TypeOK'
    <2>1. CASE StartCycle(w) \/ NothingToClaim(w)
      BY <2>1, IdleType DEF StartCycle, NothingToClaim, linked
    <2>S. CASE TakeSnapshot(w)
      <3>1. worker' \in [Workers -> WorkerState]
        BY <2>S DEF TakeSnapshot, WorkerState, Phase, Polls
      <3> QED BY <2>S, <3>1 DEF TakeSnapshot, linked
    <2>2. ASSUME NEW p \in Proposals, Claim(w, p)
          PROVE TypeOK'
      <3>1. worker[w].age \in Nat /\ issued' \in Nat /\ issued' = issued + 1
        BY <2>2 DEF Claim, LeaseRow, WorkerState
      <3>2. job' \in [Proposals -> JobRow]
        BY <2>2, <3>1, RowType DEF Claim, LeaseRow
      <3>3. worker' \in [Workers -> WorkerState]
        BY <2>2, <3>1 DEF Claim, Idle, WorkerState, Phase, Polls, Verdict
      <3>4. /\ call' \in [Proposals -> CallStatus]
            /\ proposal' \in [Proposals -> ProposalStatus]
            /\ run' \in [Proposals -> RunStatus]
        BY <2>2 DEF Claim, LeaseRow, CallStatus, JobStatus, ProposalStatus, RunStatus
      <3> QED BY <2>2, <3>1, <3>2, <3>3, <3>4 DEF Claim
    <2>3. ASSUME NEW verdict \in Verdict, ToReport(w, verdict)
          PROVE worker' \in [Workers -> WorkerState]
      BY <2>3 DEF ToReport, WorkerState, Phase
    <2>4. CASE RefuseToRun(w) \/ ToolReturns(w)
      BY <2>3, <2>4 DEF RefuseToRun, ToolReturns, linked, Verdict
    <2>5. ASSUME NEW kind \in ErrorKind, CheckFails(w, kind) \/ ToolThrows(w, kind) \/ SucceedThrows(w, kind)
          PROVE TypeOK'
      BY <2>3, <2>5, ClassifyType DEF CheckFails, ToolThrows, SucceedThrows, linked
    <2>6. CASE StartTool(w)
      <3>1. worker[w].job \in Proposals /\ worker[w].token \in Nat
        BY <2>6 DEF StartTool, LeaseInv, Busy, WorkerState
      <3>2. [job |-> worker[w].job, token |-> worker[w].token, state |-> "flying"] \in Call
        BY <3>1 DEF Call
      <3>3. worker' \in [Workers -> WorkerState]
        BY <2>6 DEF StartTool, WorkerState, Phase
      <3> QED BY <2>6, <3>2, <3>3 DEF StartTool, linked
    <2>7. CASE ToolRejects(w)
      BY <2>3, <2>7, ClassifyType DEF ToolRejects, Becomes, CallOf, linked, Call
    <2>8. CASE Succeed(w) \/ Fail(w) \/ MarkUnknown(w) \/ ScheduleRetry(w) \/ DeadLetter(w)
      <3>1. worker[w].job \in Proposals
        BY <2>8 DEF Succeed, Fail, MarkUnknown, ScheduleRetry, DeadLetter, Reports, LeaseInv, Busy
      <3>2. job[worker[w].job] \in JobRow /\ job[worker[w].job].wait \in Int
        BY <3>1 DEF JobRow
      <3>3. ASSUME NEW status \in JobStatus, NEW wait \in Int, Release(worker[w].job, status, wait)
            PROVE  job' \in [Proposals -> JobRow]
        BY <3>2, <3>3, RowType DEF Release
      <3>6. job' \in [Proposals -> JobRow]
        <4>1. /\ Succeed(w) => Release(worker[w].job, "succeeded", job[worker[w].job].wait)
              /\ Fail(w) => Release(worker[w].job, "failed", job[worker[w].job].wait)
              /\ MarkUnknown(w) => Release(worker[w].job, "unknown", job[worker[w].job].wait)
              /\ ScheduleRetry(w) => Release(worker[w].job, "retry_scheduled", RetryTicks)
              /\ DeadLetter(w) => Release(worker[w].job, "dead_letter", job[worker[w].job].wait)
          BY DEF Succeed, Fail, MarkUnknown, ScheduleRetry, DeadLetter
        <4>2. {"succeeded", "failed", "unknown", "retry_scheduled", "dead_letter"} \subseteq JobStatus /\ RetryTicks \in Int
          BY TimeAssumption DEF JobStatus
        <4> QED BY <2>8, <3>2, <3>3, <4>1, <4>2
      <3>4. /\ call' \in [Proposals -> CallStatus]
            /\ proposal' \in [Proposals -> ProposalStatus]
            /\ run' \in [Proposals -> RunStatus]
        BY <2>8 DEF Succeed, Fail, MarkUnknown, ScheduleRetry, DeadLetter, Link,
                    CallStatus, JobStatus, ProposalStatus, RunStatus
      <3>5. worker' \in [Workers -> WorkerState] /\ UNCHANGED <<approved, withdrawn, calls, resolutions, issued>>
        BY <2>8, IdleType DEF Succeed, Fail, MarkUnknown, ScheduleRetry, DeadLetter, Reports
      <3> QED BY <3>4, <3>5, <3>6
    <2>9. CASE LeaseLost(w) \/ Crash(w)
      BY <2>9, IdleType DEF LeaseLost, Crash, linked
    <2> QED BY <1>4, <2>1, <2>S, <2>2, <2>4, <2>5, <2>6, <2>7, <2>8, <2>9 DEF WorkerStep
  <1>5. ASSUME NEW c \in calls, ToolLands(c) \/ ToolIsLost(c)
        PROVE TypeOK'
    BY <1>5 DEF ToolLands, ToolIsLost, Becomes, Call, linked
  <1>6. ASSUME NEW p \in Proposals, NEW request \in Requests, NEW action \in ControlAction,
               ControlToolJob(p, request, action)
        PROVE TypeOK'
    <2> DEFINE next == Transition(job[p].status, action)
    <2>1. next \in {"cancelled", "queued", "succeeded", "failed", "compensated"}
      BY <1>6 DEF ControlToolJob, Transition
    <2>2. job[p] \in JobRow /\ job[p].status \in JobStatus /\ next \in JobStatus
      BY <2>1 DEF JobRow, JobStatus
    <2>3. job' \in [Proposals -> JobRow]
      BY <1>6, <2>2, RowType DEF ControlToolJob
    <2>4. /\ call' \in [Proposals -> CallStatus]
          /\ proposal' \in [Proposals -> ProposalStatus]
          /\ run' \in [Proposals -> RunStatus]
      BY <1>6, <2>1 DEF ControlToolJob, Link, CallStatus, JobStatus, ProposalStatus, RunStatus
    <2>5. resolutions' \subseteq Resolution
      BY <1>6, <2>2 DEF ControlToolJob, Resolution
    <2> QED BY <1>6, <2>3, <2>4, <2>5 DEF ControlToolJob
  <1>7. CASE UNCHANGED vars
    BY <1>7 DEF vars, linked
  <1> QED BY <1>1, <1>2, <1>3, <1>4, <1>5, <1>6, <1>7 DEF Next

-----------------------------------------------------------------------------
(* Leases *)

(* At first nobody holds a lease. *)
LEMMA InitLeases == Init => LeaseInv
  BY DEF Init, LeaseInv, NoRow, Idle, Busy

(* Every step keeps a token with its row and its worker; a new lease gets a *)
(* token above all others.                                                  *)
LEMMA StepLeases == TypeOK /\ LeaseInv /\ LinkedStatuses /\ [Next]_vars => LeaseInv'
  <1> SUFFICES ASSUME TypeOK, LeaseInv, LinkedStatuses, [Next]_vars PROVE LeaseInv'
    OBVIOUS
  <1>0. /\ issued \in Nat
        /\ job \in [Proposals -> JobRow]
        /\ worker \in [Workers -> WorkerState]
        /\ \A p \in Proposals : job[p].token \in Nat
    BY DEF TypeOK, JobRow
  (* A step that leaves the workers' jobs and tokens alone, and whoever is    *)
  (* busy afterwards was busy before.                                         *)
  <1>A. ASSUME issued' = issued,
               \A p \in Proposals : /\ job'[p].token # 0 <=> job'[p].status = "executing"
                                     /\ job'[p].token \in {0, job[p].token},
               \A w \in Workers : Busy(w)' => /\ Busy(w)
                                              /\ worker'[w].job = worker[w].job
                                              /\ worker'[w].token = worker[w].token
        PROVE  LeaseInv'
    BY <1>A, <1>0 DEF LeaseInv
  <1>1. CASE Tick
    <2>1. \A p \in Proposals : job'[p].token = job[p].token /\ job'[p].status = job[p].status
      BY <1>0, <1>1 DEF Tick, Aged, JobRow
    <2>2. \A w \in Workers : /\ worker'[w].phase = worker[w].phase
                             /\ worker'[w].job = worker[w].job
                             /\ worker'[w].token = worker[w].token
      BY <1>0, <1>1 DEF Tick, WorkerState
    <2> QED BY <1>1, <1>A, <2>1, <2>2 DEF Tick, Busy, LeaseInv
  <1>2. CASE UNCHANGED <<job, worker, issued>>
    BY <1>2 DEF LeaseInv, Busy
  <1>3. ASSUME NEW p \in Proposals, QueueConfirmedProposal(p)
        PROVE LeaseInv'
    <2>1. job'[p].token = 0 /\ job'[p].status = "queued" /\ \A q \in Proposals \ {p} : job'[q] = job[q]
      BY <1>0, <1>3 DEF QueueConfirmedProposal, NoRow
    <2> QED BY <1>3, <1>A, <2>1 DEF QueueConfirmedProposal, LeaseInv, Busy
  <1>4. ASSUME NEW w \in Workers, WorkerStep(w)
        PROVE LeaseInv'
    <2>1. CASE StartCycle(w) \/ NothingToClaim(w) \/ LeaseLost(w) \/ Crash(w)
      BY <1>0, <2>1 DEF StartCycle, NothingToClaim, LeaseLost, Crash, Idle, Busy, LeaseInv
    <2>S. CASE TakeSnapshot(w)
      BY <1>0, <2>S DEF TakeSnapshot, Busy, LeaseInv, WorkerState
    <2>2. ASSUME NEW p \in Proposals, Claim(w, p)
          PROVE LeaseInv'
      <3>1. issued' = issued + 1 /\ worker'[w].token = issued + 1 /\ worker'[w].job = p
        BY <1>0, <2>2 DEF Claim, LeaseRow, Idle
      <3>2. \A v \in Workers \ {w} : worker'[v] = worker[v]
        BY <1>0, <2>2 DEF Claim
      <3>3. job'[p].token = issued + 1 /\ job'[p].status = "executing" /\ \A q \in Proposals \ {p} : job'[q] = job[q]
        BY <1>0, <2>2 DEF Claim, LeaseRow, Leased
      <3>4. \A q \in Proposals : /\ job'[q].token # 0 <=> job'[q].status = "executing"
                                 /\ job'[q].token <= issued'
        BY <1>0, <3>1, <3>3 DEF LeaseInv
      <3>5. \A v \in Workers : Busy(v)' => worker'[v].job \in Proposals /\ worker'[v].token \in 1 .. issued'
        BY <1>0, <3>1, <3>2 DEF LeaseInv, Busy
      <3>6. \A u, v \in Workers : Busy(u)' /\ Busy(v)' /\ worker'[u].token = worker'[v].token => u = v
        BY <1>0, <3>1, <3>2 DEF LeaseInv, Busy
      <3> QED BY <3>4, <3>5, <3>6 DEF LeaseInv
    <2>3. ASSUME NEW verdict \in Verdict, ToReport(w, verdict), Busy(w), UNCHANGED <<job, issued>>
          PROVE  LeaseInv'
      BY <1>0, <2>3 DEF ToReport, Busy, LeaseInv, WorkerState
    <2>4. CASE RefuseToRun(w) \/ ToolReturns(w) \/ ToolRejects(w)
      BY <2>3, <2>4, ClassifyType DEF RefuseToRun, ToolReturns, ToolRejects, Busy, Verdict
    <2>5. ASSUME NEW kind \in ErrorKind, CheckFails(w, kind) \/ ToolThrows(w, kind) \/ SucceedThrows(w, kind)
          PROVE  LeaseInv'
      BY <2>3, <2>5, ClassifyType DEF CheckFails, ToolThrows, SucceedThrows, Busy
    <2>6. CASE StartTool(w)
      BY <1>0, <2>6 DEF StartTool, Busy, LeaseInv, WorkerState
    <2>7. CASE Succeed(w) \/ Fail(w) \/ MarkUnknown(w) \/ ScheduleRetry(w) \/ DeadLetter(w)
      <3>1. /\ Busy(w) /\ issued' = issued
            /\ worker' = [worker EXCEPT ![w] = Idle]
            /\ worker[w].job \in Proposals
        BY <2>7 DEF Succeed, Fail, MarkUnknown, ScheduleRetry, DeadLetter, Reports, LeaseInv, Busy
      <3>2. /\ job'[worker[w].job].token = 0
            /\ job'[worker[w].job].status # "executing"
            /\ \A q \in Proposals \ {worker[w].job} : job'[q] = job[q]
        BY <1>0, <2>7, <3>1 DEF Succeed, Fail, MarkUnknown, ScheduleRetry, DeadLetter, Release, Released
      <3>3. \A v \in Workers : Busy(v)' => v # w /\ Busy(v) /\ worker'[v] = worker[v]
        BY <1>0, <3>1 DEF Busy, Idle
      <3> QED BY <1>A, <3>1, <3>2, <3>3 DEF LeaseInv
    <2> QED BY <1>4, <2>1, <2>S, <2>2, <2>4, <2>5, <2>6, <2>7 DEF WorkerStep
  <1>5. ASSUME NEW p \in Proposals, NEW request \in Requests, NEW action \in ControlAction,
               ControlToolJob(p, request, action)
        PROVE LeaseInv'
    <2>1. job[p].status # "executing" /\ Transition(job[p].status, action) # "executing"
      BY <1>5, TransitionDomain, TransitionType DEF ControlToolJob
    <2>2. /\ job'[p].token = job[p].token
          /\ job'[p].status # "executing"
          /\ \A q \in Proposals \ {p} : job'[q] = job[q]
      BY <1>0, <1>5, <2>1 DEF ControlToolJob, Decided
    <2> QED BY <1>5, <1>A, <2>1, <2>2 DEF ControlToolJob, LeaseInv, Busy
  <1> QED BY <1>1, <1>2, <1>3, <1>4, <1>5 DEF Next, Withdraw, Approve, ToolLands, ToolIsLost, vars, linked

-----------------------------------------------------------------------------
(* The job, its call, its proposal and its run *)

(* What the call, the proposal and the run say for each status of a job. *)
LEMMA Stories ==
    /\ Story("absent") = <<"absent", "pending", "awaiting_confirmation">>
    /\ Story("queued") = <<"queued", "queued", "queued">>
    /\ Story("retry_scheduled") = <<"queued", "queued", "queued">>
    /\ Story("executing") = <<"executing", "executing", "executing">>
    /\ Story("succeeded") = <<"succeeded", "executed", "succeeded">>
    /\ Story("failed") = <<"failed", "failed", "failed">>
    /\ Story("unknown") = <<"unknown", "unknown", "unknown">>
    /\ Story("dead_letter") = <<"dead_letter", "failed", "failed">>
    /\ Story("cancelled") = <<"cancelled", "cancelled", "cancelled">>
    /\ Story("compensated") = <<"compensated", "cancelled", "cancelled">>
  BY DEF Story, Waiting

(* At first no proposal has a job, and all four tables agree on that. *)
LEMMA InitLinked == Init => LinkedStatuses /\ RetryWithinBudget
  BY Stories DEF Init, LinkedStatuses, Linked, RetryWithinBudget, NoRow

(* A step that changes the status of a job changes the three other tables   *)
(* to match.                                                                *)
LEMMA StepLinked == TypeOK /\ LeaseInv /\ LinkedStatuses /\ [Next]_vars => LinkedStatuses'
  <1> SUFFICES ASSUME TypeOK, LeaseInv, LinkedStatuses, [Next]_vars PROVE LinkedStatuses'
    OBVIOUS
  <1>0. /\ job \in [Proposals -> JobRow]
        /\ call \in [Proposals -> CallStatus]
        /\ proposal \in [Proposals -> ProposalStatus]
        /\ run \in [Proposals -> RunStatus]
    BY DEF TypeOK
  (* A step that keeps the three linked columns and every job's status. *)
  <1>A. ASSUME UNCHANGED linked, \A p \in Proposals : job'[p].status = job[p].status
        PROVE LinkedStatuses'
    BY <1>A DEF LinkedStatuses, Linked, linked
  (* A step that rewrites the four rows of p and nobody else's. *)
  <1>B. ASSUME NEW p \in Proposals, Linked(p)',
               \A q \in Proposals \ {p} : /\ job'[q] = job[q] /\ call'[q] = call[q]
                                          /\ proposal'[q] = proposal[q] /\ run'[q] = run[q]
        PROVE LinkedStatuses'
    BY <1>B DEF LinkedStatuses, Linked
  <1>1. CASE Tick
    <2>1. \A p \in Proposals : job'[p].status = job[p].status
      BY <1>0, <1>1 DEF Tick, Aged, JobRow
    <2> QED BY <1>1, <1>A, <2>1 DEF Tick
  <1>2. CASE UNCHANGED <<job, linked>>
    BY <1>2, <1>A
  <1>3. ASSUME NEW p \in Proposals, QueueConfirmedProposal(p)
        PROVE LinkedStatuses'
    <2>1. /\ job'[p].status = "queued" /\ call'[p] = "queued" /\ proposal'[p] = "queued" /\ run'[p] = "queued"
          /\ \A q \in Proposals \ {p} : /\ job'[q] = job[q] /\ call'[q] = call[q]
                                        /\ proposal'[q] = proposal[q] /\ run'[q] = run[q]
      BY <1>0, <1>3 DEF QueueConfirmedProposal, NoRow
    <2> QED BY <1>B, <2>1, Stories DEF Linked
  <1>4. ASSUME NEW w \in Workers, WorkerStep(w)
        PROVE LinkedStatuses'
    <2>1. ASSUME NEW p \in Proposals, Claim(w, p)
          PROVE LinkedStatuses'
      <3>1. /\ job'[p].status = "executing" /\ call'[p] = "executing"
            /\ proposal'[p] = "executing" /\ run'[p] = "executing"
            /\ \A q \in Proposals \ {p} : /\ job'[q] = job[q] /\ call'[q] = call[q]
                                          /\ proposal'[q] = proposal[q] /\ run'[q] = run[q]
        BY <1>0, <2>1 DEF Claim, LeaseRow, Leased
      <3> QED BY <1>B, <3>1, Stories DEF Linked
    <2>2. CASE Succeed(w) \/ Fail(w) \/ MarkUnknown(w) \/ ScheduleRetry(w) \/ DeadLetter(w)
      <3>1. PICK p \in Proposals : p = worker[w].job
        BY <2>2 DEF Succeed, Fail, MarkUnknown, ScheduleRetry, DeadLetter, Reports, LeaseInv, Busy
      <3>2. \A q \in Proposals \ {p} : /\ job'[q] = job[q] /\ call'[q] = call[q]
                                       /\ proposal'[q] = proposal[q] /\ run'[q] = run[q]
        BY <1>0, <2>2, <3>1 DEF Succeed, Fail, MarkUnknown, ScheduleRetry, DeadLetter, Release, Link
      <3>3. Linked(p)'
        <4>1. CASE Succeed(w)
          BY <1>0, <3>1, <4>1, Stories DEF Succeed, Release, Released, Link, Linked
        <4>2. CASE Fail(w)
          BY <1>0, <3>1, <4>2, Stories DEF Fail, Release, Released, Link, Linked
        <4>3. CASE MarkUnknown(w)
          BY <1>0, <3>1, <4>3, Stories DEF MarkUnknown, Release, Released, Link, Linked
        <4>4. CASE ScheduleRetry(w)
          BY <1>0, <3>1, <4>4, Stories DEF ScheduleRetry, Release, Released, Link, Linked
        <4>5. CASE DeadLetter(w)
          BY <1>0, <3>1, <4>5, Stories DEF DeadLetter, Release, Released, Link, Linked
        <4> QED BY <2>2, <4>1, <4>2, <4>3, <4>4, <4>5
      <3> QED BY <1>B, <3>1, <3>2, <3>3
    <2>3. CASE UNCHANGED <<job, linked>>
      BY <2>3, <1>A
    <2> QED BY <1>4, <2>1, <2>2, <2>3 DEF WorkerStep, StartCycle, TakeSnapshot, NothingToClaim, RefuseToRun, StartTool, ToolReturns,
               ToolRejects, CheckFails, ToolThrows, SucceedThrows, LeaseLost, Crash
  <1>5. ASSUME NEW p \in Proposals, NEW request \in Requests, NEW action \in ControlAction,
               ControlToolJob(p, request, action)
        PROVE LinkedStatuses'
    <2>1. PICK next \in {"cancelled", "queued", "succeeded", "failed", "compensated"} :
                  next = Transition(job[p].status, action)
      BY <1>5 DEF ControlToolJob, Transition
    <2>2. job'[p].status = next
      BY <1>0, <1>5, <2>1 DEF ControlToolJob, Decided
    <2>3. \A q \in Proposals \ {p} : /\ job'[q] = job[q] /\ call'[q] = call[q]
                                     /\ proposal'[q] = proposal[q] /\ run'[q] = run[q]
      BY <1>0, <1>5 DEF ControlToolJob, Link
    <2>4. /\ call'[p] = next
          /\ proposal'[p] = CASE next = "succeeded" -> "executed" [] next = "compensated" -> "cancelled" [] OTHER -> next
          /\ run'[p] = IF next = "compensated" THEN "cancelled" ELSE next
      BY <1>0, <1>5, <2>1 DEF ControlToolJob, Link
    <2>6. <<call'[p], proposal'[p], run'[p]>> = Story(next)
      <3>1. CASE next = "succeeded"
        BY <2>4, <3>1, Stories
      <3>2. CASE next = "compensated"
        BY <2>4, <3>2, Stories
      <3>3. CASE next \in {"cancelled", "queued", "failed"}
        BY <2>4, <3>3, Stories
      <3> QED BY <2>1, <3>1, <3>2, <3>3
    <2>5. Linked(p)'
      BY <2>2, <2>6 DEF Linked
    <2> QED BY <1>B, <2>3, <2>5
  <1> QED BY <1>1, <1>2, <1>3, <1>4, <1>5 DEF Next, Withdraw, Approve, ToolLands, ToolIsLost, vars, linked

-----------------------------------------------------------------------------
(* Budgets and outcomes *)

(* A row becomes "retry_scheduled" only with an attempt to spare, and what   *)
(* follows never shrinks its budget.                                        *)
LEMMA StepBudget == TypeOK /\ LeaseInv /\ RetryWithinBudget /\ [Next]_vars => RetryWithinBudget'
  <1> SUFFICES ASSUME TypeOK, LeaseInv, RetryWithinBudget, [Next]_vars, NEW p \in Proposals,
                      job'[p].status = "retry_scheduled"
               PROVE  job'[p].attempts < job'[p].maxAttempts
    BY DEF RetryWithinBudget
  <1>0. job \in [Proposals -> JobRow] /\ job[p] \in JobRow
    BY DEF TypeOK
  <1>A. ASSUME job'[p] = job[p] PROVE job'[p].attempts < job'[p].maxAttempts
    BY <1>A DEF RetryWithinBudget
  <1>1. CASE Tick
    <2>1. /\ job'[p].status = job[p].status /\ job'[p].attempts = job[p].attempts
          /\ job'[p].maxAttempts = job[p].maxAttempts
      BY <1>0, <1>1 DEF Tick, Aged, JobRow
    <2> QED BY <2>1 DEF RetryWithinBudget
  <1>2. CASE UNCHANGED job
    BY <1>2, <1>A
  <1>3. ASSUME NEW q \in Proposals, QueueConfirmedProposal(q)
        PROVE job'[p].attempts < job'[p].maxAttempts
    <2>1. p # q
      BY <1>0, <1>3 DEF QueueConfirmedProposal, NoRow
    <2> QED BY <1>0, <1>3, <1>A, <2>1 DEF QueueConfirmedProposal
  <1>4. ASSUME NEW w \in Workers, WorkerStep(w)
        PROVE job'[p].attempts < job'[p].maxAttempts
    <2>1. ASSUME NEW q \in Proposals, Claim(w, q)
          PROVE job'[p].attempts < job'[p].maxAttempts
      <3>1. p # q
        BY <1>0, <2>1 DEF Claim, LeaseRow, Leased
      <3> QED BY <1>0, <1>A, <2>1, <3>1 DEF Claim, LeaseRow
    <2>2. CASE ScheduleRetry(w)
      <3>1. CASE p = worker[w].job
        BY <1>0, <2>2, <3>1 DEF ScheduleRetry, Release, Released, BudgetSpent, JobRow
      <3>2. CASE p # worker[w].job
        BY <1>0, <1>A, <2>2, <3>2 DEF ScheduleRetry, Release
      <3> QED BY <3>1, <3>2
    <2>3. CASE Succeed(w) \/ Fail(w) \/ MarkUnknown(w) \/ DeadLetter(w)
      <3>1. p # worker[w].job
        BY <1>0, <2>3 DEF Succeed, Fail, MarkUnknown, DeadLetter, Release, Released
      <3> QED BY <1>0, <1>A, <2>3, <3>1 DEF Succeed, Fail, MarkUnknown, DeadLetter, Release
    <2>4. CASE UNCHANGED job
      BY <2>4, <1>A
    <2> QED BY <1>4, <2>1, <2>2, <2>3, <2>4 DEF WorkerStep, StartCycle, TakeSnapshot, NothingToClaim, RefuseToRun, StartTool,
               ToolReturns, ToolRejects, CheckFails, ToolThrows, SucceedThrows, LeaseLost, Crash
  <1>5. ASSUME NEW q \in Proposals, NEW request \in Requests, NEW action \in ControlAction,
               ControlToolJob(q, request, action)
        PROVE job'[p].attempts < job'[p].maxAttempts
    <2>1. p # q
      BY <1>0, <1>5, TransitionType DEF ControlToolJob, Decided
    <2> QED BY <1>0, <1>A, <1>5, <2>1 DEF ControlToolJob
  <1> QED BY <1>1, <1>2, <1>3, <1>4, <1>5 DEF Next, Withdraw, Approve, ToolLands, ToolIsLost, vars

(* At first nobody reports success and no job has succeeded. *)
LEMMA InitOutcome == Init => OutcomeInv /\ SuccessIsReal
  BY DEF Init, OutcomeInv, SuccessIsReal, Idle, NoRow

(* An effect on record stays on record. *)
LEMMA EffectsStay == \A c \in calls : [Next]_vars /\ c.state = "landed" => c \in calls'
  <1> SUFFICES ASSUME NEW c \in calls, [Next]_vars, c.state = "landed" PROVE c \in calls'
    OBVIOUS
  <1>1. ASSUME NEW d, NEW state, d.state = "flying", Becomes(d, state) PROVE c \in calls'
    BY <1>1 DEF Becomes
  <1>2. CASE UNCHANGED calls
    BY <1>2
  <1>3. ASSUME NEW w \in Workers, StartTool(w) PROVE c \in calls'
    BY <1>3 DEF StartTool
  <1>4. ASSUME NEW w \in Workers, ToolRejects(w) PROVE c \in calls'
    BY <1>1, <1>4 DEF ToolRejects, CallOf
  <1>5. ASSUME NEW w \in Workers, WorkerStep(w), ~ StartTool(w), ~ ToolRejects(w) PROVE UNCHANGED calls
    BY <1>5 DEF WorkerStep, StartCycle, TakeSnapshot, NothingToClaim, Claim, RefuseToRun, ToolReturns, CheckFails, ToolThrows,
           SucceedThrows, Succeed, Fail, MarkUnknown, ScheduleRetry, DeadLetter, Reports, LeaseLost, Crash
  <1>6. ASSUME NEW d \in calls, ToolLands(d) \/ ToolIsLost(d) PROVE c \in calls'
    BY <1>1, <1>6 DEF ToolLands, ToolIsLost
  <1> QED BY <1>2, <1>3, <1>4, <1>5, <1>6
          DEF Next, Tick, Withdraw, Approve, QueueConfirmedProposal, ControlToolJob, vars

(* A worker turns to reporting success only when the effect is on record. *)
LEMMA StepOutcome == TypeOK /\ OutcomeInv /\ [Next]_vars => OutcomeInv'
  <1> SUFFICES ASSUME TypeOK, OutcomeInv, [Next]_vars, NEW w \in Workers,
                      worker'[w].phase = "report", worker'[w].verdict = "succeeded"
               PROVE  CallOf(w, "landed")' \in calls'
    BY DEF OutcomeInv
  <1>0. worker \in [Workers -> WorkerState]
    BY DEF TypeOK
  <1>A. ASSUME worker'[w] = worker[w] PROVE CallOf(w, "landed")' \in calls'
    <2>1. CallOf(w, "landed") \in calls
      BY <1>A DEF OutcomeInv
    <2> QED BY <1>A, <2>1, EffectsStay DEF CallOf
  <1>1. CASE Tick
    BY <1>0, <1>1, <1>A DEF Tick, Polls, WorkerState
  <1>2. CASE UNCHANGED worker
    BY <1>2, <1>A
  <1>3. ASSUME NEW v \in Workers, WorkerStep(v), v # w
        PROVE CallOf(w, "landed")' \in calls'
    <2>1. worker'[w] = worker[w]
      BY <1>0, <1>3 DEF WorkerStep, StartCycle, TakeSnapshot, NothingToClaim, Claim, RefuseToRun, StartTool, ToolReturns,
             ToolRejects, CheckFails, ToolThrows, SucceedThrows, ToReport, Succeed, Fail, MarkUnknown,
             ScheduleRetry, DeadLetter, Reports, LeaseLost, Crash
    <2> QED BY <1>A, <2>1
  <1>4. CASE WorkerStep(w)
    <2>1. CASE ToolReturns(w)
      BY <1>0, <2>1 DEF ToolReturns, ToReport, CallOf, WorkerState
    <2>2. CASE Succeed(w) \/ Fail(w) \/ MarkUnknown(w) \/ ScheduleRetry(w) \/ DeadLetter(w)
      BY <1>0, <2>2 DEF Succeed, Fail, MarkUnknown, ScheduleRetry, DeadLetter, Reports, Idle
    <2>3. ASSUME NEW kind \in ErrorKind, CheckFails(w, kind) \/ ToolThrows(w, kind) \/ SucceedThrows(w, kind)
          PROVE  FALSE
      <3>1. Classify(worker[w].job, kind) # "succeeded"
        BY DEF Classify
      <3> QED BY <1>0, <2>3, <3>1 DEF CheckFails, ToolThrows, SucceedThrows, ToReport, WorkerState
    <2>4. CASE RefuseToRun(w) \/ ToolRejects(w)
      <3>1. Classify(worker[w].job, "rejected") # "succeeded"
        BY DEF Classify
      <3> QED BY <1>0, <2>4, <3>1 DEF RefuseToRun, ToolRejects, ToReport, WorkerState
    <2>5. CASE StartCycle(w) \/ NothingToClaim(w) \/ LeaseLost(w) \/ Crash(w)
      BY <1>0, <2>5 DEF StartCycle, NothingToClaim, LeaseLost, Crash, Idle
    <2>S. CASE TakeSnapshot(w)
      BY <1>0, <2>S DEF TakeSnapshot, WorkerState
    <2>6. ASSUME NEW p \in Proposals, Claim(w, p) PROVE FALSE
      BY <1>0, <2>6 DEF Claim, Idle
    <2>7. CASE StartTool(w)
      BY <1>0, <2>7 DEF StartTool, WorkerState
    <2> QED BY <1>4, <2>1, <2>2, <2>3, <2>4, <2>5, <2>S, <2>6, <2>7 DEF WorkerStep
  <1> QED BY <1>1, <1>2, <1>3, <1>4 DEF Next, Withdraw, Approve, QueueConfirmedProposal, ToolLands, ToolIsLost,
             ControlToolJob, vars

(* A job becomes "succeeded" by such a report or by an operator's word, and  *)
(* neither is taken back.                                                   *)
LEMMA StepSuccess == TypeOK /\ LeaseInv /\ OutcomeInv /\ SuccessIsReal /\ [Next]_vars => SuccessIsReal'
  <1> DEFINE Vouched(p) == \/ \E c \in calls : c.job = p /\ c.state = "landed"
                           \/ \E r \in resolutions : r.job = p /\ r.action = "mark_succeeded"
  <1> SUFFICES ASSUME TypeOK, LeaseInv, OutcomeInv, SuccessIsReal, [Next]_vars, NEW p \in Proposals,
                      job'[p].status = "succeeded"
               PROVE  Vouched(p)'
    BY DEF SuccessIsReal
  <1>0. job \in [Proposals -> JobRow] /\ job[p] \in JobRow
    BY DEF TypeOK
  <1>1. resolutions \subseteq resolutions'
    BY DEF Next, WorkerStep, vars, Tick, Withdraw, Approve, QueueConfirmedProposal, StartCycle, TakeSnapshot, NothingToClaim, Claim,
           RefuseToRun, StartTool, ToolReturns, ToolRejects, CheckFails, ToolThrows, SucceedThrows, Succeed, Fail,
           MarkUnknown, ScheduleRetry, DeadLetter, Reports, LeaseLost, Crash, ToolLands, ToolIsLost, ControlToolJob
  <1>2. Vouched(p) => Vouched(p)'
    BY <1>1, EffectsStay
  <1>3. job[p].status = "succeeded" => Vouched(p)
    BY DEF SuccessIsReal
  <1> HIDE DEF Vouched
  <1>A. ASSUME job'[p].status = job[p].status PROVE Vouched(p)'
    BY <1>A, <1>2, <1>3
  <1>4. CASE Tick
    BY <1>0, <1>4, <1>A DEF Tick, Aged, JobRow
  <1>5. CASE UNCHANGED job
    BY <1>5, <1>A
  <1>6. ASSUME NEW q \in Proposals, QueueConfirmedProposal(q) PROVE Vouched(p)'
    BY <1>0, <1>6, <1>A DEF QueueConfirmedProposal, NoRow
  <1>7. ASSUME NEW w \in Workers, WorkerStep(w) PROVE Vouched(p)'
    <2>1. ASSUME NEW q \in Proposals, Claim(w, q) PROVE Vouched(p)'
      BY <1>0, <1>A, <2>1 DEF Claim, LeaseRow, Leased
    <2>2. CASE Succeed(w)
      <3>1. CASE p = worker[w].job
        <4>1. CallOf(w, "landed") \in calls
          BY <2>2 DEF Succeed, Reports, OutcomeInv
        <4>2. Vouched(p)
          BY <3>1, <4>1 DEF CallOf, Vouched
        <4> QED BY <1>2, <4>2
      <3>2. CASE p # worker[w].job
        BY <1>0, <1>A, <2>2, <3>2 DEF Succeed, Release
      <3> QED BY <3>1, <3>2
    <2>3. CASE Fail(w) \/ MarkUnknown(w) \/ ScheduleRetry(w) \/ DeadLetter(w)
      <3>1. p # worker[w].job
        BY <1>0, <2>3 DEF Fail, MarkUnknown, ScheduleRetry, DeadLetter, Release, Released
      <3> QED BY <1>0, <1>A, <2>3, <3>1 DEF Fail, MarkUnknown, ScheduleRetry, DeadLetter, Release
    <2>4. CASE UNCHANGED job
      BY <2>4, <1>A
    <2> QED BY <1>7, <2>1, <2>2, <2>3, <2>4 DEF WorkerStep, StartCycle, TakeSnapshot, NothingToClaim, RefuseToRun, StartTool,
               ToolReturns, ToolRejects, CheckFails, ToolThrows, SucceedThrows, LeaseLost, Crash
  <1>8. ASSUME NEW q \in Proposals, NEW request \in Requests, NEW action \in ControlAction,
               ControlToolJob(q, request, action)
        PROVE Vouched(p)'
    <2>1. CASE p = q
      <3>1. Transition(job[q].status, action) = "succeeded"
        BY <1>0, <1>8, <2>1 DEF ControlToolJob, Decided
      <3>2. action = "mark_succeeded"
        BY <3>1 DEF Transition
      <3>3. [job |-> q, request |-> request, action |-> action, from |-> job[q].status,
             to |-> Transition(job[q].status, action), issued |-> issued] \in resolutions'
        BY <1>8 DEF ControlToolJob
      <3>4. \E r \in resolutions' : r.job = p /\ r.action = "mark_succeeded"
        BY <2>1, <3>2, <3>3
      <3> QED BY <3>4 DEF Vouched
    <2>2. CASE p # q
      BY <1>0, <1>A, <1>8, <2>2 DEF ControlToolJob
    <2> QED BY <2>1, <2>2
  <1> QED BY <1>4, <1>5, <1>6, <1>7, <1>8 DEF Next, Withdraw, Approve, ToolLands, ToolIsLost, vars

-----------------------------------------------------------------------------
(* Theorems *)

Inv == TypeOK /\ LeaseInv /\ OutcomeInv /\ LinkedStatuses /\ RetryWithinBudget /\ SuccessIsReal

(* Inv holds initially and every step preserves it. *)
LEMMA Inductive == Spec => []Inv
  <1>1. Init => Inv
    BY InitType, InitLeases, InitOutcome, InitLinked DEF Inv
  <1>2. Inv /\ [Next]_vars => Inv'
    BY StepType, StepLeases, StepOutcome, StepLinked, StepBudget, StepSuccess DEF Inv
  <1> QED BY <1>1, <1>2, PTL DEF Spec

(* The columns of the four tables and the workers' variables keep to their  *)
(* types.                                                                   *)
THEOREM TypeCorrect == Spec => []TypeOK
  BY Inductive, PTL DEF Inv

(* Two workers never both hold the lease of one job: reclaiming a row gives *)
(* it a token nobody has.                                                   *)
THEOREM HoldersAreUnique == Spec => []OneHolder
  <1>1. Inv => OneHolder
    BY DEF Inv, LeaseInv, OneHolder, HoldsLease
  <1> QED BY <1>1, Inductive, PTL

(* The call, the proposal and the run always tell the job's story. *)
THEOREM StatusesStayLinked == Spec => []LinkedStatuses
  BY Inductive, PTL DEF Inv

(* No retry is scheduled beyond the budget. *)
THEOREM RetriesAreBudgeted == Spec => []RetryWithinBudget
  BY Inductive, PTL DEF Inv

(* "succeeded" is written only for an effect that took place, or on an      *)
(* operator's word.                                                         *)
THEOREM SuccessIsVouchedFor == Spec => []SuccessIsReal
  BY Inductive, PTL DEF Inv

-----------------------------------------------------------------------------
(* Concurrency: a claim that found a row counted every lease that was live  *)
(* in its snapshot, and adds one.  What it may have missed is a lease       *)
(* granted since to another claim: at most one for every other worker that  *)
(* was claiming too.                                                        *)

Claimers == {w \in Workers : worker[w].phase = "claiming" /\ worker[w].found # {}}

SlotInv == Cardinality(LiveLeases) + Cardinality(Claimers) < TenantConcurrency + Cardinality(Workers)

(* A subset of the proposals is finite and no larger than its superset. *)
LEMMA Fewer ==
    ASSUME NEW S \in SUBSET Proposals, NEW T \in SUBSET S
    PROVE  /\ IsFiniteSet(S) /\ IsFiniteSet(T)
           /\ Cardinality(S) \in Nat /\ Cardinality(T) \in Nat
           /\ Cardinality(T) <= Cardinality(S)
  <1>1. IsFiniteSet(S)
    BY ProposalAssumption, FS_Subset
  <1>2. IsFiniteSet(T) /\ Cardinality(T) <= Cardinality(S)
    BY <1>1, FS_Subset
  <1> QED BY <1>1, <1>2, FS_CardinalityType

(* Live leases and claimers can be counted. *)
LEMMA Counted ==
    /\ IsFiniteSet(LiveLeases) /\ Cardinality(LiveLeases) \in Nat
    /\ IsFiniteSet(Claimers) /\ Cardinality(Claimers) \in Nat
    /\ Cardinality(Claimers) <= Cardinality(Workers)
    /\ Cardinality(Workers) \in Nat
  <1>1. IsFiniteSet(LiveLeases)
    BY ProposalAssumption, FS_Subset DEF LiveLeases
  <1>2. IsFiniteSet(Claimers) /\ Cardinality(Claimers) <= Cardinality(Workers)
    BY ProposalAssumption, FS_Subset DEF Claimers
  <1> QED BY <1>1, <1>2, ProposalAssumption, FS_CardinalityType

(* The same after a step. *)
LEMMA CountedNext ==
    /\ IsFiniteSet(LiveLeases') /\ Cardinality(LiveLeases') \in Nat
    /\ IsFiniteSet(Claimers') /\ Cardinality(Claimers') \in Nat
    /\ Cardinality(Claimers') <= Cardinality(Workers)
  <1>1. IsFiniteSet(LiveLeases')
    BY ProposalAssumption, FS_Subset DEF LiveLeases
  <1>2. IsFiniteSet(Claimers') /\ Cardinality(Claimers') <= Cardinality(Workers)
    BY ProposalAssumption, FS_Subset DEF Claimers
  <1> QED BY <1>1, <1>2, FS_CardinalityType

(* No tenant has a live lease at the start, and nobody is claiming. *)
LEMMA InitSlots == Init => SlotInv
  <1> SUFFICES ASSUME Init PROVE SlotInv
    OBVIOUS
  <1>1. LiveLeases = {} /\ Claimers = {}
    BY DEF Init, NoRow, Idle, LiveLeases, Claimers
  <1> QED BY <1>1, Counted, FS_EmptySet, BoundAssumption DEF SlotInv

(* A snapshot in which a slot was free counts every lease that is live. *)
LEMMA SnapshotCounts ==
    ASSUME TypeOK, SlotInv, NEW w \in Workers, TakeSnapshot(w)
    PROVE  SlotInv'
  <1> DEFINE age == worker[w].age
  <1>0. /\ worker \in [Workers -> WorkerState] /\ age \in Nat
        /\ \A q \in Proposals : job[q].left \in Int
    BY DEF TypeOK, WorkerState, JobRow
  <1>1. LiveLeases' = LiveLeases
    BY DEF TakeSnapshot, LiveLeases
  <1>2. CASE HasSlot(age)
    <2>1. LiveLeases \subseteq Active(age) /\ Active(age) \subseteq Proposals
      BY <1>0 DEF LiveLeases, Active
    <2>2. Cardinality(LiveLeases) <= Cardinality(Active(age)) /\ Cardinality(Active(age)) \in Nat
      BY <2>1, Fewer
    <2>3. Cardinality(LiveLeases') < TenantConcurrency
      BY <1>1, <1>2, <2>2, Counted, BoundAssumption DEF HasSlot
    <2> QED BY <2>3, Counted, CountedNext, BoundAssumption DEF SlotInv
  <1>3. CASE ~ HasSlot(age)
    <2>1. worker'[w].found = {} /\ \A v \in Workers \ {w} : worker'[v] = worker[v]
      BY <1>0, <1>3 DEF TakeSnapshot, WorkerState
    <2>2. Claimers' \subseteq Claimers
      BY <2>1 DEF Claimers
    <2>3. Cardinality(Claimers') <= Cardinality(Claimers)
      BY <2>2, Counted, FS_Subset
    <2> QED BY <1>1, <2>3, Counted, CountedNext, BoundAssumption DEF SlotInv
  <1> QED BY <1>2, <1>3

(* A claim adds a lease and takes away a claimer. *)
LEMMA ClaimTakesASlot ==
    ASSUME TypeOK, SlotInv, NEW w \in Workers, NEW p \in Proposals, Claim(w, p)
    PROVE  SlotInv'
  <1>0. job \in [Proposals -> JobRow] /\ worker \in [Workers -> WorkerState]
    BY DEF TypeOK
  <1>1. \A q \in Proposals \ {p} : job'[q] = job[q]
    BY <1>0 DEF Claim, LeaseRow
  <1>2. LiveLeases' \subseteq LiveLeases \cup {p}
    BY <1>1 DEF LiveLeases
  <1>3. /\ IsFiniteSet(LiveLeases \cup {p})
        /\ Cardinality(LiveLeases \cup {p}) <= Cardinality(LiveLeases) + 1
        /\ Cardinality(LiveLeases \cup {p}) \in Nat
    <2>1. IsFiniteSet(LiveLeases) /\ Cardinality(LiveLeases) \in Nat
      BY Counted
    <2>2. IsFiniteSet(LiveLeases \cup {p})
      BY <2>1, FS_AddElement
    <2>3. Cardinality(LiveLeases \cup {p}) \in {Cardinality(LiveLeases), Cardinality(LiveLeases) + 1}
      BY <2>1, FS_AddElement
    <2> QED BY <2>1, <2>2, <2>3
  <1>4. Cardinality(LiveLeases') <= Cardinality(LiveLeases) + 1
    BY <1>2, <1>3, Counted, CountedNext, FS_Subset
  <1>5. w \in Claimers
    BY DEF Claim, Claimers
  <1>6. Claimers' \subseteq Claimers \ {w}
    BY <1>0 DEF Claim, Claimers, Idle
  <1>7. IsFiniteSet(Claimers \ {w}) /\ Cardinality(Claimers \ {w}) = Cardinality(Claimers) - 1
    BY <1>5, Counted, FS_RemoveElement
  <1>8. Cardinality(Claimers') <= Cardinality(Claimers) - 1
    BY <1>6, <1>7, FS_Subset
  <1> QED BY <1>4, <1>8, Counted, CountedNext, BoundAssumption DEF SlotInv

(* No other step gives a job a live lease. *)
LEMMA OnlyClaimsLease ==
    ASSUME TypeOK, [Next]_vars, ~ \E w \in Workers, p \in Proposals : Claim(w, p)
    PROVE  LiveLeases' \subseteq LiveLeases
  <1> SUFFICES ASSUME NEW p \in Proposals, job'[p].status = "executing", job'[p].left > 0
               PROVE  job[p].status = "executing" /\ job[p].left > 0
    BY DEF LiveLeases
  <1>0. job \in [Proposals -> JobRow] /\ job[p] \in JobRow /\ job[p].left \in Int
    BY DEF TypeOK, JobRow
  <1>1. CASE job'[p] = job[p]
    BY <1>1
  <1>2. CASE Tick
    <2>1. job'[p] = Aged(job[p])
      BY <1>2 DEF Tick
    <2>2. job[p].status = "executing"
      BY <1>0, <2>1 DEF Aged, JobRow
    <2>3. job'[p].left = Lower(job[p].left)
      BY <1>0, <2>1, <2>2 DEF Aged, JobRow
    <2> QED BY <1>0, <2>2, <2>3, ClockType
  <1>3. ASSUME NEW q \in Proposals, QueueConfirmedProposal(q) PROVE job'[p] = job[p]
    <2>1. p # q
      BY <1>0, <1>3 DEF QueueConfirmedProposal, NoRow
    <2> QED BY <1>0, <1>3, <2>1 DEF QueueConfirmedProposal
  <1>4. ASSUME NEW w \in Workers, WorkerStep(w) PROVE job'[p] = job[p]
    <2>1. CASE Succeed(w) \/ Fail(w) \/ MarkUnknown(w) \/ ScheduleRetry(w) \/ DeadLetter(w)
      <3>1. p # worker[w].job
        BY <1>0, <2>1 DEF Succeed, Fail, MarkUnknown, ScheduleRetry, DeadLetter, Release, Released
      <3> QED BY <1>0, <2>1, <3>1 DEF Succeed, Fail, MarkUnknown, ScheduleRetry, DeadLetter, Release
    <2> QED BY <1>4, <2>1 DEF WorkerStep, StartCycle, TakeSnapshot, NothingToClaim, RefuseToRun, StartTool,
               ToolReturns, ToolRejects, CheckFails, ToolThrows, SucceedThrows, LeaseLost, Crash
  <1>5. ASSUME NEW q \in Proposals, NEW request \in Requests, NEW action \in ControlAction,
               ControlToolJob(q, request, action)
        PROVE  job'[p] = job[p]
    <2>1. p # q
      BY <1>0, <1>5, TransitionType DEF ControlToolJob, Decided
    <2> QED BY <1>0, <1>5, <2>1 DEF ControlToolJob
  <1> QED BY <1>1, <1>2, <1>3, <1>4, <1>5 DEF Next, Withdraw, Approve, ToolLands, ToolIsLost, vars

(* No other step than a snapshot makes a worker a claimer. *)
LEMMA OnlySnapshotsClaim ==
    ASSUME TypeOK, [Next]_vars, ~ \E w \in Workers : TakeSnapshot(w)
    PROVE  Claimers' \subseteq Claimers
  <1> SUFFICES ASSUME NEW w \in Workers, worker'[w].phase = "claiming", worker'[w].found # {}
               PROVE  worker[w].phase = "claiming" /\ worker[w].found # {}
    BY DEF Claimers
  <1>0. worker \in [Workers -> WorkerState]
    BY DEF TypeOK
  <1>1. CASE Tick
    BY <1>0, <1>1 DEF Tick, WorkerState
  <1>2. CASE UNCHANGED worker
    BY <1>2
  <1>3. ASSUME NEW v \in Workers, WorkerStep(v) PROVE worker'[w] = worker[w]
    <2>1. ASSUME v = w PROVE FALSE
      <3>1. worker'[w].phase # "claiming"
        <4>1. CASE StartCycle(w) \/ NothingToClaim(w) \/ LeaseLost(w) \/ Crash(w)
          BY <1>0, <4>1 DEF StartCycle, NothingToClaim, LeaseLost, Crash, Idle
        <4>4. CASE StartTool(w)
          BY <1>0, <4>4 DEF StartTool, WorkerState
        <4>5. ASSUME NEW p \in Proposals, Claim(w, p) PROVE worker'[w].phase = "claimed"
          BY <1>0, <4>5 DEF Claim, Idle
        <4>2. CASE \/ RefuseToRun(w) \/ ToolReturns(w) \/ ToolRejects(w)
                   \/ \E kind \in ErrorKind : CheckFails(w, kind) \/ ToolThrows(w, kind) \/ SucceedThrows(w, kind)
          BY <1>0, <4>2 DEF RefuseToRun, ToolReturns, ToolRejects, CheckFails, ToolThrows, SucceedThrows,
                 ToReport, WorkerState
        <4>3. CASE Succeed(w) \/ Fail(w) \/ MarkUnknown(w) \/ ScheduleRetry(w) \/ DeadLetter(w)
          BY <1>0, <4>3 DEF Succeed, Fail, MarkUnknown, ScheduleRetry, DeadLetter, Reports, Idle
        <4> QED BY <1>3, <2>1, <4>1, <4>2, <4>3, <4>4, <4>5 DEF WorkerStep
      <3> QED BY <3>1
    <2> QED BY <1>0, <1>3, <2>1 DEF WorkerStep, StartCycle, NothingToClaim, Claim, RefuseToRun, StartTool,
             ToolReturns, ToolRejects, CheckFails, ToolThrows, SucceedThrows, ToReport, Succeed, Fail,
             MarkUnknown, ScheduleRetry, DeadLetter, Reports, LeaseLost, Crash
  <1> QED BY <1>1, <1>2, <1>3 DEF Next, Withdraw, Approve, QueueConfirmedProposal, ToolLands, ToolIsLost,
             ControlToolJob, vars

(* Every step keeps leases and claimers within the bound. *)
LEMMA StepSlots == TypeOK /\ SlotInv /\ [Next]_vars => SlotInv'
  <1> SUFFICES ASSUME TypeOK, SlotInv, [Next]_vars PROVE SlotInv'
    OBVIOUS
  <1>1. CASE \E w \in Workers, p \in Proposals : Claim(w, p)
    BY <1>1, ClaimTakesASlot
  <1>2. CASE \E w \in Workers : TakeSnapshot(w)
    BY <1>2, SnapshotCounts
  <1>3. CASE /\ ~ \E w \in Workers, p \in Proposals : Claim(w, p)
             /\ ~ \E w \in Workers : TakeSnapshot(w)
    <2>1. LiveLeases' \subseteq LiveLeases /\ Claimers' \subseteq Claimers
      BY <1>3, OnlyClaimsLease, OnlySnapshotsClaim
    <2>2. Cardinality(LiveLeases') <= Cardinality(LiveLeases) /\ Cardinality(Claimers') <= Cardinality(Claimers)
      BY <2>1, Counted, FS_Subset
    <2> QED BY <2>2, Counted, CountedNext, BoundAssumption DEF SlotInv
  <1> QED BY <1>1, <1>2, <1>3

(* However stale the snapshots and the cycle times are that claims rely on, *)
(* a tenant exceeds its limit of live leases by fewer leases than there are *)
(* worker processes.                                                        *)
THEOREM OvershootIsBounded == Spec => []ConcurrencyBound
  <1>1. SlotInv => ConcurrencyBound
    BY Counted, BoundAssumption DEF SlotInv, ConcurrencyBound
  <1> QED BY <1>1, InitSlots, StepSlots, TypeCorrect, PTL DEF Spec

-----------------------------------------------------------------------------
(* Steps *)

(* The status of p changes from "executing" only by a report of the holder. *)
LEMMA StepHolder == Inv /\ [Next]_vars => [HolderSettles]_vars
  <1> SUFFICES ASSUME Inv, [Next]_vars, NEW p \in Proposals,
                      job[p].status = "executing", job'[p].status # "executing"
               PROVE  \E w \in Workers : /\ worker[w].phase = "report"
                                         /\ worker[w].job = p
                                         /\ worker[w].token = job[p].token
                                         /\ worker'[w] = Idle
    BY DEF HolderSettles
  <1>0. /\ job \in [Proposals -> JobRow] /\ job[p] \in JobRow /\ worker \in [Workers -> WorkerState]
        /\ Linked(p)
    BY DEF Inv, TypeOK, LinkedStatuses
  <1>A. job' # job /\ job'[p].status # job[p].status
    OBVIOUS
  <1>1. ~ Tick
    BY <1>0, <1>A DEF Tick, Aged, JobRow
  <1>2. ASSUME NEW q \in Proposals, QueueConfirmedProposal(q) PROVE FALSE
    <2>1. p = q
      BY <1>0, <1>2, <1>A DEF QueueConfirmedProposal
    <2>2. proposal[p] = "executing"
      BY <1>0, Stories DEF Linked
    <2> QED BY <1>2, <2>1, <2>2 DEF QueueConfirmedProposal
  <1>3. ASSUME NEW q \in Proposals, NEW request \in Requests, NEW action \in ControlAction,
               ControlToolJob(q, request, action)
        PROVE FALSE
    <2>1. p = q
      BY <1>0, <1>3, <1>A DEF ControlToolJob
    <2> QED BY <1>3, <2>1, TransitionDomain DEF ControlToolJob
  <1>4. ASSUME NEW w \in Workers, WorkerStep(w)
        PROVE  /\ worker[w].phase = "report"
               /\ worker[w].job = p
               /\ worker[w].token = job[p].token
               /\ worker'[w] = Idle
    <2>1. ASSUME NEW q \in Proposals, Claim(w, q) PROVE FALSE
      BY <1>0, <1>A, <2>1 DEF Claim, LeaseRow, Leased
    <2>2. CASE Succeed(w) \/ Fail(w) \/ MarkUnknown(w) \/ ScheduleRetry(w) \/ DeadLetter(w)
      <3>1. worker[w].job = p
        BY <1>0, <1>A, <2>2 DEF Succeed, Fail, MarkUnknown, ScheduleRetry, DeadLetter, Release
      <3> QED BY <1>0, <2>2, <3>1 DEF Succeed, Fail, MarkUnknown, ScheduleRetry, DeadLetter, Reports, HoldsLease
    <2> QED BY <1>4, <1>A, <2>1, <2>2 DEF WorkerStep, StartCycle, TakeSnapshot, NothingToClaim, RefuseToRun, StartTool,
               ToolReturns, ToolRejects, CheckFails, ToolThrows, SucceedThrows, LeaseLost, Crash
  <1> QED BY <1>1, <1>2, <1>3, <1>4, <1>A DEF Next, Withdraw, Approve, ToolLands, ToolIsLost, vars

(* A worker whose lease was taken over changes nothing. *)
THEOREM StaleWorkersAreHarmless == Spec => OnlyHolderSettles
  BY Inductive, StepHolder, PTL DEF Spec, OnlyHolderSettles

(* A job that has an outcome changes only by a resolution put on record. *)
LEMMA StepReopen == Inv /\ [Next]_vars => [OperatorReopens]_vars
  <1> SUFFICES ASSUME Inv, [Next]_vars, NEW p \in Proposals, job[p].status \in Settled, job'[p] # job[p]
               PROVE  \E r \in resolutions' \ resolutions :
                          r.job = p /\ r.from = job[p].status /\ r.to = job'[p].status
    BY DEF OperatorReopens
  <1>0. /\ job \in [Proposals -> JobRow] /\ job[p] \in JobRow /\ worker \in [Workers -> WorkerState]
        /\ Linked(p)
        /\ job[p].status \notin {"absent", "executing", "queued", "retry_scheduled"}
    BY DEF Inv, TypeOK, LinkedStatuses, Settled
  <1>1. ~ Tick
    BY <1>0 DEF Tick, Aged, Waiting
  <1>2. ASSUME NEW q \in Proposals, QueueConfirmedProposal(q) PROVE FALSE
    <2>1. p = q
      BY <1>0, <1>2 DEF QueueConfirmedProposal
    <2>2. proposal[p] # "pending"
      BY <1>0, Stories DEF Linked, Settled
    <2> QED BY <1>2, <2>1, <2>2 DEF QueueConfirmedProposal
  <1>3. ASSUME NEW w \in Workers, WorkerStep(w) PROVE FALSE
    <2>1. ASSUME NEW q \in Proposals, Claim(w, q) PROVE FALSE
      BY <1>0, <2>1 DEF Claim, LeaseRow, Claimable, Waiting
    <2>2. CASE Succeed(w) \/ Fail(w) \/ MarkUnknown(w) \/ ScheduleRetry(w) \/ DeadLetter(w)
      BY <1>0, <2>2 DEF Succeed, Fail, MarkUnknown, ScheduleRetry, DeadLetter, Release, Reports, HoldsLease
    <2> QED BY <1>3, <2>1, <2>2 DEF WorkerStep, StartCycle, TakeSnapshot, NothingToClaim, RefuseToRun, StartTool,
               ToolReturns, ToolRejects, CheckFails, ToolThrows, SucceedThrows, LeaseLost, Crash
  <1>4. ASSUME NEW q \in Proposals, NEW request \in Requests, NEW action \in ControlAction,
               ControlToolJob(q, request, action)
        PROVE  \E r \in resolutions' \ resolutions :
                   r.job = p /\ r.from = job[p].status /\ r.to = job'[p].status
    <2>1. p = q
      BY <1>0, <1>4 DEF ControlToolJob
    <2> DEFINE r == [job |-> p, request |-> request, action |-> action, from |-> job[p].status,
                     to |-> Transition(job[p].status, action), issued |-> issued]
    <2>2. r \in resolutions' /\ r \notin resolutions
      BY <1>4, <2>1 DEF ControlToolJob
    <2>3. job'[p].status = Transition(job[p].status, action)
      BY <1>0, <1>4, <2>1 DEF ControlToolJob, Decided
    <2> QED BY <2>2, <2>3
  <1> QED BY <1>1, <1>2, <1>3, <1>4 DEF Next, Withdraw, Approve, ToolLands, ToolIsLost, vars

(* No worker, however late, and no confirmation reopens a settled job. *)
THEOREM OnlyOperatorsReopen == Spec => OnlyOperatorReopens
  BY Inductive, StepReopen, PTL DEF Spec, OnlyOperatorReopens

-----------------------------------------------------------------------------
(* The job table implements the abstract work queue *)

LeaseStates == [p \in Proposals |-> QueueState(p)]
LeaseHolders == [p \in Proposals |-> job[p].token]

(* What a step that rewrites the row of p alone does to the abstract queue. *)
LEMMA RowMoves ==
    ASSUME NEW p \in Proposals, NEW row, job \in [Proposals -> JobRow], job' = [job EXCEPT ![p] = row],
           NEW state, NEW token, QueueState(p)' = state, row.token = token
    PROVE  Queue!Move(p, state, token)
  <1>1. \A q \in Proposals \ {p} : QueueState(q)' = QueueState(q)
    BY DEF QueueState
  <1>2. LeaseStates' = [LeaseStates EXCEPT ![p] = state]
    BY <1>1 DEF LeaseStates
  <1>3. LeaseHolders' = [LeaseHolders EXCEPT ![p] = token]
    BY DEF LeaseHolders
  <1> QED BY <1>2, <1>3 DEF Queue!Move, LeaseStates, LeaseHolders

(* How the status of a row reads in the abstract queue. *)
LEMMA QueueReading ==
    \A p \in Proposals :
        /\ job[p].status = "absent" => QueueState(p) = "absent"
        /\ job[p].status \in Waiting => QueueState(p) = "ready"
        /\ job[p].status = "executing" => QueueState(p) = "leased"
        /\ job[p].status \in Settled => QueueState(p) = "settled"
  BY DEF QueueState, Waiting, Settled

(* The same after a step. *)
LEMMA QueueReadingNext ==
    \A p \in Proposals :
        /\ job'[p].status \in Waiting => QueueState(p)' = "ready"
        /\ job'[p].status = "executing" => QueueState(p)' = "leased"
        /\ job'[p].status \in Settled => QueueState(p)' = "settled"
  BY DEF QueueState, Waiting, Settled

(* A row read by the abstract queue. *)
LEMMA AtRow ==
    ASSUME NEW p \in Proposals
    PROVE  LeaseStates[p] = QueueState(p) /\ LeaseHolders[p] = job[p].token
  BY DEF LeaseStates, LeaseHolders

(* Every step of the job table is a step of the abstract queue, or changes  *)
(* nothing it can see.                                                      *)
LEMMA StepQueue == Inv /\ [Next]_vars => [Queue!Next]_Queue!queueVars
  <1> SUFFICES ASSUME Inv, [Next]_vars PROVE Queue!Next \/ UNCHANGED Queue!queueVars
    BY DEF Inv
  <1>0. /\ job \in [Proposals -> JobRow] /\ worker \in [Workers -> WorkerState]
        /\ LinkedStatuses /\ LeaseInv /\ issued \in Nat
    BY DEF Inv, TypeOK
  <1>1. CASE UNCHANGED <<job, issued>>
    BY <1>1 DEF Queue!queueVars, QueueState
  <1>2. CASE Tick
    <2>1. \A p \in Proposals : job'[p].status = job[p].status /\ job'[p].token = job[p].token
      BY <1>0, <1>2 DEF Tick, Aged, JobRow
    <2>2. LeaseStates' = LeaseStates /\ LeaseHolders' = LeaseHolders
      BY <2>1 DEF LeaseStates, LeaseHolders, QueueState
    <2> QED BY <1>2, <2>2 DEF Tick, Queue!queueVars, LeaseStates, LeaseHolders
  <1>3. ASSUME NEW p \in Proposals, QueueConfirmedProposal(p) PROVE Queue!Submit(p)
    <2>1. job[p].status = "absent"
      <3>1. proposal[p] = "pending" /\ Linked(p) /\ job[p].status \in JobStatus
        BY <1>0, <1>3 DEF QueueConfirmedProposal, LinkedStatuses, JobRow
      <3> QED BY <3>1, Stories DEF Linked, JobStatus
    <2>2. PICK row : row = [NoRow(p) EXCEPT !.status = "queued"]
      OBVIOUS
    <2>3. job' = [job EXCEPT ![p] = row] /\ row.status = "queued" /\ row.token = 0
      BY <1>3, <2>2 DEF QueueConfirmedProposal, NoRow
    <2>4. QueueState(p)' = "ready"
      BY <1>0, <2>3, QueueReadingNext DEF Waiting
    <2>5. Queue!Move(p, "ready", 0)
      BY <1>0, <2>3, <2>4, RowMoves
    <2>6. QueueState(p) = "absent"
      BY <2>1, QueueReading
    <2> QED BY <1>3, <2>5, <2>6, AtRow DEF Queue!Submit, LeaseStates, QueueConfirmedProposal
  <1>4. ASSUME NEW w \in Workers, NEW p \in Proposals, Claim(w, p) PROVE Queue!Lease(p)
    <2>1. QueueState(p) \in {"ready", "leased"}
      BY <1>4, QueueReading DEF Claim, LeaseRow, Claimable
    <2>2. PICK row : row = Leased(job[p], worker[w].age)
      OBVIOUS
    <2>3. job' = [job EXCEPT ![p] = row] /\ issued' = issued + 1
      BY <1>4, <2>2 DEF Claim, LeaseRow
    <2>7. PICK token : token = issued + 1
      OBVIOUS
    <2>4. row.status = "executing" /\ row.token = token
      BY <2>2, <2>7 DEF Leased
    <2>5. QueueState(p)' = "leased"
      BY <1>0, <2>3, <2>4, QueueReadingNext
    <2>6. Queue!Move(p, "leased", token)
      BY <1>0, <2>3, <2>4, <2>5, RowMoves
    <2> QED BY <2>1, <2>3, <2>7, <2>6, AtRow DEF Queue!Lease, Queue!Move, LeaseStates
  <1>5. ASSUME NEW w \in Workers,
               Succeed(w) \/ Fail(w) \/ MarkUnknown(w) \/ ScheduleRetry(w) \/ DeadLetter(w)
        PROVE  \E p \in Proposals : Queue!Settle(p) \/ Queue!PutBack(p)
    <2>1. Busy(w) /\ job[worker[w].job].status = "executing" /\ issued' = issued
      BY <1>5 DEF Succeed, Fail, MarkUnknown, ScheduleRetry, DeadLetter, Reports, HoldsLease, Busy
    <2>2. PICK p \in Proposals : p = worker[w].job
      BY <1>0, <2>1 DEF LeaseInv
    <2>3. QueueState(p) = "leased"
      BY <2>1, <2>2, QueueReading
    <2>4. PICK status \in Settled \cup {"retry_scheduled"}, wait \in {RetryTicks, job[p].wait} :
                  job' = [job EXCEPT ![p] = Released(job[p], status, wait)]
      BY <1>5, <2>2 DEF Succeed, Fail, MarkUnknown, ScheduleRetry, DeadLetter, Release, Settled
    <2>5. PICK row : row = Released(job[p], status, wait)
      OBVIOUS
    <2>6. job' = [job EXCEPT ![p] = row] /\ row.token = 0 /\ row.status = status
      BY <2>4, <2>5 DEF Released
    <2>7. CASE status \in Settled
      <3>1. QueueState(p)' = "settled"
        BY <1>0, <2>6, <2>7, QueueReadingNext
      <3>2. Queue!Move(p, "settled", 0)
        BY <1>0, <2>6, <3>1, RowMoves
      <3> QED BY <2>1, <2>3, <3>2, AtRow DEF Queue!Settle, LeaseStates
    <2>8. CASE status = "retry_scheduled"
      <3>1. QueueState(p)' = "ready"
        BY <1>0, <2>6, <2>8, QueueReadingNext DEF Waiting
      <3>2. Queue!Move(p, "ready", 0)
        BY <1>0, <2>6, <3>1, RowMoves
      <3> QED BY <2>1, <2>3, <3>2, AtRow DEF Queue!PutBack, LeaseStates
    <2> QED BY <2>7, <2>8
  <1>6. ASSUME NEW p \in Proposals, NEW request \in Requests, NEW action \in ControlAction,
               ControlToolJob(p, request, action)
        PROVE  Queue!Next \/ UNCHANGED Queue!queueVars
    <2> DEFINE next == Transition(job[p].status, action)
    <2>1. PICK row : row = Decided(job[p], next, action = "retry")
      OBVIOUS
    <2>2. job' = [job EXCEPT ![p] = row] /\ issued' = issued
      BY <1>6, <2>1 DEF ControlToolJob
    <2>3. /\ job[p].status \in {"queued", "retry_scheduled", "unknown", "dead_letter", "failed"}
          /\ job[p].token = 0
      BY <1>0, <1>6, TransitionDomain DEF ControlToolJob, LeaseInv
    <2>4. row.token = 0 /\ row.status = next
      BY <2>1, <2>3 DEF Decided
    <2>5. \/ job[p].status \in Waiting /\ next \in Settled
          \/ job[p].status \in Settled /\ next = "queued"
          \/ job[p].status \in Settled /\ next \in Settled
      BY <1>6 DEF ControlToolJob, Transition, Waiting, Settled
    <2>6. CASE job[p].status \in Waiting /\ next \in Settled
      <3>1. QueueState(p) = "ready" /\ QueueState(p)' = "settled"
        BY <1>0, <2>2, <2>4, <2>6, QueueReading, QueueReadingNext
      <3>2. Queue!Move(p, "settled", 0)
        BY <1>0, <2>2, <2>4, <3>1, RowMoves
      <3>3. Queue!Cancel(p)
        BY <2>2, <3>1, <3>2, AtRow DEF Queue!Cancel, LeaseStates
      <3> QED BY <3>3 DEF Queue!Next
    <2>7. CASE job[p].status \in Settled /\ next = "queued"
      <3>1. QueueState(p) = "settled" /\ QueueState(p)' = "ready"
        BY <1>0, <2>2, <2>4, <2>7, QueueReading, QueueReadingNext DEF Waiting
      <3>2. Queue!Move(p, "ready", 0)
        BY <1>0, <2>2, <2>4, <3>1, RowMoves
      <3>3. Queue!Reopen(p)
        BY <2>2, <3>1, <3>2, AtRow DEF Queue!Reopen, LeaseStates
      <3> QED BY <3>3 DEF Queue!Next
    <2>8. CASE job[p].status \in Settled /\ next \in Settled
      <3>1. QueueState(p) = "settled" /\ QueueState(p)' = "settled"
        BY <1>0, <2>2, <2>4, <2>8, QueueReading, QueueReadingNext
      <3>2. \A q \in Proposals : QueueState(q)' = QueueState(q) /\ job'[q].token = job[q].token
        BY <1>0, <2>2, <2>3, <2>4, <3>1 DEF QueueState
      <3> QED BY <2>2, <3>2 DEF Queue!queueVars
    <2> QED BY <2>5, <2>6, <2>7, <2>8
  <1>7. ASSUME NEW w \in Workers, WorkerStep(w) PROVE Queue!Next \/ UNCHANGED <<job, issued>>
    <2>1. CASE \E p \in Proposals : Claim(w, p)
      BY <1>4, <2>1 DEF Queue!Next
    <2>2. CASE Succeed(w) \/ Fail(w) \/ MarkUnknown(w) \/ ScheduleRetry(w) \/ DeadLetter(w)
      BY <1>5, <2>2 DEF Queue!Next
    <2> QED BY <1>7, <2>1, <2>2 DEF WorkerStep, StartCycle, TakeSnapshot, NothingToClaim, RefuseToRun, StartTool,
               ToolReturns, ToolRejects, CheckFails, ToolThrows, SucceedThrows, LeaseLost, Crash
  <1>8. ASSUME NEW p \in Proposals, Withdraw(p) \/ Approve(p) PROVE UNCHANGED <<job, issued>>
    BY <1>8 DEF Withdraw, Approve
  <1>9. CASE \E c \in calls : ToolLands(c) \/ ToolIsLost(c)
    BY <1>1, <1>9 DEF ToolLands, ToolIsLost
  <1> QED BY <1>1, <1>2, <1>3, <1>6, <1>7, <1>8, <1>9 DEF Next, vars, Queue!Next

(* The job table, its workers and its operators implement the abstract work *)
(* queue: one lease at a time, each with a new token, and a settled job     *)
(* leased again only after an operator reopened it.                         *)
THEOREM JobsAreAWorkQueue == Spec => ImplementsWorkQueue
  <1>1. Init => Queue!Init
    <2>1. SUFFICES ASSUME Init
                   PROVE  /\ LeaseStates = [p \in Proposals |-> "absent"]
                          /\ LeaseHolders = [p \in Proposals |-> 0]
                          /\ issued = 0
      BY DEF Queue!Init, LeaseStates, LeaseHolders
    <2>2. \A p \in Proposals : job[p].status = "absent" /\ job[p].token = 0
      BY <2>1 DEF Init, NoRow
    <2> QED BY <2>1, <2>2, QueueReading DEF Init, LeaseStates, LeaseHolders
  <1> QED BY <1>1, Inductive, StepQueue, PTL DEF Spec, ImplementsWorkQueue, Queue!Spec
=============================================================================
