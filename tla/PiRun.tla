------------------------------- MODULE PiRun -------------------------------
(***************************************************************************)
(* Runs of the Pi agent: the commands that start and cancel them, the      *)
(* runners that execute them, and the sandbox each execution needs.        *)
(*                                                                         *)
(* A run is created with one start command; cancel and interrupt add       *)
(* commands of their own.  A runner polls for commands, leases one and     *)
(* works on it detached, so one runner has several tasks at a time.  Every *)
(* write of a run's status or of a command is conditional on the lease.    *)
(* Writes of the session's status are not.                                 *)
(*                                                                         *)
(* A step is one transaction or one call of the sandbox provider, with the *)
(* local code around it.  Command r of a run r is its start command.  The  *)
(* lease token is fresh at every claim, as is the number of attempts,      *)
(* which stands for it here.  All runs are of one session.                 *)
(***************************************************************************)
EXTENDS Naturals, FiniteSets

CONSTANTS
    Runs,           \* runs, and their start commands
    Cancels,        \* cancel and interrupt commands
    Runners,
    MaxAttempts,    \* max_attempts of a command
    Concurrency,    \* maxTenantConcurrency
    MaxClaims,      \* bound: claims of one command
    MaxFaults       \* bound: shutdowns, crashes, pauses and failed calls, together

Commands == Runs \cup Cancels
Tokens == 1 .. MaxClaims

ASSUME SizeAssumption == {MaxAttempts, Concurrency, MaxClaims} \subseteq Nat \ {0} /\ MaxFaults \in Nat
ASSUME KindAssumption == Runs \cap Cancels = {}

VARIABLES
    run,        \* pi_run_manifests.run_status
    cmd,        \* pi_run_commands
    target,     \* the run of a cancel command
    session,    \* pi_sessions.status: succeeded, ended otherwise, or open
    box,        \* sandbox_runs: one row per run at most
    vm,         \* the runs whose virtual machine may still exist at the provider
    web,        \* progress of the request that inserts a command
    poll,       \* claimRun() of each runner
    draining,   \* runners that are shutting down
    task,       \* the work on each lease
    inFlight,   \* inFlight of each runner: the last task per run
    active,     \* active of each runner: the token executing each run
    boxes,      \* sandboxes of each runner: the runs it holds a handle for
    prompts,    \* history: calls of prompt() per run
    faults

rowVars == <<run, cmd, target, session>>
boxVars == <<box, vm>>
mapVars == <<inFlight, active, boxes>>
vars == <<rowVars, boxVars, web, poll, draining, task, mapVars, prompts, faults>>

\* Statuses a run may move to from each status; no code moves a run to `cancelling'.
Allowed ==
    [queued            |-> {"queued", "provisioning", "running", "awaiting_approval", "cancelled",
                            "failed", "timed_out", "unknown"},
     provisioning      |-> {"queued", "provisioning", "running", "awaiting_approval", "completed",
                            "cancelled", "failed", "timed_out", "unknown"},
     running           |-> {"queued", "running", "awaiting_approval", "completed", "cancelled",
                            "failed", "timed_out", "unknown"},
     awaiting_approval |-> {"running", "awaiting_approval", "cancelled", "unknown"},
     completed |-> {"completed"}, failed |-> {"failed"}, cancelled |-> {"cancelled"},
     timed_out |-> {"timed_out"}, unknown |-> {"unknown"}]

RunStatus == DOMAIN Allowed
Ended == {"completed", "failed", "cancelled", "timed_out", "unknown"}
Open == {"accepted", "queued", "leased"}
Settled == {"acknowledged", "cancelled", "unknown", "dead_lettered"}
CmdStatus == {"none"} \cup Open \cup Settled

\* Statuses a sandbox record may move to (sandbox-run-store.ts).
BoxAllowed ==
    [none |-> {}, provisioning |-> {"running", "terminating", "failed", "unknown"},
     running |-> {"terminating", "failed", "unknown"},
     failed |-> {"terminating", "destroyed", "unknown"}, destroyed |-> {},
     unknown |-> {"terminating", "destroyed"}]

BoxMay(from, to) == from = to \/ to \in BoxAllowed[from]

\* Reasons to abort a task, the one that decides its outcome last.
Rank == [none |-> 0, abort |-> 1, cancel |-> 2, timeout |-> 3, lost |-> 4]
Raise(old, new) == IF Rank[old] < Rank[new] THEN new ELSE old

RunOf(c) == IF c \in Runs THEN c ELSE target[c]
NoTask == [pc |-> "none", at |-> "none", kind |-> "run", cause |-> "none",
           badEvent |-> FALSE, started |-> FALSE, error |-> "none", report |-> [run |-> "none", session |-> "none", cmd |-> "none"]]
NoWork == [cmd |-> "none", token |-> 0]
Work(c, k) == [cmd |-> c, token |-> k]
NoPoll == [step |-> "idle"]

Init ==
    /\ run = [r \in Runs |-> "none"]
    /\ cmd = [c \in Commands |-> [status |-> "none", attempts |-> 0, live |-> FALSE]]
    /\ target \in [Cancels -> Runs]
    /\ session = "open"
    /\ box = [r \in Runs |-> [status |-> "none", handle |-> FALSE]]
    /\ vm = {}
    /\ web = [c \in Commands |-> "idle"]
    /\ poll = [w \in Runners |-> NoPoll]
    /\ draining = {}
    /\ task = [c \in Commands |-> [k \in Tokens |-> NoTask]]
    /\ inFlight = [w \in Runners |-> [r \in Runs |-> NoWork]]
    /\ active = [w \in Runners |-> [r \in Runs |-> 0]]
    /\ boxes = [w \in Runners |-> {}]
    /\ prompts = [r \in Runs |-> 0]
    /\ faults = 0

Fault == faults < MaxFaults /\ faults' = faults + 1
MayFail(ok) == IF ok THEN UNCHANGED faults ELSE Fault

----------------------------------------------------------------------------
(* The web service.                                                        *)

\* enqueueRun: the manifest and its command in one transaction ...
SendMessage(r) ==
    /\ web[r] = "idle"
    /\ run' = [run EXCEPT ![r] = "queued"]
    /\ cmd' = [cmd EXCEPT ![r].status = "accepted"]
    /\ web' = [web EXCEPT ![r] = "writing"]
    /\ UNCHANGED <<target, session, boxVars, poll, draining, task, mapVars, prompts, faults>>

\* cancelRun and interrupt look for an open start command ...
AskCancel(c) ==
    /\ web[c] = "idle"
    /\ cmd[target[c]].status \in Open
    /\ web' = [web EXCEPT ![c] = "found"]
    /\ UNCHANGED <<rowVars, boxVars, poll, draining, task, mapVars, prompts, faults>>

\* ... and insert a command for its run in another transaction ...
RequestCancel(c) ==
    /\ web[c] = "found"
    /\ cmd' = [cmd EXCEPT ![c].status = "accepted"]
    /\ web' = [web EXCEPT ![c] = "writing"]
    /\ UNCHANGED <<run, target, session, boxVars, poll, draining, task, mapVars, prompts, faults>>

\* ... and each writes the session, as queued or cancelling, in a last one.
WriteSession(c) ==
    /\ web[c] = "writing"
    /\ session' = "open"
    /\ web' = [web EXCEPT ![c] = "done"]
    /\ UNCHANGED <<run, cmd, target, boxVars, poll, draining, task, mapVars, prompts, faults>>

----------------------------------------------------------------------------
(* Leases.                                                                 *)

Live(c) == cmd[c].status = "leased" /\ cmd[c].live
Holds(c, k) == Live(c) /\ cmd[c].attempts = k

\* updateRunStatusForLease changes the run, or nothing and returns false.
CanMove(c, k, status) == Holds(c, k) /\ status \in Allowed[run[RunOf(c)]]
Move(c, status) == run' = [run EXCEPT ![RunOf(c)] = status]

(* Slip: the lease of a process that is gone is never looked at again. *)
ClaimableWhenWaiting(c) == cmd[c].status \in {"accepted", "queued"} /\ cmd[c].attempts < MaxClaims

Claimable(c) ==
    /\ cmd[c].status \in {"accepted", "queued"} \/ (cmd[c].status = "leased" /\ ~cmd[c].live)
    /\ cmd[c].attempts < MaxClaims
HasSlot == Cardinality({c \in Commands : Live(c)}) < Concurrency

\* claim counts the live leases in its snapshot, and waits for the lock of the tenant.
StartClaim(w) ==
    /\ poll[w].step = "idle" /\ w \notin draining
    /\ poll' = [poll EXCEPT ![w] = [step |-> "claiming", slot |-> HasSlot]]
    /\ UNCHANGED <<rowVars, boxVars, web, draining, task, mapVars, prompts, faults>>

ClaimRow(w, c) ==
    /\ poll[w].step = "claiming"
    /\ Claimable(c)
    /\ c \in Cancels \/ poll[w].slot
    /\ cmd' = [cmd EXCEPT ![c] = [status |-> "leased", attempts |-> @.attempts + 1, live |-> TRUE]]
    /\ poll' = [poll EXCEPT ![w] = [step |-> "claimed", cmd |-> c, token |-> cmd[c].attempts + 1,
                                    reclaimed |-> cmd[c].status = "leased"]]
    /\ UNCHANGED <<run, target, session, boxVars, web, draining, task, mapVars, prompts, faults>>

NothingToClaim(w) ==
    /\ poll[w].step = "claiming"
    /\ ~\E c \in Commands : Claimable(c) /\ (c \in Cancels \/ poll[w].slot)
    /\ poll' = [poll EXCEPT ![w] = NoPoll]
    /\ UNCHANGED <<rowVars, boxVars, web, draining, task, mapVars, prompts, faults>>

\* claimRun returns a lease, which processTenantDetached starts to work on ...
Track(w) ==
    /\ poll[w].step = "claimed" /\ w \notin draining
    /\ LET c == poll[w].cmd  k == poll[w].token IN
        /\ task' = [task EXCEPT ![c][k] =
               [NoTask EXCEPT !.pc = "leased", !.at = w,
                    !.kind = IF poll[w].reclaimed THEN "recover"
                             ELSE IF c \in Cancels THEN "cancel" ELSE "run"]]
        /\ inFlight' = [inFlight EXCEPT ![w][RunOf(c)] = Work(c, k)]
    /\ poll' = [poll EXCEPT ![w] = NoPoll]
    /\ UNCHANGED <<rowVars, boxVars, web, draining, active, boxes, prompts, faults>>

\* ... or gives back what it claimed while the drain began: release() compares the
\* expiry with the time of the poll, and leaves the attempts as they are.
GiveBack(w) ==
    /\ poll[w].step = "claimed" /\ w \in draining
    /\ \E ok \in BOOLEAN :
        /\ MayFail(ok)
        /\ LET c == poll[w].cmd  mine == cmd[c].status = "leased" /\ cmd[c].attempts = poll[w].token IN
            cmd' = IF ok /\ mine THEN [cmd EXCEPT ![c].status = "queued", ![c].live = FALSE] ELSE cmd
    /\ poll' = [poll EXCEPT ![w] = NoPoll]
    /\ UNCHANGED <<run, target, session, boxVars, web, draining, task, mapVars, prompts>>

----------------------------------------------------------------------------
(* Work on a lease.                                                        *)

Working(c, k, pc) == task[c][k].pc = pc
At(c, k) == task[c][k].at
Step(c, k, pc) == task' = [task EXCEPT ![c][k].pc = pc]

(* Slip: an entry of inFlight stays. *)
FinishUntracked(c, k) ==
    LET w == At(c, k)  r == RunOf(c)  executed == task[c][k].kind = "execute" IN
    /\ task' = [task EXCEPT ![c][k] = NoTask]
    /\ active' = IF executed THEN [active EXCEPT ![w][r] = 0] ELSE active
    /\ boxes' = IF executed THEN [boxes EXCEPT ![w] = @ \ {r}] ELSE boxes
    /\ UNCHANGED inFlight

(* Slip: a cancellation clears what it did not fill. *)
FinishForAll(c, k) ==
    LET w == At(c, k)  r == RunOf(c) IN
    /\ task' = [task EXCEPT ![c][k] = NoTask]
    /\ inFlight' = [inFlight EXCEPT ![w][r] = IF @ = Work(c, k) THEN NoWork ELSE @]
    /\ active' = [active EXCEPT ![w][r] = 0]
    /\ boxes' = [boxes EXCEPT ![w] = @ \ {r}]

\* The work returns; execute's finally clause clears the maps whoever filled them.
Finish(c, k) ==
    LET w == At(c, k)  r == RunOf(c)  executed == task[c][k].kind = "execute" IN
    /\ task' = [task EXCEPT ![c][k] = NoTask]
    /\ inFlight' = [inFlight EXCEPT ![w][r] = IF @ = Work(c, k) THEN NoWork ELSE @]
    /\ active' = IF executed THEN [active EXCEPT ![w][r] = 0] ELSE active
    /\ boxes' = IF executed THEN [boxes EXCEPT ![w] = @ \ {r}] ELSE boxes

\* What a task reports: the run's status, the session's, and the command's.
Report(status, command) ==
    [run |-> status, session |-> IF status = "queued" THEN "open" ELSE "ended", cmd |-> command]
IsUnknown == Report("unknown", "unknown")
GoesBack == Report("queued", "queued")
IsRetried == Report("failed", "queued")
IsTimedOut == Report("timed_out", "unknown")
IsCancelled == Report("cancelled", "cancelled")
IsRejected == Report("failed", "dead_lettered")
HasExpired == Report("timed_out", "dead_lettered")
OnlySettle(command) == [run |-> "none", session |-> "none", cmd |-> command]

Reporting(t, report) ==
    [t EXCEPT !.pc = IF report.run = "none" THEN "settle" ELSE "status", !.report = report]

Reports(c, k, report) == task' = [task EXCEPT ![c][k] = Reporting(@, report)]

\* The event run_leased is written only under the lease.
StartLease(c, k) ==
    /\ Working(c, k, "leased")
    /\ IF Holds(c, k)
       THEN Step(c, k, task[c][k].kind) /\ UNCHANGED mapVars
       ELSE Finish(c, k)
    /\ UNCHANGED <<rowVars, boxVars, web, poll, draining, prompts, faults>>

\* A report changes the run first ...
ReportRun(c, k) ==
    /\ Working(c, k, "status")
    /\ LET status == task[c][k].report.run IN
        IF CanMove(c, k, status)
        THEN Move(c, status) /\ Step(c, k, "settle") /\ UNCHANGED mapVars
        ELSE Finish(c, k) /\ UNCHANGED run
    /\ UNCHANGED <<cmd, target, session, boxVars, web, poll, draining, prompts, faults>>

\* ... then the session, which needs no lease, and then the command, which does:
\* acknowledge, markUnknown, or requeue, which gives up when the attempts are spent.
Settling(c, status) ==
    IF status = "queued" /\ cmd[c].attempts >= MaxAttempts THEN "dead_lettered" ELSE status

Settle(c, k) ==
    /\ Working(c, k, "settle")
    /\ cmd' = IF Holds(c, k)
              THEN [cmd EXCEPT ![c].status = Settling(c, task[c][k].report.cmd), ![c].live = FALSE]
              ELSE cmd
    /\ session' = IF task[c][k].report.run = "none" THEN session ELSE task[c][k].report.session
    /\ Finish(c, k)
    /\ UNCHANGED <<run, target, boxVars, web, poll, draining, prompts, faults>>

----------------------------------------------------------------------------
(* Sandboxes.                                                              *)

\* SandboxOrchestrator.destroy: the machine is gone and the row says so, or the row is unknown.
Destroy(r, ok) ==
    LET usable == box[r].status \notin {"destroyed", "unknown"} IN
    /\ MayFail(ok)
    /\ box' = IF usable THEN [box EXCEPT ![r].status = IF ok THEN "destroyed" ELSE "unknown"] ELSE box
    /\ vm' = IF usable /\ ok THEN vm \ {r} ELSE vm

DestroyFails(r, ok) == ~ok \/ box[r].status \in {"destroyed", "unknown"}

\* recoverRun: a sandbox without a handle cannot be destroyed.
Gone(r) == box[r].status \in {"none", "destroyed"}

RecoverBox(r, ok) ==
    /\ box' = IF Gone(r) THEN box
              ELSE [box EXCEPT ![r].status = IF ok /\ box[r].handle THEN "destroyed" ELSE "unknown"]
    /\ vm' = IF ok /\ box[r].handle THEN vm \ {r} ELSE vm

----------------------------------------------------------------------------
(* Recovery and cancellation.                                              *)

\* recoverExpiredLease, up to its report.
Occupied == {"provisioning", "running", "awaiting_approval"}

(* Slip: what was running is tried again. *)
RecoverReportAgain(r, recovered) ==
    IF run[r] \in Ended THEN OnlySettle("dead_lettered") ELSE GoesBack

RecoverReport(r, recovered) ==
    CASE run[r] \in {"running", "awaiting_approval"} -> IsUnknown
      [] run[r] = "provisioning" /\ (~recovered \/ box[r].status # "none") -> IsUnknown
      [] run[r] = "completed" -> OnlySettle("acknowledged")
      [] run[r] \in {"failed", "timed_out"} -> OnlySettle("dead_lettered")
      [] run[r] \in {"cancelled", "unknown"} -> OnlySettle(run[r])
      [] OTHER -> GoesBack

Recover(c, k) ==
    /\ Working(c, k, "recover")
    /\ LET r == RunOf(c) IN
       \E ok \in BOOLEAN :
        /\ ok \/ (run[r] \in Occupied /\ ~Gone(r) /\ box[r].handle)
        /\ MayFail(ok)
        /\ IF run[r] \in Occupied THEN RecoverBox(r, ok) ELSE UNCHANGED boxVars
        /\ Reports(c, k, RecoverReport(r, Gone(r) \/ (ok /\ box[r].handle)))
    /\ UNCHANGED <<rowVars, web, poll, draining, mapVars, prompts>>

\* processCancellation: abort the run if it is executing here ...
CancelHere(c, k) ==
    /\ Working(c, k, "cancel")
    /\ LET r == target[c]
           victim == active[At(c, k)][r]
           aborted == [task EXCEPT ![r][victim].cause = Raise(@, "abort")] IN
        /\ victim # 0
        /\ task' = [aborted EXCEPT ![c][k] = Reporting(@, OnlySettle("cancelled"))]
    /\ UNCHANGED <<rowVars, boxVars, web, poll, draining, mapVars, prompts, faults>>

\* ... else end it from outside.
CancelReport(r) ==
    CASE run[r] \in {"running", "awaiting_approval"} -> IsUnknown
      [] run[r] = "unknown" -> OnlySettle("unknown")
      [] run[r] \in Ended \ {"unknown"} -> OnlySettle("cancelled")
      [] OTHER -> IsCancelled

CancelElsewhere(c, k) ==
    /\ Working(c, k, "cancel")
    /\ active[At(c, k)][target[c]] = 0
    /\ Reports(c, k, CancelReport(target[c]))
    /\ UNCHANGED <<rowVars, boxVars, web, poll, draining, mapVars, prompts, faults>>

----------------------------------------------------------------------------
(* Execution, up to the prompt.  A step that fails goes to "failing".      *)

Fails(c, k, error) == task' = [task EXCEPT ![c][k] = [@ EXCEPT !.pc = "failing", !.error = error]]
(* Slip: an abort by a command or a shutdown goes unnoticed. *)
AbortedByTimer(c, k) == task[c][k].cause \in {"cancel", "timeout", "lost"}

Aborted(c, k) == task[c][k].cause # "none"

\* A manifest that is rejected or has expired ends the run before the timers start.
Refuse(c, k) ==
    /\ Working(c, k, "run")
    /\ \E report \in {IsRejected, HasExpired} :
        Reports(c, k, report)
    /\ UNCHANGED <<rowVars, boxVars, web, poll, draining, mapVars, prompts, faults>>

Begin(c, k) ==
    /\ Working(c, k, "run")
    /\ active' = [active EXCEPT ![At(c, k)][c] = k]
    /\ task' = [task EXCEPT ![c][k] = [@ EXCEPT !.pc = "admit", !.kind = "execute"]]
    /\ UNCHANGED <<rowVars, boxVars, web, poll, draining, inFlight, boxes, prompts, faults>>

Admit(c, k) ==
    /\ Working(c, k, "admit")
    /\ CASE At(c, k) \in draining -> Fails(c, k, "draining") /\ UNCHANGED run
         [] At(c, k) \notin draining /\ CanMove(c, k, "provisioning") ->
                Move(c, "provisioning") /\ Step(c, k, "check")
         [] OTHER -> Fails(c, k, "lost") /\ UNCHANGED run
    /\ UNCHANGED <<cmd, target, session, boxVars, web, poll, draining, mapVars, prompts, faults>>

\* hasPendingCancellation looks at every command of the session.
CancelPending == \E c \in Cancels : cmd[c].status \in Open

CheckCancelled(c, k) ==
    /\ Working(c, k, "check")
    /\ session' = "open"
    /\ IF CancelPending THEN Fails(c, k, "cancelled") ELSE Step(c, k, "create")
    /\ UNCHANGED <<run, cmd, target, boxVars, web, poll, draining, mapVars, prompts, faults>>

\* A run has one sandbox row: a second insert is refused.
CreateBox(c, k) ==
    /\ Working(c, k, "create")
    /\ CASE c \in boxes[At(c, k)] -> Step(c, k, "prepare") /\ UNCHANGED box
         [] c \notin boxes[At(c, k)] /\ box[c].status = "none" ->
                Step(c, k, "boot") /\ box' = [box EXCEPT ![c].status = "provisioning"]
         [] OTHER -> Fails(c, k, "transient") /\ UNCHANGED box
    /\ UNCHANGED <<rowVars, vm, web, poll, draining, mapVars, prompts, faults>>

Boot(c, k) ==
    /\ Working(c, k, "boot")
    /\ vm' = vm \cup {c}
    /\ Step(c, k, "bind")
    /\ UNCHANGED <<rowVars, box, web, poll, draining, mapVars, prompts, faults>>

MoveBox(r, status) == box' = [box EXCEPT ![r].status = IF BoxMay(@, status) THEN status ELSE @]

BootFails(c, k) ==
    /\ Working(c, k, "boot")
    /\ MayFail(Aborted(c, k))
    /\ MoveBox(c, "unknown")
    /\ vm' \in {vm, vm \cup {c}}
    /\ Fails(c, k, IF Aborted(c, k) THEN "abort" ELSE "transient")
    /\ UNCHANGED <<rowVars, web, poll, draining, mapVars, prompts>>

\* The handle is stored before the limits are set; a row that recovery moved refuses it.
Bind(c, k) ==
    /\ Working(c, k, "bind")
    /\ box[c].status = "provisioning"
    /\ box' = [box EXCEPT ![c].handle = TRUE]
    /\ Step(c, k, "limit")
    /\ UNCHANGED <<rowVars, vm, web, poll, draining, mapVars, prompts, faults>>

Limit(c, k) ==
    /\ Working(c, k, "limit")
    /\ box[c].status = "provisioning"
    /\ box' = [box EXCEPT ![c].status = "running"]
    /\ boxes' = [boxes EXCEPT ![At(c, k)] = @ \cup {c}]
    /\ Step(c, k, "prepare")
    /\ UNCHANGED <<rowVars, vm, web, poll, draining, inFlight, active, prompts, faults>>

(* Slip: the record says failed, although nobody saw the machine go. *)
UndoUnverified(c, k) ==
    /\ task[c][k].pc \in {"bind", "limit"}
    /\ LET aborted == Aborted(c, k) /\ Working(c, k, "limit") IN
        /\ MayFail(aborted \/ box[c].status # "provisioning")
        /\ MoveBox(c, "failed")
        /\ vm' \in {vm, vm \ {c}}
        /\ Fails(c, k, IF aborted THEN "abort" ELSE "transient")
    /\ UNCHANGED <<rowVars, web, poll, draining, mapVars, prompts>>

\* createSandbox undoes what it created; only setLimits and the network policy see the abort.
Undo(c, k) ==
    /\ task[c][k].pc \in {"bind", "limit"}
    /\ LET refused == box[c].status # "provisioning"
           aborted == Aborted(c, k) /\ Working(c, k, "limit") IN
        /\ MayFail(aborted \/ refused)
        /\ \E verified \in BOOLEAN :
            /\ MoveBox(c, IF verified THEN "failed" ELSE "unknown")
            /\ vm' = IF verified THEN vm \ {c} ELSE vm
        /\ Fails(c, k, IF aborted THEN "abort" ELSE "transient")
    /\ UNCHANGED <<rowVars, web, poll, draining, mapVars, prompts>>

\* The workspace, the resources and the runtime, and the abort checks between them.
Prepare(c, k) ==
    /\ Working(c, k, "prepare")
    /\ IF Aborted(c, k) THEN Fails(c, k, "abort") ELSE Step(c, k, "enter")
    /\ UNCHANGED <<rowVars, boxVars, web, poll, draining, mapVars, prompts, faults>>

PrepareIsRefused(c, k) ==
    /\ Working(c, k, "prepare")
    /\ Fault
    /\ Fails(c, k, "permanent")
    /\ UNCHANGED <<rowVars, boxVars, web, poll, draining, mapVars, prompts>>

Enter(c, k) ==
    /\ Working(c, k, "enter")
    /\ IF CanMove(c, k, "running")
       THEN Move(c, "running") /\ Step(c, k, "start")
       ELSE Fails(c, k, "lost") /\ UNCHANGED run
    /\ UNCHANGED <<cmd, target, session, boxVars, web, poll, draining, mapVars, prompts, faults>>

StartPrompt(c, k) ==
    /\ Working(c, k, "start")
    /\ session' = "open"
    /\ LET lost == ~Holds(c, k)  prompting == ~lost /\ ~Aborted(c, k) IN
        /\ task' = [task EXCEPT ![c][k] =
               [@ EXCEPT !.started = TRUE,
                         !.pc = IF prompting THEN "prompt" ELSE "failing",
                         !.error = IF prompting THEN task[c][k].error ELSE IF lost THEN "lost" ELSE "abort"]]
        /\ prompts' = IF prompting THEN [prompts EXCEPT ![c] = @ + 1] ELSE prompts
    /\ UNCHANGED <<run, cmd, target, boxVars, web, poll, draining, mapVars, faults>>

----------------------------------------------------------------------------
(* The prompt and its end.                                                 *)

\* onApprovalRequired and onApprovalResumed; a refusal by the lease fails the tool call only.
AskApproval(c, k) ==
    /\ Working(c, k, "prompt")
    /\ CanMove(c, k, "awaiting_approval")
    /\ Move(c, "awaiting_approval")
    /\ session' = "open"
    /\ UNCHANGED <<cmd, target, boxVars, web, poll, draining, task, mapVars, prompts, faults>>

ResumeApproved(c, k) ==
    /\ Working(c, k, "prompt")
    /\ run[c] = "awaiting_approval" /\ CanMove(c, k, "running")
    /\ Move(c, "running")
    /\ session' = "open"
    /\ UNCHANGED <<cmd, target, boxVars, web, poll, draining, task, mapVars, prompts, faults>>

PromptReturns(c, k) ==
    /\ Working(c, k, "prompt")
    /\ IF task[c][k].badEvent THEN Fails(c, k, "transient") ELSE Step(c, k, "tidy")
    /\ UNCHANGED <<rowVars, boxVars, web, poll, draining, mapVars, prompts, faults>>

\* An aborted prompt may also reject, with any code.
PromptRejects(c, k) ==
    /\ Working(c, k, "prompt")
    /\ MayFail(Aborted(c, k))
    /\ \E error \in {"abort", "transient"} :
        /\ error = "abort" => Aborted(c, k)
        /\ Fails(c, k, error)
    /\ UNCHANGED <<rowVars, boxVars, web, poll, draining, mapVars, prompts>>

\* cleanupResources: nothing is left to do for a sandbox the map does not have.
CleanUp(c, k, wanted, ok) ==
    LET w == At(c, k)  needed == wanted /\ c \in boxes[w] IN
    /\ ok \/ needed
    /\ IF needed THEN Destroy(c, ok) ELSE UNCHANGED <<boxVars, faults>>

CleanUpFails(c, k, wanted, ok) == wanted /\ c \in boxes[At(c, k)] /\ DestroyFails(c, ok)

Tidy(c, k) ==
    /\ Working(c, k, "tidy")
    /\ \E ok \in BOOLEAN :
        /\ CleanUp(c, k, TRUE, ok)
        /\ IF CleanUpFails(c, k, TRUE, ok)
           THEN Fails(c, k, "cleanup") /\ UNCHANGED boxes
           ELSE Step(c, k, "complete") /\ boxes' = [boxes EXCEPT ![At(c, k)] = @ \ {c}]
    /\ UNCHANGED <<rowVars, web, poll, draining, inFlight, active, prompts>>

(* Slip: the command is acknowledged whatever became of the run. *)
CompleteAnyway(c, k) ==
    /\ Working(c, k, "complete")
    /\ session' = "succeeded"
    /\ run' = IF CanMove(c, k, "completed") THEN [run EXCEPT ![c] = "completed"] ELSE run
    /\ cmd' = IF Holds(c, k) THEN [cmd EXCEPT ![c].status = "acknowledged", ![c].live = FALSE] ELSE cmd
    /\ Finish(c, k)
    /\ UNCHANGED <<target, boxVars, web, poll, draining, prompts, faults>>

\* The session is written whether or not the lease still holds, then the run and
\* the command together, under the lease (finalizeLease).
Complete(c, k) ==
    /\ Working(c, k, "complete")
    /\ session' = "succeeded"
    /\ IF CanMove(c, k, "completed")
       THEN Move(c, "completed") /\ cmd' = [cmd EXCEPT ![c].status = "acknowledged", ![c].live = FALSE]
       ELSE UNCHANGED <<run, cmd>>
    /\ Finish(c, k)
    /\ UNCHANGED <<target, boxVars, web, poll, draining, prompts, faults>>

\* The catch clause of execute: what the first matching branch reports.
FailureReport(c, k, dirty) ==
    LET t == task[c][k] IN
    CASE t.badEvent \/ dirty \/ t.error = "cleanup" -> IsUnknown
      [] OTHER ->
    CASE t.at \in draining -> IF t.started \/ box[c].status # "none" THEN IsUnknown ELSE GoesBack
      [] t.at \notin draining /\ t.cause = "timeout" -> IsTimedOut
      [] OTHER ->
    CASE t.cause = "cancel" \/ t.error \in {"abort", "cancelled"} -> IsCancelled
      [] t.cause # "cancel" /\ t.error = "permanent" -> IsRejected
      [] OTHER -> IF t.started THEN IsUnknown ELSE IsRetried

(* Slip: a run that lost its lease leaves its sandbox to others. *)
WantedByOwner(error) == error \notin {"cleanup", "late", "lost"}

\* cleanupResources does its work once.
Wanted(error) == error \notin {"cleanup", "late"}

HandleFailure(c, k) ==
    /\ Working(c, k, "failing")
    /\ LET t == task[c][k]  wanted == Wanted(t.error) IN
       \E ok \in BOOLEAN :
        /\ CleanUp(c, k, wanted, ok)
        /\ LET dirty == CleanUpFails(c, k, wanted, ok) IN
           IF t.cause = "lost" \/ (t.error = "lost" /\ ~dirty)
            THEN Step(c, k, "leave")
            ELSE Reports(c, k, FailureReport(c, k, dirty))
        /\ boxes' = IF wanted /\ ~CleanUpFails(c, k, wanted, ok) THEN [boxes EXCEPT ![t.at] = @ \ {c}] ELSE boxes
    /\ UNCHANGED <<rowVars, web, poll, draining, inFlight, active, prompts>>

\* The finally clause, when nothing is left to report.
Leave(c, k) ==
    /\ Working(c, k, "leave")
    /\ Finish(c, k)
    /\ UNCHANGED <<rowVars, boxVars, web, poll, draining, prompts, faults>>

----------------------------------------------------------------------------
(* Timers, failed calls, processes.                                        *)

Timed == {"admit", "check", "create", "boot", "bind", "limit", "prepare", "enter", "start", "prompt",
          "tidy", "complete", "failing"}
InTry == Timed \ {"boot", "bind", "limit", "prompt", "tidy", "failing"}
Outside == {"leased", "recover", "cancel", "run", "status", "settle"}

\* The renewal: a lost lease or a pending cancellation aborts the run.
Renew(c, k) ==
    /\ task[c][k].pc \in Timed
    /\ ~Holds(c, k) \/ CancelPending
    /\ task' = [task EXCEPT ![c][k].cause = Raise(@, IF Holds(c, k) THEN "cancel" ELSE "lost")]
    /\ task' # task
    /\ UNCHANGED <<rowVars, boxVars, web, poll, draining, mapVars, prompts, faults>>

\* maxDurationMs has passed.
Timeout(c, k) ==
    /\ task[c][k].pc \in Timed
    /\ Rank[task[c][k].cause] < Rank["timeout"]
    /\ task' = [task EXCEPT ![c][k].cause = "timeout"]
    /\ UNCHANGED <<rowVars, boxVars, web, poll, draining, mapVars, prompts, faults>>

\* An event of the run cannot be stored.
EventFails(c, k) ==
    /\ task[c][k].pc \in Timed /\ ~task[c][k].badEvent
    /\ MayFail(~Holds(c, k))
    /\ task' = [task EXCEPT ![c][k] = [@ EXCEPT !.cause = Raise(task[c][k].cause, "abort"), !.badEvent = TRUE]]
    /\ UNCHANGED <<rowVars, boxVars, web, poll, draining, mapVars, prompts>>

\* A call of the database or the workspace fails, inside execute's try ...
CallFails(c, k) ==
    /\ task[c][k].pc \in InTry
    /\ Fault
    /\ Fails(c, k, IF Working(c, k, "complete") THEN "late" ELSE "transient")
    /\ UNCHANGED <<rowVars, boxVars, web, poll, draining, mapVars, prompts>>

\* ... or outside it, where the work just ends.
Throw(c, k) ==
    /\ task[c][k].pc \in Outside
    /\ Fault
    /\ Finish(c, k)
    /\ UNCHANGED <<rowVars, boxVars, web, poll, draining, prompts>>

\* A lease expires when its holder has gone, or pauses.
Held(c) ==
    \/ task[c][cmd[c].attempts].pc # "none"
    \/ \E w \in Runners : poll[w].step = "claimed" /\ poll[w].cmd = c /\ poll[w].token = cmd[c].attempts

Expire(c) ==
    /\ Live(c)
    /\ MayFail(~Held(c))
    /\ cmd' = [cmd EXCEPT ![c].live = FALSE]
    /\ UNCHANGED <<run, target, session, boxVars, web, poll, draining, task, mapVars, prompts>>

\* beginDrain aborts what is executing.
BeginDrain(w) ==
    /\ w \notin draining
    /\ Fault
    /\ draining' = draining \cup {w}
    /\ task' = [c \in Commands |-> [k \in Tokens |->
           IF c \in Runs /\ k = active[w][c]
           THEN [task[c][k] EXCEPT !.cause = Raise(@, "abort")] ELSE task[c][k]]]
    /\ UNCHANGED <<rowVars, boxVars, web, poll, mapVars, prompts>>

\* The process ends, and another takes its place.
Ends(w) ==
    /\ task' = [c \in Commands |-> [k \in Tokens |-> IF At(c, k) = w THEN NoTask ELSE task[c][k]]]
    /\ poll' = [poll EXCEPT ![w] = NoPoll]
    /\ inFlight' = [inFlight EXCEPT ![w] = [r \in Runs |-> NoWork]]
    /\ active' = [active EXCEPT ![w] = [r \in Runs |-> 0]]
    /\ boxes' = [boxes EXCEPT ![w] = {}]
    /\ draining' = draining \ {w}
    /\ UNCHANGED <<rowVars, boxVars, web, prompts>>

\* drain() waits for the work in inFlight.
Exit(w) ==
    /\ w \in draining /\ poll[w].step = "idle"
    /\ \A r \in Runs : inFlight[w][r] = NoWork
    /\ Ends(w)
    /\ UNCHANGED faults

Crash(w) == Fault /\ Ends(w)

----------------------------------------------------------------------------

WebStep(c) ==
    \/ c \in Runs /\ SendMessage(c)
    \/ c \in Cancels /\ (AskCancel(c) \/ RequestCancel(c))
    \/ WriteSession(c)

PollStep(w) ==
    \/ StartClaim(w) \/ NothingToClaim(w) \/ Track(w) \/ GiveBack(w)
    \/ \E c \in Commands : ClaimRow(w, c)

LeaseStep(c, k) ==
    \/ StartLease(c, k) \/ ReportRun(c, k) \/ Settle(c, k)
    \/ Recover(c, k)
    \/ c \in Cancels /\ (CancelHere(c, k) \/ CancelElsewhere(c, k))

RunStep(c, k) ==
    \/ Refuse(c, k) \/ Begin(c, k) \/ Admit(c, k) \/ CheckCancelled(c, k)
    \/ CreateBox(c, k) \/ Boot(c, k) \/ BootFails(c, k) \/ Bind(c, k) \/ Limit(c, k) \/ Undo(c, k)
    \/ Prepare(c, k) \/ PrepareIsRefused(c, k) \/ Enter(c, k) \/ StartPrompt(c, k)
    \/ PromptReturns(c, k) \/ PromptRejects(c, k) \/ Tidy(c, k)
    \/ Complete(c, k) \/ HandleFailure(c, k) \/ Leave(c, k)

Disturb(c, k) ==
    \/ c \in Runs /\ (Renew(c, k) \/ Timeout(c, k) \/ EventFails(c, k) \/ CallFails(c, k)
                      \/ AskApproval(c, k) \/ ResumeApproved(c, k))
    \/ Throw(c, k)

Next ==
    \/ \E c \in Commands : WebStep(c) \/ Expire(c)
    \/ \E w \in Runners : PollStep(w) \/ BeginDrain(w) \/ Exit(w) \/ Crash(w)
    \/ \E c \in Commands, k \in Tokens : LeaseStep(c, k) \/ (c \in Runs /\ RunStep(c, k)) \/ Disturb(c, k)

Spec == Init /\ [][Next]_vars

\* Loops, handlers and requests make progress and a lease nobody renews runs out.
\* A prompt need not end by itself: the timer aborts it, and an aborted prompt ends.
PromptEnds(c, k) == PromptReturns(c, k) \/ PromptRejects(c, k)

Fairness ==
    /\ \A w \in Runners : WF_vars(PollStep(w)) /\ WF_vars(Exit(w))
    /\ \A c \in Commands : WF_vars(Expire(c) /\ ~Held(c))
    /\ \A c \in Commands, k \in Tokens :
        /\ WF_vars(LeaseStep(c, k))
        /\ c \in Runs => /\ WF_vars(task[c][k].pc # "prompt" /\ RunStep(c, k))
                         /\ WF_vars(Aborted(c, k) /\ PromptEnds(c, k))
                         /\ WF_vars(Timeout(c, k))

FairSpec == Spec /\ Fairness

----------------------------------------------------------------------------
(* Properties.                                                             *)

Steps == {"none", "leave"} \cup Outside \cup Timed
Errors == {"none", "draining", "lost", "cancelled", "transient", "abort", "permanent", "cleanup", "late"}

Reported ==
    [run : RunStatus, session : {"open", "ended"}, cmd : Settled \cup {"queued"}]
    \cup [run : {"none"}, session : {"none"}, cmd : Settled]

Tasks ==
    [pc : Steps, at : Runners \cup {"none"}, kind : {"run", "execute", "recover", "cancel"},
     cause : DOMAIN Rank, badEvent : BOOLEAN, started : BOOLEAN, error : Errors,
     report : {NoTask.report} \cup Reported]

Polls ==
    {NoPoll} \cup [step : {"claiming"}, slot : BOOLEAN]
             \cup [step : {"claimed"}, cmd : Commands, token : Tokens, reclaimed : BOOLEAN]

\* The statuses, the owners and the progress of everybody are ones the code knows.
TypeOK ==
    /\ run \in [Runs -> RunStatus \cup {"none"}]
    /\ cmd \in [Commands -> [status : CmdStatus, attempts : 0 .. MaxClaims, live : BOOLEAN]]
    /\ target \in [Cancels -> Runs]
    /\ session \in {"open", "ended", "succeeded"}
    /\ box \in [Runs -> [status : DOMAIN BoxAllowed, handle : BOOLEAN]]
    /\ vm \subseteq Runs /\ draining \subseteq Runners
    /\ web \in [Commands -> {"idle", "found", "writing", "done"}]
    /\ poll \in [Runners -> Polls]
    /\ task \in [Commands -> [Tokens -> Tasks]]
    /\ inFlight \in [Runners -> [Runs -> {NoWork} \cup [cmd : Commands, token : Tokens]]]
    /\ active \in [Runners -> [Runs -> {0} \cup Tokens]]
    /\ boxes \in [Runners -> SUBSET Runs]
    /\ prompts \in [Runs -> Nat] /\ faults \in Nat

\* The lease of a cancel command ends without an answer when the command is claimed a second time.
ClaimedOnce(c) == cmd[c].attempts <= 1

\* The agent is prompted at most once for a run, whatever crashes, expires or is retried: unless two
\* things fail and a lease on a cancel command of the run ends without an answer.
PromptOnce ==
    \A r \in Runs :
        (faults <= 1 \/ \A c \in Cancels : target[c] = r => ClaimedOnce(c)) => prompts[r] <= 1

\* How a start command ended says how its run ended, though two transactions write them.
OutcomesAgree ==
    \A r \in Runs :
        /\ cmd[r].status = "acknowledged" <=> run[r] = "completed"
        /\ cmd[r].status = "cancelled" => run[r] = "cancelled"
        /\ cmd[r].status = "unknown" => run[r] \in {"unknown", "timed_out"}
        /\ cmd[r].status = "dead_lettered" => run[r] \notin Occupied \cup {"completed"}

\* A machine that exists is on record: its row does not say that it is gone.
VisibleMachine == \A r \in vm : box[r].status \in {"provisioning", "running", "unknown"}

\* As long as nothing failed, a run that completed has left no machine behind.
CompletedIsClean == \A r \in Runs : run[r] = "completed" /\ faults = 0 => r \notin vm

\* Nothing is left to do for a run, nothing failed, and its machine exists: then its row calls for an operator.
CommandsOf(r) == {c \in Commands : RunOf(c) = r}

Quiet(r) ==
    \A c \in CommandsOf(r) :
        /\ cmd[c].status \in Settled \cup {"none"}
        /\ \A k \in Tokens : task[c][k].pc = "none"
        /\ \A w \in Runners : poll[w].step = "claimed" => poll[w].cmd # c

NoLeak == \A r \in vm : Quiet(r) /\ faults = 0 => box[r].status = "unknown"

\* The machine under a prompt is there as long as the lease is.
PromptHasMachine ==
    \A r \in Runs : Live(r) /\ task[r][cmd[r].attempts].pc = "prompt" => r \in vm

\* As long as nothing failed: once a cancel command is settled its run is not prompted.
Applied(c) == cmd[c].status \in {"cancelled", "unknown"}
CancelSticks ==
    [][\A c \in Cancels : Applied(c) /\ faults = 0 => prompts'[target[c]] = prompts[target[c]]]_vars

\* Once nothing is left to do, the session says succeeded only if a run of it completed.
SessionAgrees ==
    session = "succeeded" /\ (\A r \in Runs : Quiet(r)) => \E r \in Runs : run[r] = "completed"

\* A run whose command was given up has ended.
GivenUpIsEnded == \A r \in Runs : cmd[r].status = "dead_lettered" => run[r] \in Ended

\* A command that waits for its retry belongs to a run that can still be executed.
RetryCanRun == \A r \in Runs : cmd[r].status = "queued" => run[r] # "failed"

\* A runner that shuts down ends with no work of its own left.
DrainJoins ==
    [][\A w \in Runners :
          w \in draining /\ w \notin draining' /\ faults' = faults =>
              \A c \in Commands, k \in Tokens : At(c, k) # w]_vars

\* Every command is settled in the end, and every shutdown ends.
EveryCommandSettles ==
    \A c \in Commands : cmd[c].status = "accepted" ~> cmd[c].status \in Settled

EveryDrainEnds == \A w \in Runners : w \in draining ~> w \notin draining

=============================================================================
