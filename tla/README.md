# Verification of the Nexus Office Agent

TLA+ models of the durable core of the platform (`src/src`), the TLC runs that check them on small
instances, and TLAPS proofs about the most important of them for every instance.

The platform receives events and messages from office platforms (WeCom, DingTalk, Feishu), lets an agent plan on
them, asks a human to confirm what the agent proposes, and carries confirmed proposals out. Everything
that must survive a crash is a row of a PostgreSQL table, and worker processes lease rows, act on them and
record the outcome. That is where the concurrency is, and what the first modules are about.

## 1. Inventory

Paths are relative to `src/src` unless they begin with `src/`. "Workers" are processes started by
`src/scripts/worker.ts`; any number of them may run.

| Component | State | Operations | What is hard | What makes it correct |
|---|---|---|---|---|
| Work queues (`platform/workers/postgres-work-repositories.ts`, `durable-workers.ts`) | rows of `inbox_events`, `agent_tool_jobs`, `outbox_events`: status, attempts, lease token, expiry, next attempt | claim, succeed/complete, fail, markUnknown, retry (or dead letter), publish | leases that expire under a slow worker; stale snapshots and stale `now`; a crash between effect and record | one valid lease; only its holder settles; no lost row; finite budget; a tenant's limit |
| Worker supervisor (`platform/workers/supervisor.ts`) | the abort signal, the tenant cursor of each role, the heartbeat in flight, detached work | runCycle, heartbeat, runHeartbeatLoop, run, beginDrain, drain | two loops share one promise; SIGTERM at any await | fairness over tenants; a shutdown that is announced, final and complete |
| Agent (`modules/agent`) | `agent_runs`, `agent_proposals`, `tool_calls`, `agent_tool_jobs`, `agent_job_resolutions` | createRun, confirmProposal, controlToolJob, the worker's execution | check, then await, then act; four tables that must agree; operator against worker | one job per proposal; linked statuses; nothing reopened silently |
| Webhook ingress and events (`modules/integration`, `modules/events`) | `webhook_replay_claims`, `inbox_events`, `outbox_events`, `domain_event_publications` | receive, claimInbound, appendOutbox, publish | repeated deliveries; a delivery that died half way; derived ids | acknowledged means stored; one row per event; published once |
| Connectors and identities (`modules/integration`) | registry, tokens, notification attempts, identity mappings | send, route notifications, directory sync, stream ingress | memory of one process against repeated deliveries | a message gets a reply |
| Pi agent, runs (`modules/pi-agent`) | runs, commands (start, cancel, interrupt), events, leases, sandboxes | claim, execute, renew, acknowledge, requeue, recover, drain | cancel against execution, recovery of expired leases, drain | a run has one executor; a cancelled run stops; no state is left behind |
| Pi agent, approvals (`approval-service.ts`, `approval-store.ts`) | `pi_approvals`, `pi_approval_decisions` | createProposal, recordDecision, cancel, expire, resumeToolCall | a service that reads, awaits and writes; keys that clients choose; facts that change under a pending approval | enough different people; decided once; a wait that ends |
| Pi agent, change delivery (`change-delivery-service.ts`, `change-delivery-worker.ts`) | `pi_change_submissions`, `pi_pull_requests`, `pi_merge_proposals`, `pi_release_proposals`, `pi_delivery_outbox` | submitChange, createPullRequest, proposeMerge, proposeRelease, dispatchOutbox | entity and outbox row in two transactions; a call to a forge whose answer is lost; a permit older than the act | one call for a row, under a grant; nothing recorded that the forge did not say |
| Tasks (`modules/task-command`) | `work_packages`, `work_task_handoffs`, missions, templates | publish, claim, transition, update a template, hand off, respond | optimistic versions over several transactions; a handoff against work on its task | one responsible person at any time; handoffs form a chain |
| Workspace supervisor (`modules/pi-agent/workspace-supervisor`, `src/scripts/pi-workspace-supervisor.ts`) | maps of credential leases, checkouts, artifacts and grants in memory; a row per tenant in `pi_workspace_supervisor_states`; checkouts on disk | issue, revoke, prepare, use, cleanup, put, delete, grant, download; load, save, renew, release | memory that is ahead of the row; overlapping requests and queued writes; two processes over one row; shutdown | what is acknowledged survives the process; what is withdrawn does not come back |
| MicroVM supervisor (`modules/pi-agent/supervisor`, `src/scripts/pi-sandbox-supervisor.ts`) | handles of its machines in memory; a directory, sockets, a cgroup, a process and `runtime.json` of each on the host; a binding file for each | create, adopt, terminate, destroy, status, guest operations | a creation that fails at any of its calls; processes that outlive the supervisor; overlapping destructions | destroyed means gone; nothing is left that nobody can name |
| Workflow, collaboration | drafts, approvals, work items | create, apply, approve, escalate | optimistic versions, timers | no lost update |
| Management loop, management and enterprise intelligence | snapshots, measures, plans | compute, present | none of their own | |
| Enterprise governance, agent development, agent memory | policies, versions, records | CRUD with a few transitions | version checks | |
| Organisation, strategy, talent, delivery, knowledge | business entities | CRUD | none of their own | |
| Identity, authorisation, audit, client platform, bootstrap | sessions, roles, devices | request handlers | revocation between check and use | |
| Platform infrastructure | database transactions, configuration, telemetry, secrets | | | |
| Web application (`src/app`), scripts | | thin handlers over the modules | | |

How they interact. A webhook request goes through `webhook-ingress.ts`, which claims the delivery, stores an
inbox row and answers. An inbox worker turns the row into an outbox row (a domain event) or into an agent
run and a reply (a message). The agent run may end with a proposal; the user's confirmation, over HTTP or a
card action, queues a tool job; an agent worker leases and runs it. The outbox dispatcher publishes domain
events. All worker roles of a process are polled by one supervisor; a Pi runner is one of those roles and
detaches its work from the polling loop. A protected tool call of a Pi run, and every step of a change towards the forge, waits for an
approval that people decide through the same application. Everything else meets in the database. Transactions are READ
COMMITTED (`platform/database/postgres.ts:26-29`).

`PROJECT.json` lists every component with its files, and every hazard at the line where it bites.

## 2. The modules

    WorkQueue          what any durable queue promises (abstract)
      ^ implemented by
    AgentJobs          confirmed proposals and their tool jobs     MCAgentJobs, AgentJobs_proofs
    InboxOutbox        ingress, inbox, agent run, reply, outbox    MCInboxOutbox, InboxOutbox_proofs
    PiDelivery         changes on their way to the forge           MCPiDelivery, PiDelivery_proofs
                       (its approvals behave as ApprovalLifecycle says)

    WorkerSupervisor   one worker process                          MCWorkerSupervisor, WorkerSupervisor_proofs
    PiRun              runs of the Pi agent, runners, sandboxes    MCPiRun, PiRun_proofs

    PiWorkspaces       the workspace supervisor and its rows       MCPiWorkspaces, PiSupervisors_proofs
    PiMachines         the microVM supervisor and its host         PiSupervisors_proofs

    ApprovalLifecycle  what anybody may rely on about an approval (abstract)
      ^ implemented by
    PiApproval         proposals, decisions and permits            MCPiApproval, PiApproval_proofs

    TaskCustody        who answers for a task (abstract)
      ^ implemented by
    TaskCommands       packages, templates and handoffs            MCTaskCommands, TaskCommands_proofs

One action is one transaction, or, where a snapshot or an await separates two parts of a statement or
handler, one part. Timestamps are distances from the present (`left`, `wait`, `age`): `Tick` moves them all
and stops at `-Horizon`, the oldest time that is told apart. SQL's `FOR UPDATE SKIP LOCKED` may pass over any row, so a
claim takes any claimable row. Operators that carry the comment "Slip:" are not part of a specification:
each is one definition with a plausible mistake in it, used to confirm that a property would notice it.
Every module states a `TypeOK`. It holds in every run (add `INVARIANT TypeOK` to a configuration), and
is proved. The proofs of the two supervisors are one module, so `PiWorkspaces` uses no name of `PiMachines`: its type
invariant is `WsTypeOK`, its specification `WsSpec`.

### AgentJobs

| Model | Code |
|---|---|
| `job` | `agent_tool_jobs`: `status`, `attempts`, `max_attempts`, `lease_token`, `lease_expires_at` (`left`), `next_attempt_at` (`wait`) |
| `call`, `proposal`, `run` | the status columns of `tool_calls`, `agent_proposals`, `agent_runs` |
| `approved` | proposals with a `confirmProposal` between its checks and `queueConfirmedProposal`; any number of them, coming as late as they like |
| `withdrawn` | the actor lost the permission, or tool, policy or object version changed: every check of the basis fails from then on |
| `worker[w]` | where `AgentExecutionWorker.processTenant` is; the job and token it claimed; how old its `now` is; what its claim's snapshot found |
| `calls` | executions of the tool: flying, landed (effect took place) or gone (never will) |
| `resolutions` | `agent_job_resolutions` |

`Approve` and `QueueConfirmedProposal` are `AgentOrchestrator.confirmProposal`; the compare-and-set on
`pending` decides a race, and a confirmation that loses it changes nothing. `StartCycle`, `TakeSnapshot`, `NothingToClaim` and `Claim` are one claim: `now` is
taken when the supervisor's cycle starts; the claim's single statement counts live leases and looks for
candidates in the snapshot it begins with, then waits for the tenant's row, and PostgreSQL re-checks only the
candidate row it locks. `RefuseToRun`, `CheckFails`, `StartTool`, `ToolReturns`, `ToolRejects`, `ToolThrows` are the execution; `ToolLands` and
`ToolIsLost` are the world's, because `withTimeout` abandons an execution without ending it. `Succeed`,
`Fail`, `MarkUnknown`, `ScheduleRetry`, `DeadLetter` and `LeaseLost` are the reports, each a compare-and-set on status and
token. `Crash` is the process dying anywhere, and a report that throws. `ControlToolJob` is the operator's
transition with its request id.

### InboxOutbox

`rows["inbox"]` and `rows["outbox"]` are the two tables; `done` stands for `processed` and `published`.
An id is an event with a receipt time, because the ingress derives the id of an event that carries none from
its receipt time. `ingress` holds the requests being handled (`Deliver`, `ClaimReplay`, `ClaimInbound`,
`Acknowledge`; a request may die at any point, `DeliveryDies`). A domain event is handled by `AppendOutbox`,
a message by `FindRun`, `InsertRun`, `FinishRun` or `RunFails` (which leaves the run failed or, if the call that fails is outside the `try`, as it was), `SendReply` or `CannotSend`. `Publish` writes receipt and row
in one transaction that a lost lease rolls back. `sent` is the platform connector's memory of what it has
sent, lost in a crash. `Senders` are the inbox workers whose connector registry can send: a parameter, since the
registry that `platform/workers/runtime.ts:59` builds cannot.

### WorkerSupervisor

`pc` says what each of the two loops awaits, `beat` the `heartbeat()` call each has made, `inFlight` is
`heartbeatInFlight`. A step runs from one await to the next. `Abort` is SIGTERM: it sets the signal and calls
`beginDrain` and `drain` of every role. `cursor` is `tenantOffsets`, `at` the position of the cycle. Whether a heartbeat is due is left open. The
tenant list is constant and not empty.

A role that detaches its work (`Detached`, the Pi runner) is modelled with the map it keeps: `tracked` are the leases whose work goes on, `entry` is its `inFlight`, keyed by run as there.
`Track` sets the entry whoever has it, `Leaves` deletes it only if it is the lease's own, and `displaced` records the work whose entry another lease took. How many leases a role gets is not limited: a cancel command is
exempt from every limit, and a reclaimed lease and its predecessor may work in one process. `drain` of such a role first waits for the aborts of what it executes, then, in `JoinInFlight`,
takes what is in the map (`joined`) and waits for that. `Waited` are roles whose `drain` waits for the tenant being processed (the change delivery worker). The Pi runner has an entry point of
its own, so no process has both kinds; the model has, and each process is a part of it.

### PiRun

Commands start and cancel runs; `c` below is a command, `k` the lease of it that a task works on, and the start command
of a run has the run's name.

| Model | Code |
|---|---|
| `run`, `cmd`, `session` | `pi_run_manifests.run_status`, `pi_run_commands` (`attempts` also stands for the lease token, both change with every claim; `live`: the lease has not expired), `pi_sessions.status` |
| `box`, `vm` | the `sandbox_runs` row of a run, and whether its machine may still exist at the provider |
| `web[c]` | the request that inserts the command: its look-up, its insert and its session update are three transactions |
| `poll[w]` | `claimRun` of runner `w`: its snapshot, then what it claimed and has not yet handed on |
| `task[c][k]` | the local state of the work on lease `k`: `pc`, whether it executes, why it was aborted, what failed and what it is about to report |
| `inFlight`, `active`, `boxes` | the maps of `PiRunnerWorker` of these names (`boxes` is `sandboxes`), keyed by run |
| `draining` | runners between SIGTERM and the end of the process |
| `prompts` | history: how often a run was prompted |

| Actions | Code |
|---|---|
| `SendMessage`, `AskCancel`, `RequestCancel`, `WriteSession` | `enqueueRun`, `cancelRun`, `interrupt` of the service |
| `StartClaim`, `ClaimRow`, `NothingToClaim`, `Track`, `GiveBack` | one poll: the claim statement, and what the scheduler does with the lease, or without it when the drain has begun |
| `StartLease`, `ReportRun`, `Settle` | the frame of every task: the first event, which needs the lease; the run's status, then the session's and the command's |
| `Recover`, `CancelHere`, `CancelElsewhere` | `recoverExpiredLease` and `processCancellation` |
| `Refuse`, `Begin` ... `StartPrompt` | `execute` up to the prompt, with `createSandbox` in four transactions and calls |
| `AskApproval`, `ResumeApproved`, `PromptReturns`, `PromptRejects`, `Tidy`, `Complete` | the prompt and the end of a good execution |
| `HandleFailure`, `FailureReport`, `Leave`, `Finish` | the catch and finally clauses |
| `Renew`, `Timeout`, `EventFails`, `CallFails`, `Throw`, `Expire` | the renewal timer, the deadline, failed calls, leases running out |
| `BeginDrain`, `Exit`, `Crash` | the end of the process; its successor has empty maps |

`Allowed` is the transition table of `run-state.ts`; `CanMove` is the check that every lease-bound write makes.
A lease runs out freely once nobody works on it; while somebody does, it is renewed, and expiry is a fault (a pause, or renewals
that fail). A shutdown, a crash, a pause and a failed call each cost one of `MaxFaults`. What follows from the
situation costs none: an aborted call fails, a row that recovery moved refuses the next write.

### PiApproval and ApprovalLifecycle

A call of the service reads an approval, awaits, and writes in a transaction that looks again at less than the call looked at first.
`calls` is the set of calls between the two.

| Model | Code |
|---|---|
| `status`, `chosen`, `bound`, `due` | `pi_approvals`: status, required approvers, the object versions and the policy it is bound to, whether `expires_at` is over |
| `facts` | the version the bound objects and the policy are at now |
| `decisions`, `told` | `pi_approval_decisions`, and the decisions whose actors were told that they are recorded |
| `permits`, `tool` | permits issued to delivery workers, and the state of the tool call that waits |
| `CreateProposal` | `createProposal`: the directory's candidates without the requester, cut to the number needed |
| `BeginDecision`, `RepeatDecision`, `CommitDecision` | `recordDecision` up to the store, a repeated key, and the store's transaction |
| `BeginCancel`, `CommitTransition` | `cancel`, and every `transition` of the store: a compare-and-set on the status |
| `Poll`, `GiveUp`, `BeginResume`, `CommitResume` | `waitForApproval` of the tool extension; `revalidate` and `resumeToolCall` |
| `Drift`, `TimeIsUp`, `Abandon` | objects or policy change; time passes; the process of a call dies |

A decision's key is looked up in the approval by the service (`Prior`) and in the whole tenant by the store (`SameKey`), by neither with its actor. That two people's keys do not meet is an
assumption on the clients, which make them up at random: `MadeFor` gives the approval and the person of each key.
`ApprovalLifecycle` is what others rely on: asked once, decided once, refused for good, lapsed but never granted again.

### PiDelivery

A change has one submission, one pull request and proposals named by their idempotency keys. `entity` holds status and version of each;
`rows` is `pi_delivery_outbox` in the order of creation; `issued` numbers the leases; `request[c]` is a user's request between two of its
transactions, `worker[w]` a dispatch between two awaits. `calls` and `reported` of a row are history: how often the forge was called for it and what it said.

| Actions | Code |
|---|---|
| `Submit`, `InsertSubmission` | `submitChange` |
| `OpenPullRequest`, `InsertPullRequest`, `QueuePullRequest`, `MarkQueued` | `createPullRequest` with its permit and `queueOutbox` |
| `Propose`, `AskForProposal`, `InsertProposal`, `QueueProposal` | `proposeMerge`, `proposeRelease`; the key of a proposal's row holds an id made up by the request, so a repeated request may queue a second row |
| `Pick`, `ReadRow`, `AskPermit`, `Activate`, `Claim`, `Call` | a cycle of the worker: the oldest row, the row read again, the permit, the activation, the lease, the forge |
| `Recover` | `dispatchOutbox` on an expired lease: the result is unknown and the forge is not asked |
| `Look`, `WriteResult`, `Complete`, `Emit` | `recordExternalResultInternal`, with its fallback to `unknown` on a conflict |
| `Decide`, `LeaseEnds`, `Crash`, `DropRequest` | people, time, a process that dies |

Approvals are `ApprovalLifecycle`, which `PiApproval` implements, with the facts that bind an approval.

### PiWorkspaces

| Model | Code |
|---|---|
| `record`, `version`, `owner`, `live` | the row of a tenant: `state`, `version`, `owner_id`, whether `owner_expires_at` is ahead; `gone` is the owner id of a process that ended and had made its id up |
| `phase[i]`, `mem[i]`, `failed[i]` | where a process is between its start and its end, the four maps of the service, `stateFailure` |
| `owned[i]`, `seen[i]` | `ownedTenants` and `versions` of the state store |
| `queue[i]`, `snap[i]`, `todo[i]` | `persistQueue`, the state that the current `save` was given, the tenants it has yet to write (or `load` to claim) |
| `job[q]` | a request between two awaits: let in by `ready`, out at Git or the object store, back, waiting for its write, writing, or taking its change back |
| `disk` | the checkouts there are |

`StartInstance`, `Load`, `Restore`, `Listen` are the start of a process, `LoadRefused` and `GiveUpStart` its failure; `Close` and `ExitInstance` the
shutdown: the service releases the rows and the script closes the database before the server stops, so requests are let in whose writes fail.
`Arrive` is `ready()`; `Touch` and `Land` change the maps and queue the write; `BeginSave`, `Save`, `EndSave`, `FailSave` are `persistState`, whose
state is taken when the write's turn comes; `ClaimLate` is `save()` on a tenant that was not loaded; `TakeBack` is the catch clause of the three operations that have
one. The state of a branch (its name and head, read from the checkout at a start) is left out, `use` stands for
`createBranch`, `checkpoint`, `diff` and `push`, and the contents of the object store are not followed: its calls succeed or fail. Renewal and release go over all rows of a process in one step.
The processes share the root directory, and a workspace has one lease.

### PiMachines

| Model | Code |
|---|---|
| `left`, `noted`, `binding` | what is on the host of each sandbox (directory, sockets, cgroup), its `runtime.json`, the binding store |
| `process`, `inside`, `killed` | the Firecracker process, whether it was put in its cgroup, whether it was sent SIGKILL |
| `held` | `FirecrackerSandboxBackend.states`, lost when the supervisor dies; its children run on |
| `req` | what each HTTP request under way is at, between two awaits |
| `vouched`, `excuse` | history: sandboxes some caller was told are destroyed, and what went wrong with each |

| Actions | Code |
|---|---|
| `Create`, `MakeDirectory` ... `Start` | `create` of the backend, one call after the other |
| `Abort`, `Reap`, `CleanUp` | its catch block; `FailCgroup` is the creation of a cgroup that fails and cannot be taken back, of which the catch block knows nothing |
| `LookForDuplicate`, `Bind`, `FailBind` | the rest of the HTTP handler; a binding that cannot be written is followed by a destruction |
| `Call`, `State`, `Adopt` | a request on a bound sandbox; `state()` and `recover()`: the handle in the map, or a process found again by `runtime.json` |
| `Stop`, `Kill`, `EndOfWait` | `terminate`, whose two polite requests are one wait |
| `ReleaseCgroup`, `RemoveDirectory`, `RemoveSockets`, `Unbind` | the rest of `destroy` and the handler that checks it; `Status` is the other caller of `verifyDestroyed` |
| `FailCreate`, `FailOther`, `Exit`, `Crash` | a call that fails, a process that exits, the supervisor's death and restart |

Any request on a sandbox other than its creation, termination, destruction and status is a "use": it gets the handle and changes nothing the supervisor keeps. `verifyDestroyed` looks at
four things one after the other and is one step here, because none of them comes back. Sandboxes share nothing but the supervisor, so the run has one.

### TaskCommands and TaskCustody

`package` is `work_packages` (mode, status, assignee, evidence, version), `handoffs` is `work_task_handoffs` by creation, `request[c]` an operation
with the row it has read. Every operation reads in one transaction, or several, and writes in a last one that compares the version:
`Claim`, `UpdateTemplate`, `Transition`, `InsertHandoff` and `Respond` are those last ones (`claimPackage`, `updateTaskTemplate`,
`transitionPackage`, `initiateTaskHandoff`, `respondToTaskHandoff`); the actions named `ReadTo...`, `ListHandoffs` and `CheckPending` come before. `RowIsLegal` is the
table's own constraints, which refuse a write. `TaskCustody` says who answers for a task: claimed once, then handed from its holder to
the one it was offered to.

### WorkQueue

An item is absent, ready, leased or settled; a lease has a token that was never used before; a settled item
comes back only through an operator, and only in queues that have one. `AgentJobs` refines it with
`Operated <- TRUE`, both tables of `InboxOutbox` and the outbox of `PiDelivery` with `Operated <- FALSE`.

## 3. The runs

| Run | Instance | Shows |
|---|---|---|
| `agent_jobs` | 1 external proposal, 2 workers, 2 attempts, 1 request id, 3 leases; 606 k states | `LinkedStatuses`, `RetryWithinBudget`, `SuccessIsReal`, `OnlyHolderSettles`, `OnlyOperatorReopens`, `ImplementsWorkQueue`, `EveryJobSettles` |
| `inbox_events` | 1 domain event, 1 inbox worker, 2 dispatchers, 2 attempts, 1 fault; 71 k states | `NothingIsLost`, `EventsGetPublished` |
| `messages` | 1 message delivered twice, 2 inbox workers, one of which can send, 1 fault; 280 k states | `HandledOnce`, `ImplementsWorkQueues`, `MessagesGetReplies` |
| `supervisor` | 2 roles (one detached, one waited for), 3 tenants (one always throws), 3 leases (two of one run), budget 1, 1 failed heartbeat, 1 failed cycle; 280 k states | `StopIsAnnounced`, `OnlyDisplacedIsLeft`, `EveryTenantGetsATurn`, `ShutdownEnds` |
| `pi_runs` | 1 run, 1 cancel, 1 runner, 3 attempts, 3 claims, 1 fault; 1.8 M states | `VisibleMachine`, `OutcomesAgree`, `PromptOnce` (here with at most one fault); without a fault `NoLeak`, `CompletedIsClean`, `CancelSticks` |
| `pi_live` | 1 run, 2 runners, 2 attempts, 4 claims, either 1 fault or 1 cancel; 242 k states | `EveryCommandSettles`, `EveryDrainEnds` |
| `approvals` | 1 approval that needs 2 of 3 people, 2 keys each, 3 calls under way, 2 changes of the facts | `ApprovedByEnough`, `AnswersAreTrue`, `ImplementsLifecycle`, `EveryWaitEnds` |
| `delivery` | 1 merge, 1 request at a time, 2 workers, 2 rows, 1 fault; 760 k states | `RowActsOnce`, `ActedOnlyIfGranted`, `OutcomesAreReal`, `ImplementsWorkQueue`, `OldestSettles` |
| `task_commands` | 1 package, 3 people, 2 operations under way (symmetric), 4 versions, 2 handoffs, 1 agent run; 1.2 M states | `ChainUnbroken`, `ImplementsCustody` |
| `workspaces` | 1 tenant, 1 lease, workspace, object and grant, 2 processes, 2 requests at a time (symmetric), 3 requests, 3 starts, 1 fault; 4.8 M states | `AcknowledgedIsKept`, `WithdrawnStaysAway` |
| `machines` | 1 sandbox, 3 requests at a time, 2 faults; 361 k states | `DestroyedIsGone`, `NothingUnowned`, `EveryDestroyEnds` |
| `agent_jobs_replay` | 1 external job of one attempt, 2 workers | counterexample to `NoBlindReplay` |

**Bounds.** `LeaseTicks = RetryTicks = Horizon = 1` is enough to distinguish a lease that is live, that
expires now, and that has expired for a worker with an old `now`: nothing compares more than one lease length
with the age of a cycle. Three leases per behaviour allow a first execution, a reclaim, and one more
that the second loser meets; with two attempts the budget is reached, exceeded and extended by an operator.
One request id allows one operator's decision at a time and its repetition; decisions of several ids, `OneHolder`, `ConcurrencyBound` (which needs two jobs) and `DrainingIsFinal`
are proved instead. Two workers allow every race over one lease. One
fault in `inbox_events` still reaches the dead letters, since slow workers' leases use attempts too. Two deliveries
allow a replay of a complete and of a dead request. Three tenants with one that throws and a budget of one make
the rotation necessary in every position. Of the three leases two are of one run, so that one can displace the other, and the third is another tenant's; the work on
any of them may throw. The supervisor checks no deadlock, since the process stops.
In the Pi runs, three claims are a first execution, a recovery, and one more lease that the losers of both
meet; the liveness run has a fourth, so that the budget of claims is not what ends a behaviour: with two
attempts a command is settled before it is spent. A runner may hold several leases of one command, because it works detached: an
old lease and its successor meet in one process, which is where they share maps; `pi_live` adds the second process. There a constraint
keeps faults and cancellations apart; both together are explored for safety in `pi_runs`.
The fault of `pi_runs` is a crash, a pause, a shutdown or a failed call at any step. Deadlock is checked: an idle runner polls for ever.
Two approvals of three people at risk level R3, with two keys each, let one person vote twice, change his mind and be outvoted; three calls let two
decisions and an expiry, or a permit, overlap; two changes of the facts come between any two reads. In `delivery` two rows are the pull
request's and a merge's; two workers race for each, and the fault is a crash, a slow worker, a dropped request or a lost event. The safety properties were also
checked by hand with two requests at a time and three rows, and with a release in place of the merge (10 M states). Four versions of a package are a
publication, a claim, a handoff and a transition, in any order that the operations allow; two handoffs are a chain of two or a fork. In `workspaces` three requests are an item that is stored, one that is withdrawn, and one more beside either; three
starts are a first process, a successor while the first still runs, and a return of the first, with the owner id it had (`Named`); a fault is a crash or a failed call. A behaviour is
about checkouts or about artifacts, which meet only in the row they are written to. In `machines` three requests are a creation or a use, and two destructions of what it made; two faults are a failure and one more while it is dealt with, or the death of the supervisor on either side of one; the limits of a cgroup that fail together with its removal are two.
These five runs check no deadlock: people
and callers may stop, and the bounds end a behaviour.

**Fairness.** Time passes and a process takes the steps that are its own: it starts a cycle again
after each one (the loop of `supervisor.ts`, or a restart after a crash), and what it has begun ends, a tool call by its
time-out at the latest. Polling and claiming are strongly fair because they compete with crashes and
with other workers; no fairness is assumed for crashes, errors, deliveries, operators, the signal, or the effect of a tool.
In the supervisor an abort settles, and so does `drain()`'s first wait.
For Pi runners: polling, the steps of a task off the prompt, the exit of a drained process, and the expiry of leases nobody works on
are weakly fair. A prompt need not end by itself; the deadline's timer comes, and an aborted prompt ends: an abort
calls `session.abort()` (`runner.ts:349`), which is the runtime's promise to settle it. Crashes, pauses and cancellations are never assumed.
For approvals: time passes, a waiting tool call polls every 250 ms (`enterprise-policy-extension.ts`), and the database answers; nobody need decide. For
delivery: the supervisor repeats the worker's cycle, and leases run out; people, requests and faults are free.
For the microVM supervisor: what a request is at goes on, because every wait of `terminate` and of the catch block has a timer, and a process that was sent SIGKILL exits; no other exit is assumed, and no request.
In `AgentJobs` and `InboxOutbox`, a liveness property is released once the leases of the exploration (`MaxClaims`) are used up, and with
3 leases the interesting part comes before that.

## 4. Where the code departs from its documents

One departure has a run of its own, `agent_jobs_replay`: `NoBlindReplay` (DR-008, an external execution with an unknown outcome is never
replayed blindly). A job whose worker dies, or overstays its lease, is claimed again whatever its budget, and its external tool is started a second
time although nobody knows what became of the first execution. `PROJECT.json` quotes the lines.

The modules state more properties the documents, comments and tests suggest and the code does not
have. Adding one of them to the named configuration shows its counterexample (with the constants of the configuration unless others are given):

| Property | Configuration | What happens |
|---|---|---|
| `TenantLimit` (DR-014) | `AgentJobs.cfg` with `Proposals` of two | A claim counts live leases in a snapshot older than its lock, so two workers may both take the last slot. The excess is bounded and the bound is proved: `ConcurrencyBound`. |
| `BudgetKept` (DR-004) | `AgentJobs_replay.cfg` | Attempts are compared with the budget only when an error is reported: a job that kills its worker is claimed again and again. |
| `DoneMeansHandled` (docs/16:127, section 5.1) | `InboxOutbox_messages.cfg` | A message whose run failed or was interrupted is handled again: `createRun` finds the old run, the user gets the fallback text and the row is marked processed. |
| `ReplyIsSent` (`wecom-agent-message.test.ts:64`) | `InboxOutbox_messages.cfg` with `Senders = {}` | The registry built by the worker runtime has only stub connectors, whose send fails: every message ends in the dead letters. |
| `CompletedIsClean` (`pi-runner-vibe-coding.test.ts:300`) | `PiRun.cfg` | Without its condition `faults = 0`: once something may fail, a late task erases its successor's entry in `sandboxes`; the successor then finds nothing to clean up and completes. |
| `RetryCanRun` (DR-004, docs/16:26) | `PiRun.cfg` | A retryable failure sets the run to `failed`, from which nothing may follow, and requeues its command: the retries find a run they may not touch. |
| `NoLeak` (`sandbox-orchestrator.ts:138`) | `PiRun.cfg` | Without its condition `faults = 0`: a cancel command handled just before the execution registers itself ends the run from outside; the execution goes on, creates a machine and dies. Recovery reads `cancelled`, for which it recovers no sandbox. |
| `PromptOnce` (docs/23:84, DR-008) | `PiRun.cfg` with `MaxFaults = 2` | Without its condition: a pause expires the lease of a *cancel* command, whose recovery has read `provisioning` or less and sets the run back to `queued` (`runner.ts:267`) while it executes; a second pause lets the start command be claimed again, and it is prompted a second time. |
| `PromptHasMachine` (`sandbox-orchestrator.ts:179`) | `PiRun.cfg` | An expired lease of a *cancel* command sends recovery to the sandbox of a run that is being prompted under a live lease. |
| `SessionAgrees` (`pi-run-control.test.ts:284`) | `PiRun.cfg` | `updateSession` takes no lease: a late runner writes `succeeded` over a recovery's `unknown`. |
| `NothingLeftRunning` (DR-013, docs/16-durable-runtime.md:35; `runner.ts:197`) | `WorkerSupervisor.cfg` | The map of detached work has one entry per run (`runner.ts:212`): work whose entry a second lease of the run took is not waited for, and goes on when `run()` has returned and the database is closed. `OnlyDisplacedIsLeft` excepts it and nothing else. |
| `DrainJoins` (`runner.ts:197`) | `PiRun.cfg` | The same within the runner: a cancel command's work displaces the run's, and `drain()` does not wait for the latter. |
| `GivenUpIsEnded` (docs/23:84) | `PiRun.cfg` with `MaxClaims = 4`, `MaxFaults = 2` | Recovery sets the run to `queued`; `requeue` finds the attempts spent and dead-letters the command: the run is queued for ever. |
| `FailedBeforeActing` (`change-delivery-worker.ts:79-80`) | `PiDelivery.cfg` | A cycle may fail after the forge was called: its result meets a conflict twice. |
| `ReportIsKept` | `PiDelivery.cfg` | With nothing lost, a request that marks the submission queued moves a version the worker has read; what the forge said becomes `unknown`. |
| `RowAndEntityAgree` | `PiDelivery.cfg` | The entity is written first, then the row; between the two the lease may end, and the row becomes `unknown`. |
| `ProposalActedOnce` (`pi-change-delivery.test.ts:127`, `:154`) | `PiDelivery.cfg`, `Callers = {c1, c2}`, `MaxRows = 3` | Two requests with one key find one proposal, but each queues a row under an id of its own: the forge is asked twice. |
| `EveryPullRequestLeaves` (PROPERTY) | `PiDelivery.cfg`, `Merges = {}` | A request that dies between inserting the pull request and its row leaves it `pending`; the request repeated finds the pull request and only looks for the row. |
| `EveryApprovedSettles` (PROPERTY) | `PiDelivery.cfg`, `Releases = {r}`, `MaxRows = 3`, `MaxFaults = 0` | A worker always takes the oldest open row: one that waits for a refused approval keeps every younger one waiting. |
| `PendingIsFrozen` (docs/18-work-command-center.md:43, :136) | `TaskCommands.cfg` | A transition looks for a pending handoff, then writes; a handoff inserted in between has a stale snapshot. It can neither be accepted nor rejected, and as long as it is pending the task cannot move. |
| `TemplatesRest` (docs/18:11) | `TaskCommands.cfg` | A template is a package like any other: it may be claimed and worked on. |
| `ClaimedIsSomebodys` | `TaskCommands.cfg` | The publisher's own transition from published to claimed leaves the package without an assignee. |

The code also has these habits, which no document contradicts and the models have as they are.
`hasPendingCancellation` looks at the whole session, so cancelling one run aborts another. With a second runner, or a crash between,
a settled cancel command does not keep its run from being prompted (`CancelSticks` is checked and proved for one runner, and speaks of behaviours without faults).
A refused approval leaves the run `awaiting_approval`, from which it may not complete, while the session says it succeeded. A
lease given back in a drain is `queued`, so nobody sees that it was a reclaimed one; the run's own status then stops
the execution, which is what keeps a run that was prompted from being prompted again as long as one thing fails. The statuses `cancelling` and `cancel_requested` are never written. docs/16:156 says long tasks renew
their lease, and no worker of the three queues calls renew; docs/16:161 stops the heartbeat last, and the
heartbeat loop stops at the signal. An event is appended after a
separate check that the lease is active (`runner.ts:793`), with the usual window between the two.

Of approvals and delivery: the store's `recordDecision` does not look at the expiry again, so a decision that was in time when read counts. `maxAttempts` of an outbox row is never enforced; `refreshMergeability` and
`recordExternalResult` have no caller in the application; the forge of a release always throws, so every release ends `unknown`; nobody expires a
pending approval of a delivery, which stays pending until somebody asks. The worker runtime's directory of approvers is the one that fails closed.

Of workspaces: the comment on the state store says that another instance "cannot silently become a last-writer" (`postgres-state-store.ts:76`). A process that loaded a
row is indeed held off by owner and version, and that is what the run shows. But a tenant that appeared after the start of a process is claimed by its first write, by `ClaimLate`, and the
state in the row, if another process had served the tenant and its lease ran out, is replaced unread; `AcknowledgedIsKept` excepts what is lost so (`forfeited`). Remove the exception and the run
shows it. `revokeCredential` answers a lease it does not find as revoked: so does a second request while the first, whose write fails, is about to put the lease back, and
so does a process that has not loaded the tenant. An object is deleted from the store before the row is written: if the process ends in between, the object is on record without its bytes, and
a `put` of it is answered without writing them. Two puts of different contents under one name both pass the look-up, and the content that stays may not be the one whose digest is recorded.
`close()` gives the rows back while requests are still let in; their writes fail, but Git and the object store have obeyed.

Of microVMs: after a destruction that went well the binding is gone, so the status of the sandbox is a 404 with the code `PI_SANDBOX_NOT_FOUND`, and the client's `verifyDestroyed` takes only the message
`PI_SANDBOX_SUPERVISOR_HTTP_404` for destroyed (`microvm-sandbox.ts:174`): it throws, and the orchestrator records `unknown`. A destruction cannot be repeated once one of its calls failed, because each insists
that its part is there; nor can one be made by a supervisor that finds the process dead, since `recover` wants it alive. `EveryDestroyEnds` excepts both (`excuse`). A supervisor that dies in the middle of a creation
leaves what it made, and nothing looks for it at the next start. When the look for a duplicate binding fails, which is outside every `try` (`http-server.ts:186`), the machine runs on without a name. A request that adopts a process
while another destroys it leaves a handle in the map. The catch block of `create` waits a second and swallows what its calls say: a cgroup whose process takes longer stays, and a cgroup whose limits could not be written and that could not be removed either (`cgroup.ts:110`) is unknown to it. `NothingUnowned` names these cases and excludes all others.

Of tasks: an agent that retries `initiateTaskHandoff` after a lost answer is refused (`WORK_HANDOFF_ALREADY_PENDING`), because the pending handoff is
looked for before the idempotent insert; a second handoff, or a second publication, of one agent run is answered with the first, whatever package it is about.

## 5. The proofs

The theorems hold for every value of the constants that satisfies the assumptions stated in the modules, which TLC evaluates in every run.

| Module | Theorem | Says |
|---|---|---|
| `AgentJobs_proofs` | `TypeCorrect` | `Spec => []TypeOK` |
| | `HoldersAreUnique` | `[]OneHolder` |
| | `StatusesStayLinked` | `[]LinkedStatuses` |
| | `RetriesAreBudgeted` | `[]RetryWithinBudget` |
| | `SuccessIsVouchedFor` | `[]SuccessIsReal` |
| | `OvershootIsBounded` | `[]ConcurrencyBound` |
| | `StaleWorkersAreHarmless` | `OnlyHolderSettles` |
| | `OnlyOperatorsReopen` | `OnlyOperatorReopens` |
| | `JobsAreAWorkQueue` | `ImplementsWorkQueue`, the refinement |
| `InboxOutbox_proofs` | `TypeCorrect` | `[]TypeOK` |
| | `AcknowledgedIsKept` | `[]NothingIsLost` |
| | `MessagesAreHandledOnce` | `[]HandledOnce` |
| | `TablesAreWorkQueues` | `ImplementsWorkQueues`, the refinement of both tables |
| `WorkerSupervisor_proofs` | `TypeCorrect` | `[]TypeOK` |
| | `StopsAreAnnounced` | `[]StopIsAnnounced` |
| | `OnlyTheDisplacedAreLeft` | `[]OnlyDisplacedIsLeft` |
| | `AnnouncementsStand` | `DrainingIsFinal`, an action property |
| `PiApproval_proofs` | `TypeCorrect` | `[]TypeOK` |
| | `GrantsAreAgreed` | `[]ApprovedByEnough` |
| | `AnswersAreOnRecord` | `[]AnswersAreTrue` |
| | `LifecycleImplemented` | `ImplementsLifecycle`, the refinement |
| `PiDelivery_proofs` | `TypeCorrect` | `[]TypeOK` |
| | `RowsActOnce` | `[]RowActsOnce` |
| | `ActionsAreGranted` | `[]ActedOnlyIfGranted` |
| | `RecordsAreReal` | `[]OutcomesAreReal` |
| | `OutboxIsAWorkQueue` | `ImplementsWorkQueue`, the refinement |
| `PiRun_proofs` | `TypeCorrect` | `[]TypeOK` |
| | `MachinesAreVisible` | `[]VisibleMachine` |
| | `OutcomesMatch` | `[]OutcomesAgree` |
| | `PromptedOnce` | `[]PromptOnce` |
| | `NothingLeaks` | `[]NoLeak` |
| | `CompletedRunsAreClean` | `[]CompletedIsClean` |
| | `CancelsStick` | `CancelSticks`, an action property, of one runner |
| `PiSupervisors_proofs` | `TypeCorrect` | `[]TypeOK` of `PiMachines` |
| | `DestructionIsReal` | `[]DestroyedIsGone` |
| | `NothingIsAbandoned` | `[]NothingUnowned` |
| | `WorkspacesTypeCorrect` | `[]WsTypeOK` of `PiWorkspaces` |
| | `WithdrawalsStand` | `[]WithdrawnStaysAway` |
| | `AcknowledgementsStand` | `[]AcknowledgedIsKept` |
| `TaskCommands_proofs` | `TypeCorrect` | `[]TypeOK`, with the constraints of the table |
| | `ResponsibilityIsAChain` | `[]ChainUnbroken` |
| | `FrozenUntilAccepted` | `AcceptedAsFrozen`, an action property |
| | `CustodyImplemented` | `ImplementsCustody`, the refinement |

**AgentJobs.** Assumed: finite sets of proposals and workers, positive budgets, leases and limits, natural delays and bounds. The inductive invariant is

    Inv == TypeOK /\ LeaseInv /\ OutcomeInv /\ LinkedStatuses /\ RetryWithinBudget /\ SuccessIsReal

`OneHolder` alone is not inductive: it needs that tokens are unique among busy workers and never larger than
the newest (`LeaseInv`), so that the token of a reclaim is one nobody has. `SuccessIsReal` needs that a worker about
to report success has a landed execution on record (`OutcomeInv`). `LinkedStatuses` is inductive, and every report
uses it. For the concurrency bound the invariant counts leases and claims together:

    SlotInv == Cardinality(LiveLeases) + Cardinality(Claimers) < TenantConcurrency + Cardinality(Workers)

where a claimer is a worker whose snapshot found a candidate. Taking a snapshot adds a claimer only if
live leases are below the limit, and then the claimers cannot exceed the workers; a claim turns a claimer into a
lease. A claim with an old `now` counts more leases as live, never fewer, so stale cycle times do no harm here.

**InboxOutbox.** Assumed: an event is a domain event or a message, a worker is of one kind, positive budgets, leases, limits and deliveries. The inductive invariant is

    EventInv == TypeOK /\ IngressFits /\ HandlingFits /\ OutboxFits /\ PlannerFits

`OneRowPerEvent` speaks of the table, but what makes it true is the claim before it: `IngressFits` says that whatever passed the replay claim carries the receipt
time claimed first, that rows exist under that time only, and that the row is there before the answer. `HandlingFits` ties a worker about to report success
to an outbox row that exists, so that an inbox row marked done (`OutboxFits`) has one. For the receipts it is enough that a row is published exactly if it says so:
whoever still holds the lease finds no receipt. `PlannerFits` needs no lease at all; the unique index on the run does it alone.

**WorkerSupervisor.** Assumed: at least one role and one tenant, a positive budget, names of roles and tenants that exist, and a lease is of a run of a detached role. The inductive invariant is

    ProcessInv == TypeOK /\ BeatsFit /\ RowsFit /\ WorkFits /\ DrainFits /\ CycleFits

`BeatsFit` says that one heartbeat is written at a time, who waits waits for that one, and the heartbeat loop is silent once the announcement is being written; `RowsFit`
follows the announcement row by row; `WorkFits` says that work in progress has the entry of its run unless it is displaced, which is the point of
deleting only one's own entry. `DrainFits` says that of a role that has taken its snapshot, all work in progress is joined or displaced, because a lease that is
claimed after the signal is given back instead of tracked. The two make `OnlyDisplacedIsLeft` inductive. `CycleFits` keeps the counters of a cycle in their range.

**PiApproval.** Assumed: finitely many actors, each approval asked for by one of them, a key made for one approval and one person, and a positive number of approvals needed. The inductive invariant is

    GrantInv == TypeOK /\ OneDecisionEach /\ NobodyDecidesHisOwn /\ RefusalsStand /\ GrantsAreDecided /\ ApprovedByEnough

The store counts rows, the property counts people: `OneDecisionEach` makes the two counts equal. The store does not look at the requester, so
`NobodyDecidesHisOwn` also speaks of the calls under way. `RefusalsStand` says that a rejection is on record only for a rejected approval, so a grant has none against it.

**PiDelivery.** Assumed: the names of entities and proposals differ. The inductive invariant `DeliveryInv` says of each row what its
status promises (`RowFits`: a row that waits was not acted on, one that was acted on was granted once, one that succeeded or failed was reported so), of each worker
what it carries (`DispatchFits`: it works on a row there is, calls only a leased row never called before, and carries no result but the reported one), that
no two workers are about to call for one row (`OneCaller`), and that proposals under way or on record presuppose an opened pull request (`RequestFits`, `EntityFits`).
`RowActsOnce` needs all of the first three: a takeover never calls, so the only caller of a row is the one whose claim found it waiting.

**TaskCommands.** Assumed: nobody is not a person and no run not a run. The inductive invariant is

    CustodyInv == TypeOK /\ VersionsBegin /\ ReadsAreOfThePast /\ ReadsFit /\ HandoffsFit /\ PendingIsLast /\ ChainUnbroken

An operation holds a row it read before others moved the package on. `ReadsAreOfThePast` makes the comparison of versions enough: a package that
still has the version that was read is the row that was read. `HandoffsFit` says the same of the snapshot in a handoff, and `PendingIsLast` that the pending
handoff is the latest, so that an acceptance extends the chain at its end.

**PiRun.** Assumed: runs and cancel commands have different names; positive numbers of attempts, claims and concurrent runs; a natural number of faults. The inductive invariant is

    IInv == TypeOK /\ IRows /\ IPolled /\ IShaped /\ IOutcome /\ IMachine /\ IOnce /\ IClean /\ VisibleMachine /\ OutcomesAgree

`IRows` and `IPolled` tie a lease to its row and to the one runner that claimed it, `IShaped` says where in the code the work on a lease can be and what it can report there. `OutcomesAgree` needs `IOutcome`:
the run is written first, so what is about to be written to the command must agree with the run already, and nobody moves an ended run in between. `VisibleMachine` needs `IMachine`: one task at
a time creates a machine, and a run without a sandbox row has neither machine nor handle nor task that could use one.
`PromptOnce` is `IOnce`, an argument in two halves. Either of them keeps a prompted run from being prompted again: `WellKept`, everybody who works on a run or is about to still holds its lease, so a second
attempt starts only after the first is over; and `Steady`, no drain has begun and no recovery of a cancel command sends the run back, so a run that was prompted never returns to a status from which a holder would be let in (`Forward`).
Without a fault both hold; the fault that breaks the one (an expiry, a shutdown) leaves the other. Two faults break both, which is the counterexample of section 4; for any number of faults `Forward` alone follows
if each cancel command of the run is claimed once at most. `NoLeak` and `CompletedIsClean` are `IClean`: as long as nothing failed, each machine has a task that is about to bind it or whose runner has it in `sandboxes`.

`CancelSticks` has a hypothesis of its own, `OneRunner`: all runners are one (with two, the runner that answers the cancel command does not see what the other executes, and the property is false).
Its invariant `ISticks` comes on top of `IInv` and speaks of states without faults. `Entered` says that the map `active` has exactly the execution under way, so that a cancel command either finds
the execution or there is none. `Course` says how far a run is that was not prompted, from the position of its work: no such run goes back to the queue, so its execution is its last.
`Withdrawn` says what an answered command, or one about to be answered, has achieved: its run was prompted before, or has ended or is about to, and whatever execution stands before the prompt is told to stop (`Doomed`).

**PiMachines.** Assumed: no sandbox is called nothing, and a natural number of faults. The inductive invariant is

    IInv == TypeOK /\ Sole /\ Known /\ Kinds /\ Built /\ Quiet /\ Caged /\ Reachable /\ DestroyedIsGone /\ NothingUnowned

`DestroyedIsGone` needs that nothing comes back, which is true because a sandbox in creation is known to one request only and was never vouched for (`Sole`), and that no process of a bound
sandbox runs without its cgroup (`Caged`): whoever sees the cgroup gone may infer that the process is, although it has no handle on it. That a cgroup is removed from under nobody is `Quiet`: a request that takes parts away has
seen the process dead, and one that gave up waiting has killed it. `NothingUnowned` rests on `Built`, the parts a creation has made by what it does next, and on `Reachable`: the creator has the handle it needs to destroy.

**PiWorkspaces.** Assumed: leases, workspaces, objects and grants differ from each other and from "none"; a workspace is of its lease's tenant, a grant of its object's;
"none" and "gone" are no instances. Both invariants begin with `Base`: types, where a request can stand with what, that the head of an instance's queue is the one request that
writes (`WritesFit`), what a phase implies for the memory and the claims of an instance (`PhasesFit`), and rows closed under a grant's object (`RowsFit`). The first inductive invariant is

    AwayInv == Base /\ Origins /\ TakenOnce /\ Unwritten /\ LostIsGone /\ withdrawn \subseteq Secret

`WithdrawnStaysAway` speaks of the rows; what could bring an item back into a row is a memory, a state about to be written, or a request that undoes a removal. `LostIsGone` says that none of these has it
at an instance that may write the row (`Rules`), from the moment the row was written without it, which is before the caller hears of it. That nobody else takes it back is `TakenOnce`; that nobody
makes it anew is `Origins` (its id is random, and it is anywhere only after its one maker entered it). A claim without a look at the row is the hard case: `Unwritten` says that what such an instance has of
the tenant, the row has never had. It holds for ids only (`Secret`): a caller can name an object again, which is why `withdrawn` excludes objects. The second is

    KeptInv == AwayInv /\ ExpireFits /\ AddersWanted /\ CheckoutsStand /\ EnteredStays /\ SnapFits /\ OwedIsMade /\ DueIsKept

`DueIsKept` is the mirror image of `LostIsGone`: what is owed, or was written and not yet acknowledged, is in the row, and every instance that may write the row has it in memory and in whatever it has
yet to write of the row, a grant with its object (`Complete`), without which the row would drop it. To get there the item must survive from its entry to its write while other requests remove, undo and fail:
`EnteredStays`, with `AddersWanted`, nobody asks for what a request adds unless that request knows (`clash`), and `CheckoutsStand`, a checkout is not removed beneath the request that prepares it. `SnapFits`
serves the late claim again: an object in a state about to be written is in memory too, or a waiting request takes it away.

Liveness (it needs ENABLED) stays with TLC in every module. Every other property that a passing run checks is proved, `CancelSticks` for one runner.

## 6. What is not modelled

* `renew`, readiness and backlog queries; formats, signatures, prompts and tools; the planner's loop is a step.
* The expiry of replay claims: a signed delivery expires before its claim does. Deliveries signed anew for an event with a derived id.
* Card actions reach `confirmProposal`; other channel actions of the management loop.
* The inbox's and outbox's `unknown` status: no handler yields it without a tool.
* A changing list of tenants; limits on the concurrent leases of a role.
* Of Pi runs: workspaces, checkpoint commands, validation, the event stream, the capacity gate, requests repeated with one idempotency key,
  several sessions. A destruction is one step with its record, so no row rests in `terminating`; a provider that reports an error is assumed
  to have destroyed nothing.
* Of approvals and delivery: quotas, policies, the release service, model and resource catalogues; the content of changes, diffs and approvals; an idempotency key used by two people.
* Of workspaces: what is in a checkout or an artifact, the file and in-memory state stores, a write of a dead process that the database carries out after its end.
* Of microVMs: the network controller, which is not deployed; tokens and scopes; what the guest is asked to do; a signal to an adopted process that dies in the same instant; an `rm` that removes a part of a
  directory; a caller that gave up waiting (its time-out of 15 s is that of the agent's start) before the sandbox was made.
* Of tasks: artifacts (whose snapshot is two reads in parallel), message pools, conversations, permissions; the mission's version, which moves whenever the package's does.
* Components marked `not_modelled` in `PROJECT.json`: business data behind request handlers, computations over
  snapshots, infrastructure and pages.

## 7. Plan

Done: `WorkQueue`, `AgentJobs`, `InboxOutbox` and `WorkerSupervisor` with their proofs; `PiRun` with its proofs; `ApprovalLifecycle`, `PiApproval`, `PiDelivery`, `TaskCustody` and
`TaskCommands` with their proofs; `PiWorkspaces` and `PiMachines` with their proofs. Next, in this order:

1. An abstract run (created, executed at most once, ended with one outcome) that `PiRun` is shown to implement, and a
   composition of the supervisor's shutdown with the Pi runner's drain, in place of the abstract detached work.
2. The events of a run, whose append follows a separate check of the lease; workflow timers, notifications and directory
   synchronisation; versions of governance policies; `PiRun`'s sandbox calls composed with `PiMachines`.
