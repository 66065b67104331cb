---------------------------- MODULE PiRun_proofs ----------------------------
(***************************************************************************)
(* What the Pi agent promises for any number of runs, cancel commands,     *)
(* runners, leases and faults.                                             *)
(***************************************************************************)
EXTENDS PiRun, TLAPS

-----------------------------------------------------------------------------
(* The inductive invariant. *)

Pc(c, k) == task[c][k].pc

\* A row and its lease.
Rows(c) ==
    /\ cmd[c].live => cmd[c].status = "leased"
    /\ cmd[c].status = "none" => cmd[c].attempts = 0
    /\ cmd[c].status = "leased" => cmd[c].attempts \in Tokens
    /\ web[c] \in {"idle", "found"} => cmd[c].status = "none"

\* What exists for a request that has come so far.
Known(c) ==
    /\ c \in Runs /\ web[c] = "idle" => run[c] = "none"
    /\ cmd[c].status # "none" => run[RunOf(c)] # "none"
    /\ c \in Cancels /\ web[c] # "idle" => run[target[c]] # "none"

\* What a runner has claimed is its own, and not begun.
Polled(w) ==
    poll[w].step = "claimed" =>
        /\ poll[w].token <= cmd[poll[w].cmd].attempts
        /\ Pc(poll[w].cmd, poll[w].token) = "none"
        /\ poll[w].reclaimed => poll[w].token # 1
        /\ \A v \in Runners \ {w} :
              ~(poll[v].step = "claimed" /\ poll[v].cmd = poll[w].cmd /\ poll[v].token = poll[w].token)

Executing == Timed \cup {"leave"}
ReportSet == {IsUnknown, GoesBack, IsRetried, IsTimedOut, IsCancelled, IsRejected, HasExpired}

\* A task is where its errand can be, and reports what its errand can report.
Shaped(c, k) ==
    Pc(c, k) # "none" =>
        /\ k <= cmd[c].attempts
        /\ task[c][k].at \in Runners
        /\ c \in Cancels => /\ Pc(c, k) \in {"leased", "recover", "cancel", "status", "settle"}
                            /\ task[c][k].kind \in {"recover", "cancel"}
        /\ c \in Runs => Pc(c, k) # "cancel" /\ task[c][k].kind # "cancel"
        /\ Pc(c, k) \in {"recover", "cancel", "run"} => task[c][k].kind = Pc(c, k)
        /\ Pc(c, k) = "leased" => task[c][k].kind # "execute"
        /\ Pc(c, k) \in Executing => task[c][k].kind = "execute"
        /\ task[c][k].kind = "recover" => k # 1
        /\ Pc(c, k) = "status" =>
              /\ task[c][k].report \in ReportSet
              /\ c \in Cancels => task[c][k].report \in {IsUnknown, IsCancelled, GoesBack}
              /\ task[c][k].report = GoesBack => task[c][k].kind # "cancel"
        /\ Pc(c, k) = "settle" => task[c][k].report \in Reported

\* What a task of a run will write to its command agrees with its run.
Outcome(r, k) ==
    Pc(r, k) = "settle" =>
        LET answer == task[r][k].report.cmd IN
        /\ answer = "acknowledged" => run[r] = "completed"
        /\ answer = "cancelled" => run[r] = "cancelled"
        /\ answer = "unknown" => run[r] \in {"unknown", "timed_out"}
        /\ answer = "dead_lettered" => run[r] \in {"failed", "timed_out"}
        /\ answer = "queued" /\ Holds(r, k) => run[r] \notin Occupied \cup {"completed"}
        /\ answer \in {"acknowledged", "cancelled", "unknown", "dead_lettered", "queued"}

Creating == {"boot", "bind", "limit"}
Boxed == Creating \cup {"prepare", "enter", "start", "prompt", "tidy", "complete"}

\* A run whose sandbox was never asked for.
Untouched(r) ==
    box[r].status = "none" =>
        /\ ~box[r].handle /\ prompts[r] = 0 /\ r \notin vm
        /\ \A w \in Runners : r \notin boxes[w]
        /\ \A k \in Tokens : Pc(r, k) \notin Boxed

\* One task at a time creates a machine.
Booting(r, k) ==
    Pc(r, k) \in Creating =>
        /\ \A j \in Tokens \ {k} : Pc(r, j) \notin Creating
        /\ Pc(r, k) = "boot" => /\ box[r].status \in {"provisioning", "unknown"} /\ ~box[r].handle
                                /\ \A w \in Runners : r \notin boxes[w]

Ready == {"prepare", "enter", "start"}
\* Everybody who works on c, or is about to, holds its lease.
Kept(c) ==
    /\ \A k \in Tokens : Pc(c, k) # "none" => Holds(c, k)
    /\ \A w \in Runners : poll[w].step = "claimed" /\ poll[w].cmd = c => Holds(c, poll[w].token)

Sharing == {"prepare", "enter", "start", "prompt", "tidy", "complete", "failing", "leave", "status", "settle"}

\* With every worker of r under its lease, what is ahead of the prompt has not prompted.
WellKept(r) ==
    /\ Kept(r)
    /\ prompts[r] <= 1
    /\ \A w \in Runners : r \in boxes[w] =>
          \E k \in Tokens : Pc(r, k) \in Sharing /\ task[r][k].kind = "execute" /\ task[r][k].at = w
    /\ \A k \in Tokens : Pc(r, k) \in Creating \cup Ready => prompts[r] = 0

\* Once prompted, a run never comes back to where its holder could be let in again.
Forward(r) ==
    /\ prompts[r] <= 1
    /\ prompts[r] = 1 => run[r] \in {"running", "awaiting_approval"} \cup Ended
    /\ \A k \in Tokens : Holds(r, k) =>
        /\ Pc(r, k) \in {"check", "create"} \cup Creating \cup Ready => prompts[r] = 0
        /\ Pc(r, k) = "start" => run[r] \in {"running"} \cup Ended
        /\ Pc(r, k) = "status" /\ task[r][k].report.run = "queued" => prompts[r] = 0

\* A cancel command of a run that goes on was never reclaimed.
Answered(c) ==
    run[target[c]] \in Ended \/
    /\ cmd[c].status = "leased" => Held(c)
    /\ \A w \in Runners : poll[w].step = "claimed" /\ poll[w].cmd = c => ~poll[w].reclaimed
    /\ \A k \in Tokens : Pc(c, k) # "none" => task[c][k].kind # "recover"

\* Nothing sends the run back to the queue.
Steady(r) ==
    /\ draining = {}
    /\ Forward(r)
    /\ \A c \in Cancels : target[c] = r => Kept(c) /\ Answered(c)

\* One fault breaks the leases or the order of things, but not both.
Once(r) ==
    /\ faults = 0 => WellKept(r) /\ Steady(r)
    /\ faults = 1 => WellKept(r) \/ Steady(r)
    /\ (\A c \in Cancels : target[c] = r => ClaimedOnce(c)) => Forward(r)

\* As long as nothing failed, somebody answers for each machine.
Clean(r) ==
    faults = 0 =>
        /\ r \in vm /\ box[r].status # "unknown" =>
              \E k \in Tokens :
                 \/ Pc(r, k) \in {"bind", "limit"}
                 \/ /\ Pc(r, k) \in {"prepare", "enter", "start", "prompt", "tidy", "failing"}
                    /\ r \in boxes[task[r][k].at]
                    /\ Pc(r, k) = "failing" => Wanted(task[r][k].error)
        /\ \A k \in Tokens :
              /\ Pc(r, k) \in {"prepare", "enter", "start", "prompt", "tidy"} => r \in boxes[task[r][k].at]
              /\ Pc(r, k) = "complete" => r \notin vm
        /\ run[r] = "completed" => r \notin vm

IRows == \A c \in Commands : Rows(c) /\ Known(c)
IPolled == \A w \in Runners : Polled(w)
IShaped == \A c \in Commands, k \in Tokens : Shaped(c, k)
IOutcome == \A r \in Runs, k \in Tokens : Outcome(r, k)
IMachine == \A r \in Runs : Untouched(r) /\ \A k \in Tokens : Booting(r, k)
IOnce == \A r \in Runs : Once(r)
IClean == \A r \in Runs : Clean(r)

IInv ==
    /\ TypeOK /\ IRows /\ IPolled /\ IShaped /\ IOutcome /\ IMachine /\ IOnce /\ IClean
    /\ VisibleMachine /\ OutcomesAgree

-----------------------------------------------------------------------------
(* Tasks: what a step makes of one, and what it leaves of the others. *)

\* What the invariant reads of a task: all but why it is to be aborted.
Alike(c, k) ==
    /\ task'[c][k].pc = task[c][k].pc /\ task'[c][k].at = task[c][k].at
    /\ task'[c][k].kind = task[c][k].kind /\ task'[c][k].error = task[c][k].error
    /\ task'[c][k].report = task[c][k].report
Others(c, k) == \A d \in Commands, j \in Tokens : d # c \/ j # k => Alike(d, j)

\* Task (c, k) goes on at pc, for the same runner and with the same errand.
Turns(c, k, pc) ==
    /\ Others(c, k)
    /\ task'[c][k].pc = pc /\ task'[c][k].at = task[c][k].at /\ task'[c][k].kind = task[c][k].kind

Table == [Commands -> [Tokens -> Tasks]]

LEMMA PutTask ==
  ASSUME task \in Table, NEW c \in Commands, NEW k \in Tokens, NEW t \in Tasks, task' = [task EXCEPT ![c][k] = t]
  PROVE  task' \in Table /\ Others(c, k) /\ task'[c][k] = t
  BY DEF Others, Table, Alike

LEMMA StepTurns ==
  ASSUME task \in Table, NEW c \in Commands, NEW k \in Tokens, NEW pc \in Steps, Step(c, k, pc)
  PROVE  /\ task' \in Table /\ Turns(c, k, pc)
         /\ task'[c][k].error = task[c][k].error /\ task'[c][k].report = task[c][k].report
  <1> DEFINE t == [task[c][k] EXCEPT !.pc = pc]
  <1>0. task[c][k] \in Tasks
    BY DEF Table
  <1>1. t \in Tasks
    BY <1>0 DEF Tasks
  <1>2. task' = [task EXCEPT ![c][k] = t]
    BY DEF Step
  <1>3. task' \in Table /\ Others(c, k) /\ task'[c][k] = t
    BY <1>1, <1>2, PutTask
  <1> QED BY <1>0, <1>3 DEF Turns, Tasks

LEMMA FailTurns ==
  ASSUME task \in Table, NEW c \in Commands, NEW k \in Tokens, NEW error \in Errors, Fails(c, k, error)
  PROVE  /\ task' \in Table /\ Turns(c, k, "failing")
         /\ task'[c][k].error = error
  <1> DEFINE t == [task[c][k] EXCEPT !.pc = "failing", !.error = error]
  <1>0. task[c][k] \in Tasks
    BY DEF Table
  <1>1. t \in Tasks
    BY <1>0 DEF Tasks, Steps, Timed
  <1>2. task' = [task EXCEPT ![c][k] = t]
    BY Zenon DEF Fails
  <1>4. t.pc = "failing" /\ t.error = error /\ t.at = task[c][k].at /\ t.kind = task[c][k].kind
    BY <1>0 DEF Tasks
  <1> HIDE DEF t
  <1>3. task' \in Table /\ Others(c, k) /\ task'[c][k] = t
    BY <1>1, <1>2, PutTask
  <1> QED BY <1>3, <1>4 DEF Turns

LEMMA ReportTurns ==
  ASSUME task \in Table, NEW c \in Commands, NEW k \in Tokens, NEW report \in Reported, Reports(c, k, report)
  PROVE  /\ task' \in Table /\ Turns(c, k, IF report.run = "none" THEN "settle" ELSE "status")
         /\ task'[c][k].report = report
  <1> DEFINE t == Reporting(task[c][k], report)
  <1>0. task[c][k] \in Tasks
    BY DEF Table
  <1>1. t \in Tasks
    BY <1>0 DEF Tasks, Steps, Outside, Reported, Reporting
  <1>2. task' = [task EXCEPT ![c][k] = t]
    BY <1>0 DEF Reports
  <1>3. task' \in Table /\ Others(c, k) /\ task'[c][k] = t
    BY <1>1, <1>2, PutTask
  <1>4. t.pc = (IF report.run = "none" THEN "settle" ELSE "status") /\ t.report = report /\ t.at = task[c][k].at
        /\ t.kind = task[c][k].kind
    BY <1>0 DEF Reporting, Tasks
  <1> QED BY <1>3, <1>4 DEF Turns

LEMMA CauseTurns ==
  ASSUME task \in Table, NEW c \in Commands, NEW k \in Tokens, NEW cause \in DOMAIN Rank,
         task' = [task EXCEPT ![c][k].cause = cause]
  PROVE  task' \in Table /\ \A d \in Commands, j \in Tokens : Alike(d, j)
  <1> DEFINE t == [task[c][k] EXCEPT !.cause = cause]
  <1>0. task[c][k] \in Tasks
    BY DEF Table
  <1>1. t \in Tasks
    BY <1>0 DEF Tasks
  <1>2. task' = [task EXCEPT ![c][k] = t]
    OBVIOUS
  <1>3. task' \in Table /\ Others(c, k) /\ task'[c][k] = t
    BY <1>1, <1>2, PutTask
  <1> QED BY <1>0, <1>3 DEF Others, Alike, Tasks

LEMMA NoTaskIsTask == NoTask \in Tasks /\ NoTask.pc = "none"
  <1>2. "none" \in DOMAIN Rank
    BY DEF Rank
  <1> QED BY <1>2 DEF NoTask, Tasks, Steps, Errors

LEMMA ReportsAreKnown ==
  /\ {IsUnknown, GoesBack, IsRetried, IsTimedOut, IsCancelled, IsRejected, HasExpired} \subseteq Reported
  /\ \A x \in Settled : OnlySettle(x) \in Reported
  <1>1. {"unknown", "queued", "failed", "timed_out", "cancelled"} \subseteq RunStatus
    BY DEF RunStatus, Allowed
  <1>2. {"unknown", "queued", "cancelled", "dead_lettered"} \subseteq Settled \cup {"queued"}
    BY DEF Settled
  <1> QED BY <1>1, <1>2 DEF IsUnknown, GoesBack, IsRetried, IsTimedOut, IsCancelled, IsRejected, HasExpired,
               OnlySettle, Report, Reported

LEMMA Constants ==
  /\ MaxClaims \in Nat /\ Tokens \subseteq Nat /\ 1 \in Tokens
  /\ \A r \in Runs : r \in Commands /\ r \notin Cancels /\ RunOf(r) = r
  /\ \A c \in Cancels : c \in Commands /\ c \notin Runs /\ RunOf(c) = target[c]
  BY SizeAssumption, KindAssumption DEF Tokens, Commands, RunOf

LEMMA RunOfIsRun ==
  ASSUME TypeOK, NEW c \in Commands
  PROVE  RunOf(c) \in Runs
  BY DEF TypeOK, RunOf, Commands

LEMMA TaskFacts ==
  ASSUME TypeOK, NEW c \in Commands, NEW k \in Tokens
  PROVE  task[c][k] \in Tasks /\ task \in Table /\ k \in Nat /\ cmd[c].attempts \in Nat
         /\ cmd[c].status \in CmdStatus /\ cmd[c].live \in BOOLEAN
  BY Constants DEF TypeOK, Table

Finished(c, k) ==
    /\ Others(c, k)
    /\ task'[c][k].pc = "none"
    /\ \A w \in Runners : boxes'[w] = IF task[c][k].kind = "execute" /\ w = At(c,
               k) THEN boxes[w] \ {RunOf(c)} ELSE boxes[w]

LEMMA FinishEnds ==
  ASSUME TypeOK, NEW c \in Commands, NEW k \in Tokens, At(c, k) \in Runners, Finish(c, k)
  PROVE  /\ task' \in Table /\ Finished(c, k)
         /\ inFlight' \in [Runners -> [Runs -> {NoWork} \cup [cmd : Commands, token : Tokens]]]
         /\ active' \in [Runners -> [Runs -> {0} \cup Tokens]]
         /\ boxes' \in [Runners -> SUBSET Runs]
  <1>1. task' \in Table /\ Others(c, k) /\ task'[c][k] = NoTask
    BY PutTask, NoTaskIsTask, TaskFacts DEF Finish
  <1>2. RunOf(c) \in Runs
    BY RunOfIsRun
  <1>3. inFlight' \in [Runners -> [Runs -> {NoWork} \cup [cmd : Commands, token : Tokens]]]
    BY <1>2 DEF Finish, TypeOK
  <1>4. active' \in [Runners -> [Runs -> {0} \cup Tokens]]
    BY <1>2 DEF Finish, TypeOK
  <1>5. /\ boxes' \in [Runners -> SUBSET Runs]
        /\ \A w \in Runners : boxes'[w] = IF task[c][k].kind = "execute" /\ w = At(c,
                   k) THEN boxes[w] \ {RunOf(c)} ELSE boxes[w]
    BY <1>2 DEF Finish, TypeOK
  <1> QED BY <1>1, <1>3, <1>4, <1>5, NoTaskIsTask DEF Finished

LEMMA RowsKept ==
  ASSUME IRows, UNCHANGED <<cmd, web, target>>,
             \A r \in Runs : run'[r] = run[r] \/ (run[r] # "none" /\ run'[r] # "none"),
         TypeOK
  PROVE  IRows'
  <1> SUFFICES ASSUME NEW c \in Commands PROVE Rows(c)' /\ Known(c)'
    BY DEF IRows
  <1>1. RunOf(c) \in Runs /\ RunOf(c)' = RunOf(c)
    BY RunOfIsRun DEF RunOf
  <1>2. c \in Cancels => target[c] \in Runs
    BY DEF TypeOK
  <1> QED BY <1>1, <1>2 DEF IRows, Rows, Known

LEMMA PolledKept ==
  ASSUME TypeOK, IPolled, poll' = poll, \A c \in Commands : cmd'[c].attempts = cmd[c].attempts,
         \A c \in Commands, k \in Tokens : Pc(c, k) = "none" => Pc(c, k)' = "none"
  PROVE  IPolled'
  <1> SUFFICES ASSUME NEW w \in Runners PROVE Polled(w)'
    BY DEF IPolled
  <1>1. poll[w] \in Polls
    BY DEF TypeOK
  <1>2. poll[w].step = "claimed" => poll[w].cmd \in Commands /\ poll[w].token \in Tokens
    BY <1>1 DEF Polls, NoPoll
  <1> QED BY <1>2 DEF IPolled, Polled

LEMMA ShapedKept ==
  ASSUME IShaped, NEW c \in Commands, NEW k \in Tokens, Others(c, k), Shaped(c, k)',
         TypeOK, \A d \in Commands : cmd'[d].attempts = cmd[d].attempts
  PROVE  IShaped'
  <1> SUFFICES ASSUME NEW d \in Commands, NEW j \in Tokens, d # c \/ j # k PROVE Shaped(d, j)'
    BY DEF IShaped
  <1>1. Alike(d, j)
    BY DEF Others
  <1> QED BY <1>1 DEF IShaped, Shaped, Alike, Pc

LEMMA OutcomeKept ==
  ASSUME IOutcome, NEW c \in Commands, NEW k \in Tokens, Others(c, k), c \in Runs => Outcome(c, k)',
         cmd' = cmd, run' = run
  PROVE  IOutcome'
  <1> SUFFICES ASSUME NEW d \in Runs, NEW j \in Tokens, d # c \/ j # k PROVE Outcome(d, j)'
    BY DEF IOutcome
  <1>1. Alike(d, j)
    BY Constants DEF Others
  <1>2. Holds(d, j)' = Holds(d, j)
    BY DEF Holds, Live
  <1> QED BY <1>1, <1>2 DEF IOutcome, Outcome, Alike, Pc

-----------------------------------------------------------------------------
(* Frames: what a step of one task leaves of the invariant. *)

Follows == \A r \in Runs : run'[r] = run[r] \/ (run[r] \notin Ended /\ run'[r] # "none")
NoneNew == \A c \in Commands, k \in Tokens : Pc(c, k) = "none" => Pc(c, k)' = "none"
Owing == {"prepare", "enter", "start", "prompt", "tidy"}
Early == {"check", "create"} \cup Creating \cup Ready

LEMMA MachineKept ==
  ASSUME IMachine, NEW c \in Commands, NEW k \in Tokens, Others(c, k), UNCHANGED <<box, vm, prompts>>,
         \A w \in Runners : boxes'[w] \subseteq boxes[w],
         c \in Runs => /\ Pc(c, k)' \in Boxed => Pc(c, k) \in Boxed \/ box[c].status # "none"
                       /\ Pc(c, k)' \in Creating => Pc(c, k)' = Pc(c, k)
  PROVE  IMachine'
  <1> SUFFICES ASSUME NEW r \in Runs, NEW j \in Tokens PROVE Untouched(r)' /\ Booting(r, j)'
    BY Constants DEF IMachine
  <1>0. r \in Commands /\ \A i \in Tokens : r # c \/ i # k => Pc(r, i)' = Pc(r, i)
    BY Constants DEF Others, Alike, Pc
  <1>1. Untouched(r)'
    BY <1>0 DEF IMachine, Untouched
  <1>2. Booting(r, j)'
    BY <1>0 DEF IMachine, Booting, Creating
  <1> QED BY <1>1, <1>2

LEMMA KeptKept ==
  ASSUME NEW d \in Commands, Kept(d), UNCHANGED <<cmd[d], poll>>, NoneNew
  PROVE  Kept(d)'
  BY DEF Kept, NoneNew, Holds, Live

\* Task (c, k) may hold a sandbox of runner w after the step.
Fills(c, k, w) == w = task'[c][k].at /\ Pc(c, k)' \in Sharing /\ task'[c][k].kind = "execute"

LEMMA WellKeptKept ==
  ASSUME NEW r \in Runs, WellKept(r), Kept(r)', NEW c \in Commands, NEW k \in Tokens, Others(c, k),
         prompts'[r] = prompts[r],
         \A w \in Runners : r \in boxes'[w] => r \in boxes[w] \/ (c = r /\ Fills(c, k, w)),
         c = r => /\ (Pc(c, k)' \in Sharing /\ task'[c][k].at = task[c][k].at /\ task'[c][k].kind = task[c][k].kind)
                     \/ Pc(c, k) \notin Sharing \/ task[c][k].kind # "execute" \/ r \notin boxes'[At(c, k)]
                  /\ Pc(c, k)' \in Creating \cup Ready => prompts[r] = 0
  PROVE  WellKept(r)'
  <1>0. r \in Commands /\ \A i \in Tokens : r # c \/ i # k => Alike(r, i)
    BY Constants DEF Others
  <1>1. ASSUME NEW w \in Runners, r \in boxes'[w]
        PROVE  \E i \in Tokens : Pc(r, i)' \in Sharing /\ task'[r][i].kind = "execute" /\ task'[r][i].at = w
    <2>1. CASE c = r /\ Fills(c, k, w)
      BY <2>1 DEF Fills
    <2>2. CASE r \in boxes[w]
      <3>1. PICK i \in Tokens : Pc(r, i) \in Sharing /\ task[r][i].kind = "execute" /\ task[r][i].at = w
        BY <2>2 DEF WellKept
      <3> QED BY <1>0, <1>1, <3>1 DEF Alike, Pc, At
    <2> QED BY <1>1, <2>1, <2>2
  <1>2. \A i \in Tokens : Pc(r, i)' \in Creating \cup Ready => prompts[r] = 0
    BY <1>0 DEF WellKept, Alike, Pc
  <1> QED BY <1>1, <1>2 DEF WellKept

LEMMA ForwardKept ==
  ASSUME NEW r \in Runs, Forward(r), NEW c \in Commands, NEW k \in Tokens, Others(c, k),
         prompts'[r] = prompts[r], \A i \in Tokens : Holds(r, i)' => Holds(r, i),
         prompts[r] = 1 => run'[r] \in {"running", "awaiting_approval"} \cup Ended,
         \A i \in Tokens : Holds(r, i) /\ Pc(r, i)' = "start" => run'[r] \in {"running"} \cup Ended,
         c = r /\ Holds(r, k) =>
            /\ Pc(c, k)' \in Early => prompts[r] = 0
            /\ Pc(c, k)' = "status" /\ task'[c][k].report.run = "queued" => prompts[r] = 0
  PROVE  Forward(r)'
  <1>0. r \in Commands /\ \A i \in Tokens : r # c \/ i # k => Alike(r, i)
    BY Constants DEF Others
  <1>1. ASSUME NEW i \in Tokens, Holds(r, i)
        PROVE  /\ Pc(r, i)' \in Early => prompts[r] = 0
               /\ Pc(r, i)' = "status" /\ task'[r][i].report.run = "queued" => prompts[r] = 0
    BY <1>0, <1>1 DEF Forward, Alike, Pc, Early
  <1> QED BY <1>1 DEF Forward, Early

LEMMA AnsweredKept ==
  ASSUME NEW d \in Cancels, Answered(d), UNCHANGED <<cmd[d], poll, target>>, Follows, TypeOK, IRows, NoneNew,
         \A i \in Tokens : Pc(d, i) # "none" => Pc(d, i)' # "none" /\ task'[d][i].kind = task[d][i].kind
  PROVE  Answered(d)'
  <1>0. target[d] \in Runs
    BY DEF TypeOK
  <1>1. CASE run[target[d]] \in Ended
    BY <1>0, <1>1 DEF Answered, Follows
  <1>2. CASE run[target[d]] \notin Ended
    <2>1. cmd[d].status = "leased" => Held(d)'
      <3> SUFFICES ASSUME cmd[d].status = "leased" PROVE Held(d)'
        OBVIOUS
      <3>1. Held(d)
        BY <1>2 DEF Answered
      <3>2. cmd[d].attempts \in Tokens
        BY Constants DEF IRows, Rows
      <3> QED BY <3>1, <3>2 DEF Held, Pc
    <2> QED BY <1>2, <2>1, Constants DEF Answered, NoneNew
  <1> QED BY <1>1, <1>2

NoRequeue(r) ==
  \A c \in Cancels, j \in Tokens :
     target[c] = r /\ Pc(c, j) = "status" /\ task[c][j].report = GoesBack => run[r] \in Ended

LEMMA SteadyIsForward ==
  ASSUME IShaped, NEW r \in Runs, Steady(r)
  PROVE  NoRequeue(r)
  <1> SUFFICES ASSUME NEW c \in Cancels, NEW j \in Tokens,
                      target[c] = r, Pc(c, j) = "status", task[c][j].report = GoesBack
               PROVE  run[r] \in Ended
    BY DEF NoRequeue
  <1>1. task[c][j].kind = "recover"
    BY Constants DEF IShaped, Shaped
  <1> QED BY <1>1 DEF Steady, Answered

LEMMA ClaimedOnceIsForward ==
  ASSUME TypeOK, IShaped, NEW r \in Runs, \A c \in Cancels : target[c] = r => ClaimedOnce(c)
  PROVE  NoRequeue(r)
  <1> SUFFICES ASSUME NEW c \in Cancels, NEW j \in Tokens,
                      target[c] = r, Pc(c, j) = "status", task[c][j].report = GoesBack
               PROVE  FALSE
    BY DEF NoRequeue
  <1>1. task[c][j].kind = "recover" /\ j # 1 /\ j <= cmd[c].attempts
    BY Constants DEF IShaped, Shaped
  <1>2. j \in 1 .. MaxClaims /\ cmd[c].attempts \in Nat
    BY Constants, TaskFacts DEF Tokens
  <1> QED BY <1>1, <1>2 DEF ClaimedOnce

LEMMA OnceKept ==
  ASSUME TypeOK, TypeOK', IShaped, NEW r \in Runs, Once(r), faults <= faults', target' = target,
         \A c \in Cancels : cmd[c].attempts <= cmd'[c].attempts,
         WellKept(r) => WellKept(r)',
         Forward(r) /\ NoRequeue(r) => Forward(r)',
         faults' = faults /\ draining = {} =>
            /\ draining' = {}
            /\ \A c \in Cancels : target[c] = r /\ Kept(c) /\ Answered(c) => Kept(c)' /\ Answered(c)'
  PROVE  Once(r)'
  <1>1. faults \in Nat /\ faults' \in Nat
    BY DEF TypeOK
  <1>2. ASSUME Steady(r), faults' = faults PROVE Steady(r)'
    BY <1>2, SteadyIsForward DEF Steady
  <1>3. ASSUME \A c \in Cancels : target'[c] = r => ClaimedOnce(c)' PROVE Forward(r)'
    <2>1. \A c \in Cancels : target[c] = r => ClaimedOnce(c)
      BY <1>3, TaskFacts, Constants DEF ClaimedOnce, TypeOK
    <2> QED BY <2>1, ClaimedOnceIsForward DEF Once
  <1> QED BY <1>1, <1>2, <1>3 DEF Once

LEMMA CleanKept ==
  ASSUME TypeOK, TypeOK', NEW r \in Runs, Clean(r), faults <= faults', UNCHANGED <<box, vm, boxes>>,
         run'[r] = "completed" => run[r] = "completed",
         NEW c \in Commands, NEW k \in Tokens, Others(c, k),
         c = r => task'[c][k].at = task[c][k].at,
         c = r /\ faults' = 0 =>
            /\ Pc(c, k) \in {"bind", "limit"} => Pc(c, k)' = Pc(c, k)
            /\ Pc(c, k) \in Owing \/ (Pc(c, k) = "failing" /\ Wanted(task[c][k].error)) =>
                  Pc(c, k)' \in Owing \/ (Pc(c, k)' = "failing" /\ Wanted(task'[c][k].error))
            /\ Pc(c, k)' \in Owing => Pc(c, k) \in Owing \/ r \in boxes[At(c, k)]
            /\ Pc(c, k)' = "complete" => Pc(c, k) = "complete"
  PROVE  Clean(r)'
  <1>0. r \in Commands /\ \A i \in Tokens : r # c \/ i # k => Alike(r, i)
    BY Constants DEF Others
  <1> SUFFICES ASSUME faults' = 0, faults = 0 PROVE Clean(r)'
    BY DEF TypeOK, Clean
  <1>1. ASSUME r \in vm, box[r].status # "unknown"
        PROVE  \E i \in Tokens :
                 \/ Pc(r, i)' \in {"bind", "limit"}
                 \/ /\ Pc(r, i)' \in Owing \cup {"failing"}
                    /\ r \in boxes[task'[r][i].at]
                    /\ Pc(r, i)' = "failing" => Wanted(task'[r][i].error)
    <2>1. PICK i \in Tokens :
                 \/ Pc(r, i) \in {"bind", "limit"}
                 \/ /\ Pc(r, i) \in Owing \cup {"failing"}
                    /\ r \in boxes[task[r][i].at]
                    /\ Pc(r, i) = "failing" => Wanted(task[r][i].error)
      BY <1>1 DEF Clean, Owing
    <2> WITNESS i \in Tokens
    <2>2. CASE r = c /\ i = k
      BY <2>1, <2>2 DEF Owing
    <2>3. CASE r # c \/ i # k
      BY <1>0, <2>1, <2>3 DEF Alike, Pc
    <2> QED BY <2>2, <2>3
  <1>2. ASSUME NEW i \in Tokens
        PROVE  /\ Pc(r, i)' \in Owing => r \in boxes[task'[r][i].at]
               /\ Pc(r, i)' = "complete" => r \notin vm
    <2>1. CASE r = c /\ i = k
      BY <2>1 DEF Clean, Owing, At
    <2>2. CASE r # c \/ i # k
      BY <1>0, <2>2 DEF Alike, Pc, Clean, Owing
    <2> QED BY <2>1, <2>2
  <1> QED BY <1>1, <1>2 DEF Clean, Owing

\* Task (c, k) goes on, whatever else happens to sandboxes and to the run.
Goes(c, k) ==
    /\ Others(c, k) /\ Pc(c, k) # "none" /\ Pc(c, k)' # "none"
    /\ task'[c][k].at = task[c][k].at
    /\ c \in Cancels => task'[c][k].kind = task[c][k].kind
    /\ UNCHANGED <<cmd, target, web, poll, draining, prompts>>
    /\ faults <= faults'

\* What a step of an execution owes the history of its run.
Begins(c, k) ==
    /\ Pc(c, k) \in Sharing => Pc(c, k)' \in Sharing /\ task'[c][k].kind = task[c][k].kind
    /\ Pc(c, k)' \in Creating \cup Ready => Pc(c, k) \in Creating \cup Ready \/ (WellKept(c) => prompts[c] = 0)
    /\ Pc(c, k)' \in Early => Pc(c, k) \in Early \/ (Forward(c) /\ Holds(c, k) => prompts[c] = 0)
    /\ Pc(c, k)' = "status" /\ task'[c][k].report.run = "queued" => (Forward(c) /\ Holds(c, k) => prompts[c] = 0)

\* Where a run may be once it is prompted, or about to be.
Prompted(r) ==
    /\ prompts[r] = 1 => run'[r] \in {"running", "awaiting_approval"} \cup Ended
    /\ \A i \in Tokens : Holds(r, i) /\ Pc(r, i)' = "start" => run'[r] \in {"running"} \cup Ended

LEMMA OnceTurn ==
  ASSUME IInv, TypeOK', NEW c \in Commands, NEW k \in Tokens, Goes(c, k), Follows,
         \A r \in Runs, w \in Runners : r \in boxes'[w] => r \in boxes[w] \/ (c = r /\ Fills(c, k, w)),
         \A r \in Runs : Forward(r) /\ NoRequeue(r) => Prompted(r),
         c \in Runs => Begins(c, k)
  PROVE  IOnce'
  <1> USE DEF IInv
  <1> SUFFICES ASSUME NEW r \in Runs PROVE Once(r)'
    BY DEF IOnce
  <1>0. r \in Commands /\ NoneNew
    BY Constants DEF Goes, Others, Alike, NoneNew, Pc
  <1>1. ASSUME WellKept(r) PROVE WellKept(r)'
    <2>1. Kept(r)'
      BY <1>0, <1>1, KeptKept DEF Goes, WellKept
    <2>2. c = r => (Pc(c, k)' \in Creating \cup Ready => prompts[r] = 0)
      BY <1>1 DEF Begins, WellKept
    <2> QED BY <1>1, <2>1, <2>2, WellKeptKept DEF Goes, Begins
  <1>2. ASSUME Forward(r), NoRequeue(r) PROVE Forward(r)'
    <2>1. \A i \in Tokens : Holds(r, i)' = Holds(r, i)
      BY DEF Goes, Holds, Live
    <2>2. c = r /\ Holds(r, k) =>
            /\ Pc(c, k)' \in Early => prompts[r] = 0
            /\ Pc(c, k)' = "status" /\ task'[c][k].report.run = "queued" => prompts[r] = 0
      BY <1>2 DEF Begins, Forward, Early
    <2> QED BY <1>2, <2>1, <2>2, ForwardKept DEF Goes, Prompted
  <1>3. ASSUME NEW d \in Cancels, Kept(d), Answered(d) PROVE Kept(d)' /\ Answered(d)'
    <2>1. d \in Commands
      BY Constants
    <2>2. \A i \in Tokens : Pc(d, i) # "none" => Pc(d, i)' # "none" /\ task'[d][i].kind = task[d][i].kind
      BY <2>1 DEF Goes, Others, Alike, Pc
    <2>3. Answered(d)'
      BY <1>0, <1>3, <2>2, AnsweredKept DEF Goes
    <2> QED BY <1>0, <1>3, <2>1, <2>3, KeptKept DEF Goes
  <1>4. \A d \in Cancels : cmd[d].attempts <= cmd'[d].attempts
    BY Constants, TaskFacts DEF Goes
  <1> QED BY <1>1, <1>2, <1>3, <1>4, OnceKept DEF Goes, IOnce

\* What a step of an execution owes the sandbox of its run, and its reports.
Owes(c, k) ==
    /\ Begins(c, k)
    /\ Outcome(c, k)'
    /\ Pc(c, k)' \in Boxed => Pc(c, k) \in Boxed \/ box[c].status # "none"
    /\ Pc(c, k)' \in Creating => Pc(c, k)' = Pc(c, k)
    /\ faults' = 0 =>
          /\ Pc(c, k) \in {"bind", "limit"} => Pc(c, k)' = Pc(c, k)
          /\ Pc(c, k) \in Owing \/ (Pc(c, k) = "failing" /\ Wanted(task[c][k].error)) =>
                Pc(c, k)' \in Owing \/ (Pc(c, k)' = "failing" /\ Wanted(task'[c][k].error))
          /\ Pc(c, k)' \in Owing => Pc(c, k) \in Owing \/ c \in boxes[At(c, k)]
          /\ Pc(c, k)' = "complete" => Pc(c, k) = "complete"

\* A step of task (c, k) that leaves the run and the sandboxes alone.
Local(c, k) == Goes(c, k) /\ Shaped(c, k)' /\ UNCHANGED <<run, box, vm, boxes>>

LEMMA LocalKeeps ==
  ASSUME IInv, TypeOK', NEW c \in Commands, NEW k \in Tokens, Local(c, k),
         c \in Runs => Owes(c, k) /\ (Pc(c, k)' = "start" => Pc(c, k) = "start")
  PROVE  IInv'
  <1> USE DEF IInv
  <1>1. Follows /\ NoneNew
    BY DEF Local, Goes, Others, Alike, Follows, NoneNew, Pc
  <1>2. IRows'
    BY RowsKept DEF Local, Goes
  <1>3. IPolled'
    BY <1>1, PolledKept DEF Local, Goes, NoneNew
  <1>4. IShaped'
    BY ShapedKept DEF Local, Goes
  <1>5. IOutcome'
    BY OutcomeKept DEF Local, Goes, Owes
  <1>6. IMachine'
    BY MachineKept DEF Local, Goes, Owes
  <1>7. IOnce'
    <2>1. ASSUME NEW r \in Runs, Forward(r) PROVE Prompted(r)
      <3>1. r \in Commands /\ \A i \in Tokens : Pc(r, i)' = "start" => Pc(r, i) = "start"
        BY Constants DEF Local, Goes, Others, Alike, Pc
      <3> QED BY <2>1, <3>1 DEF Forward, Prompted, Local
    <2> QED BY <1>1, <2>1, OnceTurn DEF Local, Owes
  <1>8. IClean'
    <2> SUFFICES ASSUME NEW r \in Runs PROVE Clean(r)'
      BY DEF IClean
    <2> QED BY CleanKept DEF Local, Goes, Owes, IClean
  <1>9. VisibleMachine' /\ OutcomesAgree'
    BY DEF Local, Goes, VisibleMachine, OutcomesAgree
  <1> QED BY <1>2, <1>3, <1>4, <1>5, <1>6, <1>7, <1>8, <1>9

-----------------------------------------------------------------------------
(* Steps of an execution that only move it. *)

Rest == UNCHANGED <<run, cmd, target, box, vm, web, poll, draining, boxes, prompts>> /\ faults <= faults'

LEMMA RunningIsShaped ==
  ASSUME IInv, NEW c \in Runs, NEW k \in Tokens, NEW pc \in Executing, Pc(c, k) \in Executing, Turns(c, k, pc),
             cmd' = cmd
  PROVE  Shaped(c, k)' /\ Outcome(c, k)'
  <1>1. Shaped(c, k) /\ c \notin Cancels
    BY Constants DEF IInv, IShaped
  <1>2. Pc(c, k) # "none" /\ pc \notin {"none", "leased", "recover", "cancel", "run", "status", "settle"}
    BY DEF Executing, Timed
  <1>3. pc = Pc(c, k)'
    BY DEF Turns, Pc
  <1>4. Shaped(c, k)'
    BY <1>1, <1>2, <1>3 DEF Shaped, Turns, Pc
  <1>5. Outcome(c, k)'
    BY <1>2, <1>3 DEF Outcome
  <1> QED BY <1>4, <1>5

\* A step of an execution that changes its place and nothing else.
LEMMA ExecutionKeeps ==
  ASSUME IInv, TypeOK', NEW c \in Runs, NEW k \in Tokens, NEW pc \in Executing, Turns(c, k, pc), Rest,
         Pc(c, k) \in Executing,
         pc \in Boxed => Pc(c, k) \in Boxed \/ box[c].status # "none",
         pc \in Creating \/ pc \in {"start", "complete"} => pc = Pc(c, k),
         Pc(c, k) \in Sharing => pc \in Sharing,
         pc \in Creating \cup Ready => Pc(c, k) \in Creating \cup Ready \/ (WellKept(c) => prompts[c] = 0),
         pc \in Early => Pc(c, k) \in Early,
         faults' = 0 =>
            /\ Pc(c, k) \in {"bind", "limit"} => pc = Pc(c, k)
            /\ Pc(c, k) \in Owing \/ (Pc(c, k) = "failing" /\ Wanted(task[c][k].error)) =>
                  pc \in Owing \/ (pc = "failing" /\ Wanted(task'[c][k].error))
            /\ pc \in Owing => Pc(c, k) \in Owing \/ c \in boxes[At(c, k)]
  PROVE  IInv'
  <1>1. Shaped(c, k)' /\ Outcome(c, k)'
    BY RunningIsShaped DEF Rest
  <1>2. pc = Pc(c, k)' /\ c \notin Cancels /\ c \in Commands
    BY Constants DEF Turns, Pc
  <1>3. pc \notin {"none", "status"} /\ Pc(c, k) # "none"
    BY DEF Executing, Timed
  <1>4. Local(c, k)
    BY <1>1, <1>2, <1>3 DEF Local, Goes, Turns, Rest
  <1>5. Owes(c, k)
    BY <1>1, <1>2, <1>3 DEF Owes, Begins, Turns
  <1> QED BY <1>2, <1>4, <1>5, LocalKeeps

LEMMA CheckCancelledKeeps ==
  ASSUME IInv, NEW c \in Runs, NEW k \in Tokens, CheckCancelled(c, k)
  PROVE  IInv'
  <1>0. c \in Commands /\ task \in Table
    BY Constants, TaskFacts DEF IInv
  <1>1. task' \in Table /\ ((Turns(c, k, "create")) \/ (Turns(c, k, "failing")))
    BY <1>0, StepTurns, FailTurns DEF CheckCancelled, Steps, Timed, Errors
  <1>2. TypeOK' /\ Rest
    BY <1>0, <1>1 DEF CheckCancelled, IInv, TypeOK, Table, Rest, rowVars, boxVars, mapVars
  <1> QED BY <1>0, <1>1, <1>2, ExecutionKeeps DEF CheckCancelled, Working, Pc, Executing, Timed, Boxed, Creating,
                                                  Sharing, Ready, Early, Owing, Wanted

LEMMA PrepareKeeps ==
  ASSUME IInv, NEW c \in Runs, NEW k \in Tokens, Prepare(c, k)
  PROVE  IInv'
  <1>0. c \in Commands /\ task \in Table
    BY Constants, TaskFacts DEF IInv
  <1>1. task' \in Table /\ ((Turns(c, k, "enter")) \/ (Turns(c, k, "failing") /\ task'[c][k].error = "abort"))
    BY <1>0, StepTurns, FailTurns DEF Prepare, Steps, Timed, Errors
  <1>2. TypeOK' /\ Rest
    BY <1>0, <1>1 DEF Prepare, IInv, TypeOK, Table, Rest, rowVars, boxVars, mapVars
  <1> QED BY <1>0, <1>1, <1>2, ExecutionKeeps DEF Prepare, Working, Pc, Executing, Timed, Boxed, Creating, Sharing,
                                                  Ready, Early, Owing, Wanted

LEMMA PrepareIsRefusedKeeps ==
  ASSUME IInv, NEW c \in Runs, NEW k \in Tokens, PrepareIsRefused(c, k)
  PROVE  IInv'
  <1>0. c \in Commands /\ task \in Table
    BY Constants, TaskFacts DEF IInv
  <1>1. task' \in Table /\ (Turns(c, k, "failing") /\ task'[c][k].error = "permanent")
    BY <1>0, StepTurns, FailTurns DEF PrepareIsRefused, Steps, Timed, Errors
  <1>2. TypeOK' /\ Rest
    BY <1>0, <1>1 DEF PrepareIsRefused, IInv, TypeOK, Table, Rest, rowVars, boxVars, mapVars, Fault
  <1> QED BY <1>0, <1>1, <1>2, ExecutionKeeps DEF PrepareIsRefused, Fault, Working, Pc, Executing, Timed, Boxed,
                                                  Creating, Sharing, Ready, Early, Owing, Wanted

LEMMA PromptReturnsKeeps ==
  ASSUME IInv, NEW c \in Runs, NEW k \in Tokens, PromptReturns(c, k)
  PROVE  IInv'
  <1>0. c \in Commands /\ task \in Table
    BY Constants, TaskFacts DEF IInv
  <1>1. task' \in Table /\ ((Turns(c, k, "tidy")) \/ (Turns(c, k, "failing") /\ task'[c][k].error = "transient"))
    BY <1>0, StepTurns, FailTurns DEF PromptReturns, Steps, Timed, Errors
  <1>2. TypeOK' /\ Rest
    BY <1>0, <1>1 DEF PromptReturns, IInv, TypeOK, Table, Rest, rowVars, boxVars, mapVars
  <1> QED BY <1>0, <1>1, <1>2, ExecutionKeeps DEF PromptReturns, Working, Pc, Executing, Timed, Boxed, Creating,
                                                  Sharing, Ready, Early, Owing, Wanted

LEMMA PromptRejectsKeeps ==
  ASSUME IInv, NEW c \in Runs, NEW k \in Tokens, PromptRejects(c, k)
  PROVE  IInv'
  <1>0. c \in Commands /\ task \in Table
    BY Constants, TaskFacts DEF IInv
  <1>1. task' \in Table /\ (Turns(c, k, "failing") /\ task'[c][k].error \in {"abort", "transient"})
    BY <1>0, StepTurns, FailTurns DEF PromptRejects, Steps, Timed, Errors
  <1>2. TypeOK' /\ Rest
    BY <1>0, <1>1 DEF PromptRejects, IInv, TypeOK, Table, Rest, rowVars, boxVars, mapVars, MayFail, Fault
  <1> QED BY <1>0, <1>1, <1>2, ExecutionKeeps DEF PromptRejects, Working, Pc, Executing, Timed, Boxed, Creating,
                                                  Sharing, Ready, Early, Owing, Wanted

LEMMA CallFailsKeeps ==
  ASSUME IInv, NEW c \in Runs, NEW k \in Tokens, CallFails(c, k)
  PROVE  IInv'
  <1>0. c \in Commands /\ task \in Table
    BY Constants, TaskFacts DEF IInv
  <1>1. task' \in Table /\ (Turns(c, k, "failing"))
    BY <1>0, StepTurns, FailTurns DEF CallFails, Steps, Timed, Errors
  <1>2. TypeOK' /\ Rest
    BY <1>0, <1>1 DEF CallFails, IInv, TypeOK, Table, Rest, rowVars, boxVars, mapVars, Fault
  <1> QED BY <1>0, <1>1, <1>2, ExecutionKeeps DEF CallFails, Fault, InTry, TypeOK, IInv, Working, Pc, Executing,
                                                  Timed, Boxed, Creating, Sharing, Ready, Early, Owing, Wanted

-----------------------------------------------------------------------------
(* Timers and reports. *)

LEMMA SameIsKept ==
  ASSUME IInv, TypeOK', NEW c \in Commands, NEW k \in Tokens, Pc(c, k) # "none", Rest,
         \A d \in Commands, j \in Tokens : Alike(d, j)
  PROVE  IInv'
  <1>1. Alike(c, k) /\ Others(c, k)
    BY DEF Others
  <1>2. Shaped(c, k)'
    BY <1>1 DEF IInv, IShaped, Shaped, Alike, Pc, Rest
  <1>3. Local(c, k)
    BY <1>1, <1>2 DEF Local, Goes, Rest, Alike, Pc
  <1>4. c \in Runs => Outcome(c, k)'
    <2>1. Holds(c, k)' = Holds(c, k)
      BY DEF Holds, Live, Rest
    <2> QED BY <1>1, <2>1 DEF IInv, IOutcome, Outcome, Alike, Pc, Rest
  <1>5. ASSUME c \in Runs, Forward(c), Pc(c, k)' = "status", task'[c][k].report.run = "queued", Holds(c, k)
        PROVE  prompts[c] = 0
    BY <1>1, <1>5 DEF Forward, Alike, Pc
  <1>6. c \in Runs => Owes(c, k)
    BY <1>1, <1>4, <1>5 DEF Owes, Begins, Alike, Pc, IInv, IOnce, Once
  <1> QED BY <1>1, <1>3, <1>6, LocalKeeps DEF Alike, Pc

LEMMA RaiseIsCause ==
  ASSUME NEW old \in DOMAIN Rank, NEW new \in DOMAIN Rank
  PROVE  Raise(old, new) \in DOMAIN Rank
  BY DEF Raise

LEMMA TimeoutKeeps ==
  ASSUME IInv, NEW c \in Runs, NEW k \in Tokens, Timeout(c, k)
  PROVE  IInv'
  <1>0. c \in Commands /\ task \in Table /\ "timeout" \in DOMAIN Rank
    BY Constants, TaskFacts DEF IInv, Rank
  <1>1. task' \in Table /\ \A d \in Commands, j \in Tokens : Alike(d, j)
    BY <1>0, CauseTurns DEF Timeout
  <1>2. TypeOK' /\ Rest
    BY <1>1 DEF Timeout, IInv, TypeOK, Table, Rest, rowVars, boxVars, mapVars
  <1>3. Pc(c, k) # "none"
    BY DEF Timeout, Timed, Pc
  <1> QED BY <1>0, <1>1, <1>2, <1>3, SameIsKept

LEMMA RenewKeeps ==
  ASSUME IInv, NEW c \in Runs, NEW k \in Tokens, Renew(c, k)
  PROVE  IInv'
  <1>0. c \in Commands /\ task \in Table /\ task[c][k].cause \in DOMAIN Rank
    BY Constants, TaskFacts DEF IInv, Tasks
  <1>1. PICK cause \in DOMAIN Rank : task' = [task EXCEPT ![c][k].cause = cause]
    <2>1. {"cancel", "lost"} \subseteq DOMAIN Rank
      BY DEF Rank
    <2> QED BY <1>0, <2>1, RaiseIsCause, Zenon DEF Renew
  <1>2. task' \in Table /\ \A d \in Commands, j \in Tokens : Alike(d, j)
    BY <1>0, <1>1, CauseTurns
  <1>3. TypeOK' /\ Rest
    BY <1>2 DEF Renew, IInv, TypeOK, Table, Rest, rowVars, boxVars, mapVars
  <1>4. Pc(c, k) # "none"
    BY DEF Renew, Timed, Pc
  <1> QED BY <1>0, <1>2, <1>3, <1>4, SameIsKept

LEMMA EventFailsKeeps ==
  ASSUME IInv, NEW c \in Runs, NEW k \in Tokens, EventFails(c, k)
  PROVE  IInv'
  <1>0. c \in Commands /\ task \in Table /\ task[c][k] \in Tasks
    BY Constants, TaskFacts DEF IInv
  <1> DEFINE t == [task[c][k] EXCEPT !.cause = Raise(task[c][k].cause, "abort"), !.badEvent = TRUE]
  <1>1. Raise(task[c][k].cause, "abort") \in DOMAIN Rank
    BY <1>0, RaiseIsCause DEF Tasks, Rank
  <1>2. t \in Tasks
    BY <1>0, <1>1 DEF Tasks
  <1>3. task' = [task EXCEPT ![c][k] = t]
    BY Zenon DEF EventFails
  <1>4. t.pc = task[c][k].pc /\ t.at = task[c][k].at /\ t.kind = task[c][k].kind
        /\ t.error = task[c][k].error /\ t.report = task[c][k].report
    BY <1>0 DEF Tasks
  <1> HIDE DEF t
  <1>5. task' \in Table /\ Others(c, k) /\ task'[c][k] = t
    BY <1>0, <1>2, <1>3, PutTask
  <1>6. \A d \in Commands, j \in Tokens : Alike(d, j)
    BY <1>4, <1>5 DEF Others, Alike
  <1>7. TypeOK' /\ Rest
    BY <1>5 DEF EventFails, MayFail, Fault, IInv, TypeOK, Table, Rest, rowVars, boxVars, mapVars
  <1>8. Pc(c, k) # "none"
    BY DEF EventFails, Timed, Pc
  <1> QED BY <1>0, <1>6, <1>7, <1>8, SameIsKept

LEMMA BeginKeeps ==
  ASSUME IInv, NEW c \in Runs, NEW k \in Tokens, Begin(c, k)
  PROVE  IInv'
  <1>0. c \in Commands /\ c \notin Cancels /\ task \in Table /\ task[c][k] \in Tasks
    BY Constants, TaskFacts DEF IInv
  <1> DEFINE t == [task[c][k] EXCEPT !.pc = "admit", !.kind = "execute"]
  <1>2. t \in Tasks
    BY <1>0 DEF Tasks, Steps, Timed
  <1>3. task' = [task EXCEPT ![c][k] = t]
    BY Zenon DEF Begin
  <1>4. t.pc = "admit" /\ t.at = task[c][k].at /\ t.kind = "execute"
    BY <1>0 DEF Tasks
  <1> HIDE DEF t
  <1>5. task' \in Table /\ Others(c, k) /\ task'[c][k] = t
    BY <1>0, <1>2, <1>3, PutTask
  <1>6. Pc(c, k) = "run" /\ Pc(c, k)' = "admit"
    BY <1>4, <1>5 DEF Begin, Working, Pc
  <1>7. active' \in [Runners -> [Runs -> {0} \cup Tokens]] /\ Rest
    <2>1. faults \in Nat /\ active \in [Runners -> [Runs -> {0} \cup Tokens]]
      BY DEF IInv, TypeOK
    <2>2. active' \in [Runners -> [Runs -> {0} \cup Tokens]]
      BY <2>1 DEF Begin
    <2>3. Rest
      BY <2>1 DEF Begin, Rest, rowVars, boxVars
    <2> QED BY <2>2, <2>3
  <1>71. TypeOK'
    BY <1>5, <1>7 DEF Begin, IInv, TypeOK, Table, rowVars, boxVars
  <1>72. Shaped(c, k)
    BY <1>0 DEF IInv, IShaped
  <1>8. Shaped(c, k)'
    BY <1>0, <1>4, <1>5, <1>6, <1>7, <1>72 DEF Shaped, Rest, Pc
  <1>9. Local(c, k)
    BY <1>0, <1>4, <1>5, <1>6, <1>7, <1>8 DEF Local, Goes, Rest
  <1>10. Owes(c, k)
    BY <1>6 DEF Owes, Begins, Outcome, Boxed, Creating, Ready, Early, Sharing, Owing
  <1> QED BY <1>0, <1>6, <1>71, <1>9, <1>10, LocalKeeps

\* A task that only reports.
LEMMA ReportKeeps ==
  ASSUME IInv, TypeOK', NEW c \in Commands, NEW k \in Tokens, NEW report \in Reported, Rest,
         Turns(c, k, IF report.run = "none" THEN "settle" ELSE "status"), task'[c][k].report = report,
         Pc(c, k) \in {"run", "recover", "cancel"},
         report.run # "none" => /\ report \in ReportSet
                                /\ c \in Cancels => report \in {IsUnknown, IsCancelled, GoesBack}
                                /\ Pc(c, k) = "cancel" => report # GoesBack,
         c \in Runs /\ report.run = "none" =>
            /\ report.cmd = "acknowledged" => run[c] = "completed"
            /\ report.cmd = "cancelled" => run[c] = "cancelled"
            /\ report.cmd = "unknown" => run[c] \in {"unknown", "timed_out"}
            /\ report.cmd = "dead_lettered" => run[c] \in {"failed", "timed_out"}
            /\ report.cmd \in {"acknowledged", "cancelled", "unknown", "dead_lettered"},
         c \in Runs /\ report.run = "queued" => (Forward(c) => prompts[c] = 0)
  PROVE  IInv'
  <1>1. Turns(c, k, IF report.run = "none" THEN "settle" ELSE "status") /\ task'[c][k].report = report
    OBVIOUS
  <1>2. Pc(c, k)' = (IF report.run = "none" THEN "settle" ELSE "status")
    BY <1>1 DEF Turns, Pc
  <1>3. Shaped(c, k)'
    <2>1. Shaped(c, k)
      BY DEF IInv, IShaped
    <2> QED BY <1>1, <1>2, <2>1 DEF Turns, Rest, Shaped, Pc, Executing, Timed
  <1>4. Local(c, k)
    BY <1>1, <1>2, <1>3 DEF Local, Goes, Turns, Rest
  <1>5. c \in Runs => Outcome(c, k)'
    BY <1>1, <1>2 DEF Outcome, Rest
  <1>6. c \in Runs => Owes(c, k)
    BY <1>1, <1>2, <1>5 DEF Owes, Begins, Boxed, Creating, Ready, Early, Sharing, Owing
  <1> QED BY <1>2, <1>4, <1>6, LocalKeeps

LEMMA RefuseKeeps ==
  ASSUME IInv, NEW c \in Runs, NEW k \in Tokens, Refuse(c, k)
  PROVE  IInv'
  <1>0. c \in Commands /\ c \notin Cancels /\ task \in Table
    BY Constants, TaskFacts DEF IInv
  <1>1. PICK report \in {IsRejected, HasExpired} : Reports(c, k, report)
    BY DEF Refuse
  <1>2. report \in Reported /\ report \in ReportSet /\ report.run \notin {"none", "queued"}
    BY ReportsAreKnown DEF ReportSet, IsRejected, HasExpired, Report
  <1>3. TypeOK' /\ Rest
    BY <1>0, <1>1, <1>2, ReportTurns DEF Refuse, IInv, TypeOK, Table, Rest, rowVars, boxVars, mapVars
  <1>4. Pc(c, k) = "run"
    BY DEF Refuse, Working, Pc
  <1> QED BY <1>0, <1>1, <1>2, <1>3, <1>4, ReportTurns, ReportKeeps

LEMMA CancelReportIsKnown ==
  ASSUME NEW r
  PROVE  /\ CancelReport(r) \in Reported
         /\ CancelReport(r).run # "none" => CancelReport(r) \in {IsUnknown, IsCancelled}
  <1>1. {"unknown", "cancelled"} \subseteq Settled
    BY DEF Settled
  <1>2. CancelReport(r) \in {IsUnknown, IsCancelled, OnlySettle("unknown"), OnlySettle("cancelled")}
    BY DEF CancelReport
  <1> QED BY <1>1, <1>2, ReportsAreKnown DEF OnlySettle

LEMMA ReportsDiffer ==
  {IsUnknown, IsCancelled} \subseteq ReportSet \ {GoesBack}
  BY DEF IsUnknown, IsCancelled, GoesBack, Report, ReportSet

LEMMA CancelElsewhereKeeps ==
  ASSUME IInv, NEW c \in Cancels, NEW k \in Tokens, CancelElsewhere(c, k)
  PROVE  IInv'
  <1>0. c \in Commands /\ c \notin Runs /\ task \in Table
    BY Constants, TaskFacts DEF IInv
  <1>1. PICK report \in Reported :
           Reports(c, k, report) /\ (report.run # "none" => report \in {IsUnknown, IsCancelled})
    BY CancelReportIsKnown DEF CancelElsewhere
  <1>3. TypeOK' /\ Rest
    BY <1>0, <1>1, ReportTurns DEF CancelElsewhere, IInv, TypeOK, Table, Rest, rowVars, boxVars, mapVars
  <1>4. Pc(c, k) = "cancel"
    BY DEF CancelElsewhere, Working, Pc
  <1> QED BY <1>0, <1>1, <1>3, <1>4, ReportTurns, ReportKeeps, ReportsDiffer

LEMMA ReportingIsTask ==
  ASSUME NEW t \in Tasks, NEW report \in Reported
  PROVE  /\ Reporting(t, report) \in Tasks
         /\ Reporting(t, report).pc = IF report.run = "none" THEN "settle" ELSE "status"
         /\ Reporting(t, report).report = report
         /\ Reporting(t, report).at = t.at /\ Reporting(t, report).kind = t.kind
  BY DEF Tasks, Steps, Outside, Reported, Reporting

LEMMA CancelHereKeeps ==
  ASSUME IInv, NEW c \in Cancels, NEW k \in Tokens, CancelHere(c, k)
  PROVE  IInv'
  <1>0. c \in Commands /\ c \notin Runs /\ task \in Table /\ task[c][k] \in Tasks
    BY Constants, TaskFacts DEF IInv
  <1>a. PICK r \in Runs, victim \in Tokens : \E aborted :
           /\ aborted = [task EXCEPT ![r][victim].cause = Raise(@, "abort")]
           /\ task' = [aborted EXCEPT ![c][k] = Reporting(@, OnlySettle("cancelled"))]
    <2>1. target[c] \in Runs
      BY DEF IInv, TypeOK
    <2>2. At(c, k) \in Runners
      BY <1>0 DEF IInv, IShaped, Shaped, CancelHere, Working, Pc, At
    <2>3. active[At(c, k)][target[c]] \in {0} \cup Tokens
      BY <2>1, <2>2 DEF IInv, TypeOK
    <2> QED BY <2>1, <2>3, Zenon DEF CancelHere
  <1>1. PICK aborted :
           /\ aborted = [task EXCEPT ![r][victim].cause = Raise(@, "abort")]
           /\ task' = [aborted EXCEPT ![c][k] = Reporting(@, OnlySettle("cancelled"))]
    BY <1>a
  <1>2. r # c /\ r \in Commands /\ task[r][victim] \in Tasks
    BY <1>0, Constants, TaskFacts DEF IInv
  <1>3. PICK u \in Tasks :
           /\ u.pc = task[r][victim].pc /\ u.at = task[r][victim].at /\ u.kind = task[r][victim].kind
           /\ u.error = task[r][victim].error /\ u.report = task[r][victim].report
           /\ aborted = [task EXCEPT ![r][victim] = u]
    <2>1. task[r][victim].cause \in DOMAIN Rank /\ "abort" \in DOMAIN Rank
      BY <1>2 DEF Tasks, Rank
    <2>2. Raise(task[r][victim].cause, "abort") \in DOMAIN Rank
      BY <2>1, RaiseIsCause
    <2> DEFINE v == [task[r][victim] EXCEPT !.cause = Raise(task[r][victim].cause, "abort")]
    <2>3. v \in Tasks /\ v.pc = task[r][victim].pc /\ v.at = task[r][victim].at /\ v.kind = task[r][victim].kind
          /\ v.error = task[r][victim].error /\ v.report = task[r][victim].report
      BY <1>2, <2>2 DEF Tasks
    <2>4. aborted = [task EXCEPT ![r][victim] = v]
      BY <1>1
    <2> HIDE DEF v
    <2> QED BY <2>3, <2>4
  <1>4. aborted \in Table /\ \A d \in Commands, j \in Tokens :
             aborted[d][j] = IF d = r /\ j = victim THEN u ELSE task[d][j]
    <2>1. task \in Table /\ aborted = [task EXCEPT ![r][victim] = u]
      BY <1>0, <1>3
    <2> QED BY <1>2, <2>1 DEF Table
  <1>5. OnlySettle("cancelled") \in Reported /\ OnlySettle("cancelled").run = "none"
    BY ReportsAreKnown DEF Settled, OnlySettle
  <1>6. PICK t \in Tasks :
           /\ t.pc = "settle" /\ t.report = OnlySettle("cancelled")
           /\ t.at = task[c][k].at /\ t.kind = task[c][k].kind
           /\ task' = [aborted EXCEPT ![c][k] = t]
    <2>1. aborted[c][k] = task[c][k]
      BY <1>0, <1>2, <1>4
    <2> DEFINE t == Reporting(task[c][k], OnlySettle("cancelled"))
    <2>2. t \in Tasks /\ t.pc = "settle" /\ t.report = OnlySettle("cancelled") /\ t.at = task[c][k].at
          /\ t.kind = task[c][k].kind
      BY <1>0, <1>5, ReportingIsTask
    <2>3. task' = [aborted EXCEPT ![c][k] = t]
      BY <1>1, <2>1, Zenon
    <2> HIDE DEF t
    <2> QED BY <2>2, <2>3
  <1>7. task' \in Table /\ \A d \in Commands, j \in Tokens :
             task'[d][j] = IF d = c /\ j = k THEN t ELSE aborted[d][j]
    <2>1. aborted \in Table /\ task' = [aborted EXCEPT ![c][k] = t]
      BY <1>4, <1>6
    <2> QED BY <1>0, <2>1 DEF Table
  <1>8. Turns(c, k, "settle") /\ task'[c][k].report = OnlySettle("cancelled")
    <2>1. ASSUME NEW d \in Commands, NEW j \in Tokens, d # c \/ j # k
          PROVE  Alike(d, j)
      <3>1. task'[d][j] = IF d = r /\ j = victim THEN u ELSE task[d][j]
        BY <1>4, <1>7, <2>1
      <3> QED BY <1>3, <3>1 DEF Alike
    <2>2. task'[c][k] = t
      BY <1>0, <1>7
    <2> QED BY <1>6, <2>1, <2>2 DEF Turns, Others
  <1>9. TypeOK' /\ Rest
    <2>1. UNCHANGED <<run, cmd, target, session, box, vm, web, poll, draining, inFlight, active, boxes, prompts,
               faults>>
      BY DEF CancelHere, rowVars, boxVars, mapVars
    <2> QED BY <1>7, <2>1 DEF IInv, TypeOK, Table, Rest
  <1>10. Pc(c, k) = "cancel"
    BY DEF CancelHere, Working, Pc
  <1> QED BY <1>0, <1>5, <1>8, <1>9, <1>10, ReportKeeps

-----------------------------------------------------------------------------
(* The end of a task. *)

Leaves == {"bind", "limit"} \cup Owing

LEMMA Sole ==
  ASSUME NEW c, Kept(c), NEW k \in Tokens, NEW j \in Tokens, Pc(c, k) # "none", Pc(c, j) # "none"
  PROVE  k = j
  BY DEF Kept, Holds

LEMMA FinishKeepsClean ==
  ASSUME IInv, TypeOK', NEW c \in Commands, NEW k \in Tokens, Finished(c, k), Pc(c, k) # "none",
         UNCHANGED <<box, vm>>, faults <= faults',
         \A r \in Runs : run'[r] = "completed" => run[r] = "completed" \/ (faults' = 0 => r \notin vm),
         c \in Runs /\ faults' = 0 =>
            Pc(c, k) \notin Leaves /\ ~(Pc(c, k) = "failing" /\ Wanted(task[c][k].error))
  PROVE  IClean'
  <1> SUFFICES ASSUME NEW r \in Runs, faults' = 0 PROVE Clean(r)'
    BY DEF IClean, Clean
  <1>0. r \in Commands /\ faults = 0 /\ Pc(c, k)' = "none"
    BY Constants DEF IInv, TypeOK, Finished, Pc
  <1>1. Clean(r) /\ WellKept(r)
    BY <1>0 DEF IInv, IClean, IOnce, Once
  <1>2. CASE c = r
    <2>1. \A i \in Tokens : Pc(r, i)' = "none"
      BY <1>0, <1>1, <1>2, Sole DEF WellKept, Finished, Others, Alike, Pc
    <2>2. ~\E i \in Tokens :
                 \/ Pc(r, i) \in {"bind", "limit"}
                 \/ /\ Pc(r, i) \in Owing \cup {"failing"}
                    /\ r \in boxes[task[r][i].at]
                    /\ Pc(r, i) = "failing" => Wanted(task[r][i].error)
      BY <1>0, <1>1, <1>2, Sole DEF WellKept, Leaves, Owing
    <2> QED BY <1>0, <1>1, <2>1, <2>2 DEF Clean, Owing
  <1>3. CASE c # r
    <2>1. \A i \in Tokens : Alike(r, i)
      BY <1>0, <1>3 DEF Finished, Others
    <2>2. \A w \in Runners : r \in boxes'[w] <=> r \in boxes[w]
      <3>1. c \in Runs => RunOf(c) # r
        BY <1>3, Constants
      <3>2. c \in Cancels => task[c][k].kind # "execute"
        BY <1>0 DEF IInv, IShaped, Shaped
      <3> QED BY <3>1, <3>2 DEF Finished, Commands
    <2>3. \A i \in Tokens : Pc(r, i) # "none" => task[r][i].at \in Runners
      BY <1>0 DEF IInv, IShaped, Shaped
    <2>4. ASSUME r \in vm, box[r].status # "unknown"
          PROVE  \E i \in Tokens :
                 \/ Pc(r, i)' \in {"bind", "limit"}
                 \/ /\ Pc(r, i)' \in Owing \cup {"failing"}
                    /\ r \in boxes'[task'[r][i].at]
                    /\ Pc(r, i)' = "failing" => Wanted(task'[r][i].error)
      <3>1. PICK i \in Tokens :
                 \/ Pc(r, i) \in {"bind", "limit"}
                 \/ /\ Pc(r, i) \in Owing \cup {"failing"}
                    /\ r \in boxes[task[r][i].at]
                    /\ Pc(r, i) = "failing" => Wanted(task[r][i].error)
        BY <1>0, <1>1, <2>4 DEF Clean, Owing
      <3>2. Pc(r, i) # "none"
        BY <3>1 DEF Owing
      <3> QED BY <2>1, <2>2, <2>3, <3>1, <3>2 DEF Alike, Pc
    <2>5. \A i \in Tokens : /\ Pc(r, i)' \in Owing => r \in boxes'[task'[r][i].at]
                            /\ Pc(r, i)' = "complete" => r \notin vm
      BY <1>0, <1>1, <2>1, <2>2, <2>3 DEF Alike, Pc, Clean, Owing
    <2> QED BY <1>0, <1>1, <2>4, <2>5 DEF Clean, Owing
  <1> QED BY <1>2, <1>3

LEMMA FinishKeeps ==
  ASSUME IInv, TypeOK', NEW c \in Commands, NEW k \in Tokens, Finished(c, k), Pc(c, k) # "none",
         UNCHANGED <<run, cmd, target, box, vm, web, poll, draining, prompts>>, faults <= faults',
         c \in Runs /\ faults' = 0 =>
            Pc(c, k) \notin Leaves /\ ~(Pc(c, k) = "failing" /\ Wanted(task[c][k].error)),
         c \in Cancels /\ faults' = faults /\ Kept(c) /\ Answered(c) => run[target[c]] \in Ended
  PROVE  IInv'
  <1> USE DEF IInv
  <1>0. Pc(c, k)' = "none"
    BY DEF Finished, Pc
  <1>1. Follows /\ NoneNew
    BY <1>0 DEF Finished, Others, Alike, Follows, NoneNew, Pc
  <1>2. IRows'
    BY RowsKept
  <1>3. IPolled'
    BY <1>1, PolledKept DEF NoneNew
  <1>4. IShaped'
    BY <1>0, ShapedKept DEF Finished, Shaped
  <1>5. IOutcome'
    BY <1>0, OutcomeKept DEF Finished, Outcome
  <1>6. IMachine'
    BY <1>0, MachineKept DEF Finished, Boxed, Creating
  <1>7. IOnce'
    <2> SUFFICES ASSUME NEW r \in Runs PROVE Once(r)'
      BY DEF IOnce
    <2>0. r \in Commands
      BY Constants
    <2>1. ASSUME WellKept(r) PROVE WellKept(r)'
      <3>1. Kept(r)'
        BY <1>1, <2>0, <2>1, KeptKept DEF WellKept
      <3>2. \A w \in Runners : r \in boxes'[w] => r \in boxes[w]
        BY DEF Finished
      <3>3. c = r => \/ Pc(c, k) \notin Sharing \/ task[c][k].kind # "execute" \/ r \notin boxes'[At(c, k)]
        <4>1. At(c, k) \in Runners
          BY DEF IShaped, Shaped, At
        <4> QED BY <4>1, Constants DEF Finished
      <3> QED BY <1>0, <2>1, <3>1, <3>2, <3>3, WellKeptKept DEF Finished, Creating, Ready
    <2>2. ASSUME Forward(r) PROVE Forward(r)'
      <3>1. \A i \in Tokens : Holds(r, i)' = Holds(r, i)
        BY DEF Holds, Live
      <3>2. \A i \in Tokens : Holds(r, i) /\ Pc(r, i)' = "start" => run'[r] \in {"running"} \cup Ended
        BY <1>0, <2>0, <2>2 DEF Finished, Others, Alike, Forward, Pc
      <3>3. prompts[r] = 1 => run'[r] \in {"running", "awaiting_approval"} \cup Ended
        BY <2>2 DEF Forward
      <3>4. Pc(c, k)' \notin Early /\ Pc(c, k)' # "status"
        BY <1>0 DEF Early, Creating, Ready
      <3> QED BY <2>2, <3>1, <3>2, <3>3, <3>4, ForwardKept DEF Finished
    <2>3. ASSUME NEW d \in Cancels, Kept(d), Answered(d), faults' = faults PROVE Kept(d)' /\ Answered(d)'
      <3>1. d \in Commands
        BY Constants
      <3>2. CASE d # c
        <4>1. \A i \in Tokens : Pc(d, i) # "none" => Pc(d, i)' # "none" /\ task'[d][i].kind = task[d][i].kind
          BY <3>1, <3>2 DEF Finished, Others, Alike, Pc
        <4> QED BY <1>1, <2>3, <4>1, AnsweredKept, <3>1, KeptKept
      <3>3. CASE d = c
        BY <1>1, <2>3, <3>1, <3>3, KeptKept DEF Answered
      <3> QED BY <3>2, <3>3
    <2>4. \A d \in Cancels : cmd[d].attempts <= cmd'[d].attempts
      BY Constants, TaskFacts
    <2> QED BY <2>1, <2>2, <2>3, <2>4, OnceKept DEF IOnce
  <1>8. IClean'
    BY FinishKeepsClean
  <1>9. VisibleMachine' /\ OutcomesAgree'
    BY DEF VisibleMachine, OutcomesAgree
  <1> QED BY <1>2, <1>3, <1>4, <1>5, <1>6, <1>7, <1>8, <1>9

LEMMA Ending ==
  ASSUME IInv, NEW c \in Commands, NEW k \in Tokens, Finish(c, k), Pc(c, k) # "none"
  PROVE  /\ Finished(c, k) /\ task' \in Table
         /\ inFlight' \in [Runners -> [Runs -> {NoWork} \cup [cmd : Commands, token : Tokens]]]
         /\ active' \in [Runners -> [Runs -> {0} \cup Tokens]]
         /\ boxes' \in [Runners -> SUBSET Runs]
  <1>1. At(c, k) \in Runners
    BY DEF IInv, IShaped, Shaped, At
  <1> QED BY <1>1, FinishEnds DEF IInv

LEMMA LeaveKeeps ==
  ASSUME IInv, NEW c \in Runs, NEW k \in Tokens, Leave(c, k)
  PROVE  IInv'
  <1>0. c \in Commands /\ c \notin Cancels /\ Pc(c, k) = "leave"
    BY Constants DEF Leave, Working, Pc
  <1>1. TypeOK'
    BY <1>0, Ending DEF Leave, IInv, TypeOK, Table, rowVars, boxVars
  <1>2. faults <= faults'
    BY DEF Leave, IInv, TypeOK
  <1> QED BY <1>0, <1>1, <1>2, Ending, FinishKeeps DEF Leave, Leaves, Owing, rowVars, boxVars

LEMMA ThrowKeeps ==
  ASSUME IInv, NEW c \in Commands, NEW k \in Tokens, Throw(c, k)
  PROVE  IInv'
  <1>0. Pc(c, k) # "none"
    BY DEF Throw, Outside, Pc
  <1>1. TypeOK'
    BY <1>0, Ending DEF Throw, Fault, IInv, TypeOK, Table, rowVars, boxVars
  <1>2. faults' = faults + 1 /\ faults \in Nat
    BY DEF Throw, Fault, IInv, TypeOK
  <1> QED BY <1>0, <1>1, <1>2, Ending, FinishKeeps DEF Throw, rowVars, boxVars

LEMMA StartLeaseKeeps ==
  ASSUME IInv, NEW c \in Commands, NEW k \in Tokens, StartLease(c, k)
  PROVE  IInv'
  <1>0. Pc(c, k) = "leased" /\ task \in Table /\ task[c][k] \in Tasks
    BY TaskFacts DEF StartLease, Working, Pc, IInv
  <1>1. CASE ~Holds(c, k)
    <2>1. Finish(c, k)
      BY <1>1 DEF StartLease
    <2>2. TypeOK'
      BY <1>0, <2>1, Ending DEF StartLease, IInv, TypeOK, Table, rowVars, boxVars
    <2>3. faults <= faults'
      BY DEF StartLease, IInv, TypeOK
    <2>4. ~Kept(c)
      BY <1>0, <1>1 DEF Kept
    <2> QED BY <1>0, <2>1, <2>2, <2>3, <2>4, Ending, FinishKeeps DEF StartLease, Leaves, Owing, rowVars, boxVars
  <1>2. CASE Holds(c, k)
    <2>0. Shaped(c, k)
      BY DEF IInv, IShaped
    <2>1. PICK pc \in {"run", "recover", "cancel"} : Step(c, k, pc) /\ pc = task[c][k].kind
      BY <1>0, <1>2, <2>0 DEF StartLease, Shaped, Tasks
    <2>2. pc \in Steps
      BY <2>1 DEF Steps, Outside
    <2>3. task' \in Table /\ Turns(c, k, pc)
      BY <1>0, <2>1, <2>2, StepTurns
    <2>4. TypeOK' /\ Rest
      BY <1>2, <2>3 DEF StartLease, IInv, TypeOK, Table, Rest, rowVars, boxVars, mapVars
    <2>5. Pc(c, k)' = pc
      BY <2>3 DEF Turns, Pc
    <2>6. Shaped(c, k)'
      BY <1>0, <2>0, <2>1, <2>3, <2>4, <2>5 DEF Shaped, Turns, Rest, Pc, Executing, Timed
    <2>7. Local(c, k)
      BY <1>0, <2>3, <2>4, <2>5, <2>6 DEF Local, Goes, Turns, Rest
    <2>8. c \in Runs => Owes(c, k)
      BY <1>0, <2>5 DEF Owes, Begins, Outcome, Boxed, Creating, Ready, Early, Sharing, Owing
    <2> QED BY <2>4, <2>5, <2>7, <2>8, LocalKeeps
  <1> QED BY <1>1, <1>2

-----------------------------------------------------------------------------
(* Steps that move the run. *)

LEMMA EndedStays ==
  /\ \A s \in RunStatus : Allowed[s] \subseteq RunStatus
  /\ \A s \in Ended : Allowed[s] = {s}
  /\ \A s \in RunStatus \ Ended : {"unknown", "cancelled"} \subseteq Allowed[s]
  /\ Ended \subseteq RunStatus /\ "none" \notin RunStatus
  BY DEF RunStatus, Allowed, Ended

\* The holder of a lease moves the run, and its task goes on.
LEMMA MoveKeeps ==
  ASSUME IInv, TypeOK', NEW c \in Commands, NEW k \in Tokens, NEW status \in RunStatus \ {"completed"},
         Goes(c, k), Shaped(c, k)', UNCHANGED <<box, vm, boxes>>,
         CanMove(c, k, status), Move(c, status),
         c \in Runs => /\ Owes(c, k)
                       /\ Forward(c) /\ prompts[c] = 1 => status \in {"running", "awaiting_approval"} \cup Ended
                       /\ Pc(c, k)' = "start" => status = "running",
         c \in Cancels => /\ status \in {"unknown", "cancelled", "queued"}
                          /\ status = "queued" => Pc(c, k) = "status" /\ task[c][k].report = GoesBack
  PROVE  IInv'
  <1> USE DEF IInv
  <1> DEFINE m == RunOf(c)
  <1>0. /\ m \in Runs /\ run[m] \in RunStatus /\ Holds(c, k) /\ status \in Allowed[run[m]]
        /\ \A r \in Runs : run'[r] = IF r = m THEN status ELSE run[r]
    <2>1. m \in Runs
      BY RunOfIsRun
    <2>2. cmd[c].status = "leased"
      BY DEF CanMove, Holds, Live
    <2>3. run[m] # "none"
      BY <2>2 DEF IRows, Known
    <2> QED BY <2>1, <2>3 DEF CanMove, Move, TypeOK
  <1> HIDE DEF m
  <1>1. /\ \A r \in Runs : run[r] \in Ended => run'[r] = run[r]
        /\ \A r \in Runs : run'[r] # run[r] => r = m /\ run[r] \notin Ended /\ run'[r] = status
    BY <1>0, EndedStays
  <1>2. Follows
    BY <1>0, <1>1, EndedStays DEF Follows
  <1>3. NoneNew
    BY DEF Goes, Others, Alike, NoneNew, Pc
  <1>4. IRows'
    <2>1. \A r \in Runs : run'[r] = run[r] \/ (run[r] # "none" /\ run'[r] # "none")
      BY <1>0, EndedStays
    <2> QED BY <2>1, RowsKept DEF Goes
  <1>5. IPolled'
    BY <1>3, PolledKept DEF Goes, NoneNew
  <1>6. IShaped'
    BY ShapedKept DEF Goes
  <1>7. \A i \in Tokens : c \in Runs /\ Holds(c, i) => i = k
    BY <1>0 DEF Holds
  <1>8. (c \in Runs => m = c) /\ (c \in Cancels => status \in {"unknown", "cancelled", "queued"})
    BY Constants DEF m
  <1>9. IOutcome'
    <2> SUFFICES ASSUME NEW r \in Runs, NEW i \in Tokens, r # c \/ i # k PROVE Outcome(r, i)'
      BY DEF IOutcome, Owes
    <2>1. Alike(r, i) /\ Outcome(r, i) /\ Holds(r, i)' = Holds(r, i)
      BY Constants DEF Goes, Others, IOutcome, Holds, Live
    <2>2. CASE run'[r] = run[r]
      BY <2>1, <2>2 DEF Outcome, Alike, Pc
    <2>3. CASE run'[r] # run[r]
      <3>1. r = m /\ run[r] \notin Ended /\ run'[r] = status
        BY <1>1, <2>3
      <3>2. Holds(r, i) => status \notin Occupied \cup {"completed"}
        <4>1. CASE c \in Runs
          BY <1>7, <1>8, <3>1, <4>1
        <4>2. CASE c \in Cancels
          BY <1>8, <4>2 DEF Occupied
        <4> QED BY <4>1, <4>2 DEF Commands
      <3> QED BY <2>1, <3>1, <3>2 DEF Outcome, Alike, Pc, Ended
    <2> QED BY <2>2, <2>3
  <1>10. OutcomesAgree'
    <2> SUFFICES ASSUME NEW r \in Runs, run'[r] # run[r]
                 PROVE  /\ cmd[r].status \notin {"acknowledged", "cancelled", "unknown"}
                        /\ run'[r] # "completed"
                        /\ cmd[r].status = "dead_lettered" => run'[r] \notin Occupied
      BY DEF OutcomesAgree, Goes
    <2>1. r = m /\ run[r] \notin Ended /\ run'[r] = status
      BY <1>1
    <2>2. cmd[r].status \notin {"acknowledged", "cancelled", "unknown"}
      BY <2>1 DEF OutcomesAgree, Ended
    <2>3. CASE c \in Runs
      BY <1>0, <1>8, <2>1, <2>2, <2>3 DEF Holds, Live
    <2>4. CASE c \in Cancels
      BY <1>8, <2>1, <2>2, <2>4 DEF Occupied
    <2> QED BY <2>3, <2>4 DEF Commands
  <1>11. IMachine'
    BY MachineKept DEF Goes, Owes
  <1>12. IOnce'
    <2>1. ASSUME NEW r \in Runs, Forward(r), NoRequeue(r) PROVE Prompted(r)
      <3>1. r \in Commands /\ \A i \in Tokens : r # c \/ i # k => Pc(r, i)' = Pc(r, i)
        BY Constants DEF Goes, Others, Alike, Pc
      <3>2. CASE run'[r] = run[r]
        <4>1. r = c => Holds(r, k) /\ (Pc(r, k)' = "start" => status = "running" /\ run'[r] = status)
          BY <1>0, <1>8
        <4> QED BY <2>1, <3>1, <3>2, <4>1 DEF Forward, Prompted
      <3>3. CASE run'[r] # run[r]
        <4>1. r = m /\ run[r] \notin Ended /\ run'[r] = status
          BY <1>1, <3>3
        <4>2. CASE c \in Runs
          BY <1>7, <1>8, <2>1, <4>1, <4>2 DEF Prompted
        <4>3. CASE c \in Cancels
          <5>1. status # "queued"
            BY <2>1, <4>1, <4>3, Constants DEF NoRequeue, m
          <5> QED BY <1>8, <4>1, <4>3, <5>1 DEF Prompted, Ended
        <4> QED BY <4>2, <4>3 DEF Commands
      <3> QED BY <3>2, <3>3
    <2> QED BY <1>2, <2>1, OnceTurn DEF Owes
  <1>13. IClean'
    <2> SUFFICES ASSUME NEW r \in Runs PROVE Clean(r)'
      BY DEF IClean
    <2>1. run'[r] = "completed" => run[r] = "completed"
      BY <1>1
    <2> QED BY <2>1, CleanKept DEF Goes, Owes, IClean
  <1>14. VisibleMachine'
    BY DEF VisibleMachine
  <1> QED BY <1>4, <1>5, <1>6, <1>9, <1>10, <1>11, <1>12, <1>13, <1>14

LEMMA HolderOpen ==
  ASSUME IInv, NEW c \in Runs, NEW k \in Tokens, Forward(c), run[c] \in {"queued", "provisioning"}
  PROVE  prompts[c] = 0
  <1>1. prompts[c] \in Nat
    BY DEF IInv, TypeOK
  <1>2. prompts[c] <= 1 /\ prompts[c] # 1
    BY DEF Forward, Ended
  <1> QED BY <1>1, <1>2

LEMMA AdmitKeeps ==
  ASSUME IInv, NEW c \in Runs, NEW k \in Tokens, Admit(c, k)
  PROVE  IInv'
  <1>0. c \in Commands /\ c \notin Cancels /\ task \in Table /\ Pc(c, k) = "admit" /\ RunOf(c) = c
    BY Constants, TaskFacts DEF IInv, Admit, Working, Pc
  <1>1. CASE \E error \in {"draining", "lost"} : Fails(c, k, error) /\ UNCHANGED run
    <2>1. task' \in Table /\ Turns(c, k, "failing")
      BY <1>0, <1>1, FailTurns DEF Errors
    <2>2. TypeOK' /\ Rest
      BY <1>1, <2>1 DEF Admit, IInv, TypeOK, Table, Rest, rowVars, boxVars, mapVars
    <2> QED BY <1>0, <2>1, <2>2, ExecutionKeeps DEF Executing, Timed, Boxed, Creating, Sharing, Ready, Early, Owing
  <1>2. CASE CanMove(c, k, "provisioning") /\ Move(c, "provisioning") /\ Step(c, k, "check")
    <2>1. task' \in Table /\ Turns(c, k, "check")
      BY <1>0, <1>2, StepTurns DEF Steps, Timed
    <2>2. "provisioning" \in RunStatus
      BY DEF RunStatus, Allowed
    <2>3. TypeOK' /\ UNCHANGED <<cmd, target, box, vm, web, poll, draining, boxes, prompts>> /\ faults <= faults'
      <3>1. UNCHANGED <<cmd, target, session, box, vm, web, poll, draining, inFlight, active, boxes, prompts,
                 faults>>
        BY DEF Admit, boxVars, mapVars
      <3>2. faults \in Nat /\ run' \in [Runs -> RunStatus \cup {"none"}]
        BY <1>0, <1>2, <2>2 DEF Move, IInv, TypeOK
      <3> QED BY <2>1, <3>1, <3>2 DEF IInv, TypeOK, Table
    <2>4. Shaped(c, k)' /\ Outcome(c, k)'
      BY <1>0, <2>1, <2>3, RunningIsShaped DEF Executing, Timed
    <2>5. run[c] \in {"queued", "provisioning"}
      <3>1. run[c] \in RunStatus
        BY <1>0, <1>2 DEF IInv, IRows, Known, CanMove, Holds, Live, TypeOK
      <3> QED BY <1>0, <1>2, <3>1 DEF CanMove, RunStatus, Allowed
    <2>6. Pc(c, k)' = "check"
      BY <2>1 DEF Turns, Pc
    <2>7. Goes(c, k)
      BY <1>0, <2>1, <2>3, <2>6 DEF Goes, Turns
    <2>8. Forward(c) => prompts[c] = 0
      BY <2>5, HolderOpen
    <2>9. Owes(c, k)
      BY <1>0, <2>4, <2>6, <2>8 DEF Owes, Begins, Boxed, Creating, Sharing, Ready, Owing
    <2> QED BY <1>0, <1>2, <2>2, <2>3, <2>4, <2>6, <2>7, <2>8, <2>9, MoveKeeps
  <1> QED BY <1>1, <1>2 DEF Admit

LEMMA EnterKeeps ==
  ASSUME IInv, NEW c \in Runs, NEW k \in Tokens, Enter(c, k)
  PROVE  IInv'
  <1>0. c \in Commands /\ c \notin Cancels /\ task \in Table /\ Pc(c, k) = "enter" /\ RunOf(c) = c
    BY Constants, TaskFacts DEF IInv, Enter, Working, Pc
  <1>1. CASE Fails(c, k, "lost") /\ UNCHANGED run
    <2>1. task' \in Table /\ Turns(c, k, "failing") /\ task'[c][k].error = "lost"
      BY <1>0, <1>1, FailTurns DEF Errors
    <2>2. TypeOK' /\ Rest
      BY <1>1, <2>1 DEF Enter, IInv, TypeOK, Table, Rest, rowVars, boxVars, mapVars
    <2> QED BY <1>0, <2>1, <2>2, ExecutionKeeps DEF Executing, Timed, Boxed, Creating, Sharing, Ready, Early,
                                                    Owing, Wanted
  <1>2. CASE CanMove(c, k, "running") /\ Move(c, "running") /\ Step(c, k, "start")
    <2>1. task' \in Table /\ Turns(c, k, "start")
      BY <1>0, <1>2, StepTurns DEF Steps, Timed
    <2>2. "running" \in RunStatus
      BY DEF RunStatus, Allowed
    <2>3. TypeOK' /\ UNCHANGED <<cmd, target, box, vm, web, poll, draining, boxes, prompts>> /\ faults <= faults'
      <3>1. UNCHANGED <<cmd, target, session, box, vm, web, poll, draining, inFlight, active, boxes, prompts,
                 faults>>
        BY DEF Enter, boxVars, mapVars
      <3>2. faults \in Nat /\ run' \in [Runs -> RunStatus \cup {"none"}]
        BY <1>0, <1>2, <2>2 DEF Move, IInv, TypeOK
      <3> QED BY <2>1, <3>1, <3>2 DEF IInv, TypeOK, Table
    <2>4. Shaped(c, k)' /\ Outcome(c, k)'
      BY <1>0, <2>1, <2>3, RunningIsShaped DEF Executing, Timed
    <2>6. Pc(c, k)' = "start"
      BY <2>1 DEF Turns, Pc
    <2>7. Goes(c, k)
      BY <1>0, <2>1, <2>3, <2>6 DEF Goes, Turns
    <2>9. Owes(c, k)
      BY <1>0, <2>1, <2>4, <2>6 DEF Owes, Begins, Turns, Boxed, Creating, Sharing, Ready, Early, Owing
    <2> QED BY <1>0, <1>2, <2>2, <2>3, <2>4, <2>6, <2>7, <2>9, MoveKeeps
  <1> QED BY <1>1, <1>2 DEF Enter

\* A run that waits for an approval, or got one, stays under its prompt.
LEMMA AwaitKeeps ==
  ASSUME IInv, NEW c \in Runs, NEW k \in Tokens, NEW status \in {"running", "awaiting_approval"}, Pc(c,
             k) = "prompt",
         CanMove(c, k, status), Move(c, status), session' = "open",
         UNCHANGED <<cmd, target, boxVars, web, poll, draining, task, mapVars, prompts, faults>>
  PROVE  IInv'
  <1>0. c \in Commands /\ c \notin Cancels /\ RunOf(c) = c
    BY Constants
  <1>1. status \in RunStatus \ {"completed"}
    BY DEF RunStatus, Allowed
  <1>2. TypeOK' /\ UNCHANGED <<cmd, target, box, vm, web, poll, draining, boxes, prompts>> /\ faults <= faults'
    BY <1>0, <1>1 DEF Move, IInv, TypeOK, boxVars, mapVars
  <1>3. Goes(c, k)
    BY <1>0, <1>2 DEF Goes, Others, Alike, Pc
  <1>4. Shaped(c, k)'
    BY <1>0, <1>2 DEF IInv, IShaped, Shaped, Pc
  <1>5. Owes(c, k)
    BY <1>2 DEF Owes, Begins, Outcome, Pc, Boxed, Creating, Sharing, Ready, Early, Owing
  <1> QED BY <1>0, <1>1, <1>2, <1>3, <1>4, <1>5, MoveKeeps DEF Pc

LEMMA AskApprovalKeeps ==
  ASSUME IInv, NEW c \in Runs, NEW k \in Tokens, AskApproval(c, k)
  PROVE  IInv'
  BY AwaitKeeps DEF AskApproval, Working, Pc

LEMMA ResumeApprovedKeeps ==
  ASSUME IInv, NEW c \in Runs, NEW k \in Tokens, ResumeApproved(c, k)
  PROVE  IInv'
  BY AwaitKeeps DEF ResumeApproved, Working, Pc

LEMMA ReportRunKeeps ==
  ASSUME IInv, NEW c \in Commands, NEW k \in Tokens, ReportRun(c, k)
  PROVE  IInv'
  <1> DEFINE status == task[c][k].report.run
  <1>0. Pc(c, k) = "status" /\ task \in Table /\ task[c][k] \in Tasks /\ Shaped(c, k)
    BY TaskFacts DEF ReportRun, Working, Pc, IInv, IShaped
  <1>1. /\ task[c][k].report \in ReportSet
        /\ c \in Cancels => task[c][k].report \in {IsUnknown, IsCancelled, GoesBack}
        /\ status \in {"unknown", "queued", "failed", "timed_out", "cancelled"}
        /\ status = "queued" => task[c][k].report = GoesBack
    BY <1>0 DEF Shaped, ReportSet, IsUnknown, GoesBack, IsRetried, IsTimedOut, IsCancelled, IsRejected, HasExpired,
               Report
  <1> HIDE DEF status
  <1>2. CASE ~CanMove(c, k, status)
    <2>1. Finish(c, k) /\ UNCHANGED run
      BY <1>2 DEF ReportRun, status
    <2>2. TypeOK'
      BY <1>0, <2>1, Ending DEF ReportRun, IInv, TypeOK, Table, boxVars
    <2>3. faults <= faults'
      BY DEF ReportRun, IInv, TypeOK
    <2>4. ASSUME c \in Cancels, Kept(c), Answered(c) PROVE run[target[c]] \in Ended
      <3>1. Holds(c, k) /\ RunOf(c) = target[c] /\ target[c] \in Runs
        BY <1>0, <2>4, Constants, RunOfIsRun DEF Kept, IInv
      <3>2. run[target[c]] \in RunStatus
        BY <3>1 DEF IInv, IRows, Known, Holds, Live, TypeOK
      <3>3. CASE status = "queued"
        BY <1>0, <1>1, <2>4, <3>3 DEF Shaped, Answered
      <3>4. CASE status \in {"unknown", "cancelled"}
        BY <1>2, <3>1, <3>2, <3>4, EndedStays DEF CanMove
      <3> QED BY <1>1, <2>4, <3>3, <3>4 DEF status, IsUnknown, IsCancelled, GoesBack, Report
    <2> QED BY <1>0, <2>1, <2>2, <2>3, <2>4, Ending, FinishKeeps DEF ReportRun, Leaves, Owing, boxVars
  <1>3. CASE CanMove(c, k, status)
    <2>1. Move(c, status) /\ Step(c, k, "settle") /\ UNCHANGED mapVars
      BY <1>3 DEF ReportRun, status
    <2>2. task' \in Table /\ Turns(c, k, "settle") /\ task'[c][k].report = task[c][k].report
      BY <1>0, <2>1, StepTurns DEF Steps, Outside
    <2>3. status \in RunStatus \ {"completed"} /\ RunOf(c) \in Runs
      BY <1>1, RunOfIsRun DEF RunStatus, Allowed, IInv
    <2>4. TypeOK' /\ UNCHANGED <<cmd, target, box, vm, web, poll, draining, boxes, prompts>> /\ faults <= faults'
      BY <2>1, <2>2, <2>3 DEF ReportRun, Move, IInv, TypeOK, Table, boxVars, mapVars
    <2>5. Pc(c, k)' = "settle"
      BY <2>2 DEF Turns, Pc
    <2>6. Goes(c, k)
      BY <1>0, <2>2, <2>4, <2>5 DEF Goes, Turns
    <2>7. Shaped(c, k)'
      <3>1. task[c][k].report \in Reported
        BY <1>1, ReportsAreKnown DEF ReportSet
      <3> QED BY <1>0, <2>2, <2>4, <2>5, <3>1 DEF Shaped, Turns, Pc, Executing, Timed
    <2>8. ASSUME c \in Runs PROVE Outcome(c, k)'
      <3>1. run'[c] = status
        BY <2>1, <2>3, <2>8, Constants DEF Move, IInv, TypeOK
      <3> QED BY <1>1, <2>2, <2>5, <3>1 DEF Outcome, status, ReportSet, IsUnknown, GoesBack, IsRetried, IsTimedOut,
                                            IsCancelled,
              IsRejected, HasExpired, Report, Occupied
    <2>9. c \in Runs => Owes(c, k)
      BY <1>0, <2>2, <2>5, <2>8 DEF Owes, Begins, Turns, Boxed, Creating, Sharing, Ready, Early, Owing
    <2>10. ASSUME c \in Runs, Forward(c), prompts[c] = 1 PROVE status \in {"running",
               "awaiting_approval"} \cup Ended
      BY <1>0, <1>1, <1>3, <2>10 DEF Forward, CanMove, status, Ended
    <2>11. c \in Cancels => status \in {"unknown", "cancelled", "queued"}
      BY <1>1 DEF status, IsUnknown, IsCancelled, GoesBack, Report
    <2> QED BY <1>0, <1>1, <1>3, <2>1, <2>3, <2>4, <2>5, <2>6, <2>7, <2>9, <2>10, <2>11, MoveKeeps
  <1> QED BY <1>2, <1>3

-----------------------------------------------------------------------------
(* Steps that change a sandbox. *)

\* Only run m's sandbox, its machine and who holds it change.
OnlyBox(m) ==
    \A r \in Runs \ {m} : /\ box'[r] = box[r] /\ (r \in vm' <=> r \in vm) /\ prompts'[r] = prompts[r]
                          /\ \A w \in Runners : r \in boxes'[w] <=> r \in boxes[w]

\* What the one task of a run has to say for its machine.
SoleClean(c, k) ==
    /\ c \in vm' /\ box'[c].status # "unknown" =>
         \/ Pc(c, k)' \in {"bind", "limit"}
         \/ /\ Pc(c, k)' \in Owing \cup {"failing"}
            /\ c \in boxes'[task'[c][k].at]
            /\ Pc(c, k)' = "failing" => Wanted(task'[c][k].error)
    /\ Pc(c, k)' \in Owing => c \in boxes'[task'[c][k].at]
    /\ Pc(c, k)' = "complete" \/ run'[c] = "completed" => c \notin vm'

LEMMA OnlyBoxKeepsMachine ==
  ASSUME IMachine, VisibleMachine, NEW c \in Commands, NEW k \in Tokens, NEW m \in Runs, Others(c, k), OnlyBox(m),
         c \in Runs => m = c,
         Untouched(m)', \A j \in Tokens : Booting(m, j)',
         m \in vm' => box'[m].status \in {"provisioning", "running", "unknown"}
  PROVE  IMachine' /\ (vm' \subseteq Runs => VisibleMachine')
  <1>1. ASSUME NEW r \in Runs, r # m, NEW j \in Tokens PROVE Untouched(r)' /\ Booting(r, j)'
    <2>1. \A i \in Tokens : Pc(r, i)' = Pc(r, i)
      BY <1>1, Constants DEF Others, Alike, Pc
    <2> QED BY <1>1, <2>1 DEF OnlyBox, IMachine, Untouched, Booting
  <1>2. IMachine'
    BY <1>1, Constants DEF IMachine
  <1>3. vm' \subseteq Runs => VisibleMachine'
    BY DEF OnlyBox, VisibleMachine
  <1> QED BY <1>2, <1>3

LEMMA OthersAreClean ==
  ASSUME IInv, TypeOK', NEW c \in Commands, NEW k \in Tokens, Others(c, k), NEW r \in Runs, r # c,
         UNCHANGED <<box[r], run[r]>>, r \in vm' <=> r \in vm,
         \A w \in Runners : r \in boxes'[w] <=> r \in boxes[w], faults <= faults'
  PROVE  Clean(r)'
  <1> SUFFICES ASSUME faults' = 0, faults = 0 PROVE Clean(r)'
    BY DEF IInv, TypeOK, Clean
  <1>0. r \in Commands /\ \A i \in Tokens : Alike(r, i)
    BY Constants DEF Others
  <1>1. \A i \in Tokens : Pc(r, i) # "none" => task[r][i].at \in Runners
    BY <1>0 DEF IInv, IShaped, Shaped
  <1>2. Clean(r)
    BY DEF IInv, IClean
  <1>3. ASSUME r \in vm, box[r].status # "unknown"
        PROVE  \E i \in Tokens :
                 \/ Pc(r, i)' \in {"bind", "limit"}
                 \/ /\ Pc(r, i)' \in Owing \cup {"failing"}
                    /\ r \in boxes'[task'[r][i].at]
                    /\ Pc(r, i)' = "failing" => Wanted(task'[r][i].error)
    <2>1. PICK i \in Tokens :
                 \/ Pc(r, i) \in {"bind", "limit"}
                 \/ /\ Pc(r, i) \in Owing \cup {"failing"}
                    /\ r \in boxes[task[r][i].at]
                    /\ Pc(r, i) = "failing" => Wanted(task[r][i].error)
      BY <1>2, <1>3 DEF Clean, Owing
    <2>2. Pc(r, i) # "none"
      BY <2>1 DEF Owing
    <2> QED BY <1>0, <1>1, <2>1, <2>2 DEF Alike, Pc
  <1>4. ASSUME NEW i \in Tokens
        PROVE  /\ Pc(r, i)' \in Owing => r \in boxes'[task'[r][i].at]
               /\ Pc(r, i)' = "complete" => r \notin vm
    BY <1>0, <1>1, <1>2 DEF Alike, Pc, Clean, Owing
  <1> QED BY <1>2, <1>3, <1>4 DEF Clean, Owing

LEMMA SoleIsClean ==
  ASSUME IInv, NEW c \in Runs, NEW k \in Tokens, Others(c, k), Pc(c, k) # "none", WellKept(c), SoleClean(c, k)
  PROVE  Clean(c)'
  <1>1. c \in Commands /\ \A i \in Tokens \ {k} : Pc(c, i)' = "none"
    BY Constants, Sole DEF WellKept, Others, Alike, Pc
  <1> QED BY <1>1 DEF SoleClean, Clean, Owing

\* A task goes on, and the sandbox of its run changes with it.
LEMMA BoxTurn ==
  ASSUME IInv, TypeOK', NEW c \in Commands, NEW k \in Tokens, NEW m \in Runs, m = RunOf(c), Goes(c, k), Shaped(c,
             k)',
         run' = run, OnlyBox(m),
         \A w \in Runners : m \in boxes'[w] => m \in boxes[w] \/ (c = m /\ Fills(c, k, w)),
         Untouched(m)', \A j \in Tokens : Booting(m, j)',
         m \in vm' => box'[m].status \in {"provisioning", "running", "unknown"},
         c \in Runs => /\ Begins(c, k) /\ Outcome(c, k)' /\ (Pc(c, k)' = "start" => Pc(c, k) = "start")
                       /\ faults' = 0 /\ WellKept(c) => SoleClean(c, k),
         c \in Cancels /\ faults' = 0 /\ WellKept(m) /\ Steady(m) => Clean(m)'
  PROVE  IInv'
  <1> USE DEF IInv
  <1>0. Others(c, k) /\ cmd' = cmd /\ poll' = poll /\ (c \in Runs => m = c)
    BY Constants DEF Goes
  <1>1. Follows /\ NoneNew
    BY DEF Goes, Others, Alike, Follows, NoneNew, Pc
  <1>2. IRows'
    BY RowsKept DEF Goes
  <1>3. IPolled'
    BY <1>0, <1>1, PolledKept DEF NoneNew
  <1>4. IShaped'
    BY <1>0, ShapedKept
  <1>5. IOutcome'
    BY <1>0, OutcomeKept
  <1>6. IMachine' /\ VisibleMachine'
    BY <1>0, OnlyBoxKeepsMachine DEF TypeOK
  <1>7. IOnce'
    <2>1. ASSUME NEW r \in Runs, Forward(r) PROVE Prompted(r)
      <3>1. r \in Commands /\ \A i \in Tokens : Pc(r, i)' = "start" => Pc(r, i) = "start"
        BY Constants DEF Goes, Others, Alike, Pc
      <3> QED BY <2>1, <3>1 DEF Forward, Prompted
    <2>2. \A r \in Runs, w \in Runners : r \in boxes'[w] => r \in boxes[w] \/ (c = r /\ Fills(c, k, w))
      BY DEF OnlyBox
    <2> QED BY <1>1, <2>1, <2>2, OnceTurn
  <1>8. IClean'
    <2> SUFFICES ASSUME NEW r \in Runs, faults' = 0 PROVE Clean(r)'
      BY DEF IClean, Clean
    <2>0. faults = 0 /\ r \in Commands
      BY Constants DEF Goes, TypeOK
    <2>1. CASE r # m
      <3>1. r # c
        BY <1>0, <2>1
      <3> QED BY <1>0, <2>1, <3>1, OthersAreClean DEF OnlyBox, Goes
    <2>2. CASE r = m /\ c \in Runs
      BY <1>0, <2>0, <2>2, SoleIsClean DEF Goes, IOnce, Once
    <2>3. CASE r = m /\ c \in Cancels
      BY <2>0, <2>3 DEF IOnce, Once
    <2> QED BY <2>1, <2>2, <2>3 DEF Commands
  <1>9. OutcomesAgree'
    BY <1>0 DEF OutcomesAgree
  <1> QED BY <1>2, <1>3, <1>4, <1>5, <1>6, <1>7, <1>8, <1>9

-----------------------------------------------------------------------------
(* The creation of a sandbox. *)

\* An execution goes from one place to another, and the sandbox changes.
LEMMA PlaceTurn ==
  ASSUME IInv, TypeOK', NEW c \in Runs, NEW k \in Tokens, NEW pc \in Executing, Turns(c, k, pc), Pc(c,
             k) \in Executing,
         UNCHANGED <<run, cmd, target, web, poll, draining, prompts>>, faults <= faults', OnlyBox(c),
         \A w \in Runners : c \in boxes'[w] => c \in boxes[w] \/ (w = At(c, k) /\ pc \in Sharing),
         Untouched(c)', \A j \in Tokens : Booting(c, j)',
         c \in vm' => box'[c].status \in {"provisioning", "running", "unknown"},
         pc = "start" => Pc(c, k) = "start",
         Pc(c, k) \in Sharing => pc \in Sharing,
         pc \in Creating \cup Ready => Pc(c, k) \in Creating \cup Ready \/ (WellKept(c) => prompts[c] = 0),
         pc \in Early => Pc(c, k) \in Early,
         faults' = 0 /\ WellKept(c) => SoleClean(c, k)
  PROVE  IInv'
  <1>1. Shaped(c, k)' /\ Outcome(c, k)'
    BY RunningIsShaped
  <1>2. pc = Pc(c, k)' /\ c \notin Cancels /\ c \in Commands /\ RunOf(c) = c
    BY Constants DEF Turns, Pc
  <1>3. pc \notin {"none", "status"} /\ Pc(c, k) # "none"
    BY DEF Executing, Timed
  <1>4. Goes(c, k)
    BY <1>2, <1>3 DEF Goes, Turns
  <1>5. Begins(c, k)
    BY <1>2, <1>3 DEF Begins, Turns
  <1>6. \A w \in Runners : c \in boxes'[w] => c \in boxes[w] \/ Fills(c, k, w)
    <2>1. task[c][k].kind = "execute"
      BY <1>2, <1>3 DEF IInv, IShaped, Shaped
    <2> QED BY <1>2, <2>1 DEF Fills, Turns, At
  <1> QED BY <1>1, <1>2, <1>4, <1>5, <1>6, BoxTurn

\* While nothing failed, a run with a task of its own has not completed.
LEMMA TaskIsOpen ==
  ASSUME IInv, NEW c \in Runs, NEW k \in Tokens, Pc(c, k) # "none", WellKept(c)
  PROVE  run[c] # "completed"
  BY DEF WellKept, Kept, Holds, Live, IInv, OutcomesAgree

LEMMA CreateBoxKeeps ==
  ASSUME IInv, NEW c \in Runs, NEW k \in Tokens, CreateBox(c, k)
  PROVE  IInv'
  <1>0. /\ c \in Commands /\ c \notin Cancels /\ task \in Table /\ Pc(c, k) = "create" /\ RunOf(c) = c
        /\ Shaped(c, k) /\ Untouched(c) /\ At(c, k) \in Runners /\ box[c].status \in DOMAIN BoxAllowed
    <2>1. c \in Commands /\ c \notin Cancels /\ task \in Table /\ Pc(c, k) = "create" /\ RunOf(c) = c
      BY Constants, TaskFacts DEF IInv, CreateBox, Working, Pc
    <2> QED BY <2>1 DEF IInv, IShaped, Shaped, IMachine, At, TypeOK
  <1>1. UNCHANGED <<run, cmd, target, session, vm, web, poll, draining, inFlight, active, boxes, prompts, faults>>
        /\ faults \in Nat
    BY DEF CreateBox, rowVars, mapVars, IInv, TypeOK
  <1>2. CASE c \in boxes[At(c, k)]
    <2>1. Step(c, k, "prepare") /\ box' = box
      BY <1>2 DEF CreateBox
    <2>2. task' \in Table /\ Turns(c, k, "prepare")
      BY <1>0, <2>1, StepTurns DEF Steps, Timed
    <2>3. TypeOK' /\ Rest
      BY <1>1, <2>1, <2>2 DEF IInv, TypeOK, Table, Rest
    <2>4. box[c].status # "none"
      BY <1>0, <1>2 DEF Untouched
    <2>5. ~WellKept(c)
      <3>1. ASSUME WellKept(c) PROVE FALSE
        <4>1. PICK i \in Tokens : Pc(c, i) \in Sharing
          BY <1>0, <1>2, <3>1 DEF WellKept
        <4>2. i = k
          BY <1>0, <3>1, <4>1, Sole DEF WellKept, Sharing
        <4> QED BY <1>0, <4>1, <4>2 DEF Sharing
      <3> QED BY <3>1
    <2> QED BY <1>0, <1>2, <2>2, <2>3, <2>4, <2>5, ExecutionKeeps
            DEF Executing, Timed, Boxed, Creating, Sharing, Ready, Early, Owing
  <1>3. CASE Fails(c, k, "transient") /\ UNCHANGED box
    <2>1. task' \in Table /\ Turns(c, k, "failing")
      BY <1>0, <1>3, FailTurns DEF Errors
    <2>2. TypeOK' /\ Rest
      BY <1>1, <1>3, <2>1 DEF IInv, TypeOK, Table, Rest
    <2> QED BY <1>0, <2>1, <2>2, ExecutionKeeps DEF Executing, Timed, Boxed, Creating, Sharing, Ready, Early, Owing
  <1>4. CASE box[c].status = "none" /\ Step(c, k, "boot") /\ box' = [box EXCEPT ![c].status = "provisioning"]
    <2>1. task' \in Table /\ Turns(c, k, "boot")
      BY <1>0, <1>4, StepTurns DEF Steps, Timed
    <2>2. box' \in [Runs -> [status : DOMAIN BoxAllowed, handle : BOOLEAN]]
          /\ box'[c].status = "provisioning" /\ box'[c].handle = box[c].handle
          /\ \A r \in Runs \ {c} : box'[r] = box[r]
      BY <1>4 DEF IInv, TypeOK, BoxAllowed
    <2>3. TypeOK'
      BY <1>1, <2>1, <2>2 DEF IInv, TypeOK, Table
    <2>4. ~box[c].handle /\ prompts[c] = 0 /\ c \notin vm /\ (\A w \in Runners : c \notin boxes[w])
          /\ \A i \in Tokens : Pc(c, i) \notin Boxed
      BY <1>0, <1>4 DEF Untouched
    <2>5. OnlyBox(c)
      BY <1>1, <2>2 DEF OnlyBox
    <2>6. Pc(c, k)' = "boot" /\ \A i \in Tokens \ {k} : Pc(c, i)' = Pc(c, i)
      BY <1>0, <2>1 DEF Turns, Others, Alike, Pc
    <2>7. Untouched(c)' /\ \A j \in Tokens : Booting(c, j)'
      BY <1>1, <2>2, <2>4, <2>6 DEF Untouched, Booting, Boxed, Creating
    <2>8. SoleClean(c, k)
      BY <1>1, <2>4, <2>6 DEF SoleClean, Owing
    <2> QED BY <1>0, <1>1, <2>1, <2>2, <2>3, <2>4, <2>5, <2>7, <2>8, PlaceTurn
            DEF Executing, Timed, Creating, Sharing, Ready, Early
  <1> QED BY <1>2, <1>3, <1>4 DEF CreateBox

\* What holds of a run while its sandbox is created.
LEMMA CreatingFacts ==
  ASSUME IInv, NEW c \in Runs, NEW k \in Tokens, Pc(c, k) \in Creating
  PROVE  /\ c \in Commands /\ c \notin Cancels /\ task \in Table /\ RunOf(c) = c /\ faults \in Nat
         /\ At(c, k) \in Runners /\ box \in [Runs -> [status : DOMAIN BoxAllowed, handle : BOOLEAN]]
         /\ box[c].status # "none" /\ \A j \in Tokens \ {k} : Pc(c, j) \notin Creating
         /\ Pc(c, k) = "boot" => box[c].status \in {"provisioning", "unknown"} /\ ~box[c].handle
         /\ c \in vm => box[c].status \in {"provisioning", "running", "unknown"}
         /\ WellKept(c) => run[c] # "completed"
  <1>1. c \in Commands /\ c \notin Cancels /\ task \in Table /\ RunOf(c) = c /\ faults \in Nat
        /\ box \in [Runs -> [status : DOMAIN BoxAllowed, handle : BOOLEAN]]
    BY Constants, TaskFacts DEF IInv, TypeOK
  <1>2. At(c, k) \in Runners
    BY <1>1 DEF IInv, IShaped, Shaped, At, Creating
  <1>3. Untouched(c) /\ Booting(c, k)
    BY DEF IInv, IMachine
  <1>4. box[c].status # "none"
    BY <1>3 DEF Untouched, Boxed
  <1>5. c \in vm => box[c].status \in {"provisioning", "running", "unknown"}
    BY DEF IInv, VisibleMachine
  <1>6. WellKept(c) => run[c] # "completed"
    BY TaskIsOpen DEF Creating
  <1> QED BY <1>1, <1>2, <1>3, <1>4, <1>5, <1>6 DEF Booting

\* A step of the creation of a sandbox.
LEMMA CreatingTurn ==
  ASSUME IInv, TypeOK', NEW c \in Runs, NEW k \in Tokens, Pc(c, k) \in Creating,
         NEW pc \in {"bind", "limit", "prepare", "failing"}, Turns(c, k, pc),
         UNCHANGED <<run, cmd, target, web, poll, draining, prompts>>, faults <= faults', OnlyBox(c),
         \A w \in Runners : c \in boxes'[w] => c \in boxes[w] \/ (w = At(c, k) /\ pc = "prepare"),
         box'[c].status # "none",
         c \in vm' => box'[c].status \in {"provisioning", "running", "unknown"},
         c \in vm' /\ box'[c].status # "unknown" => pc # "failing",
         pc = "prepare" => c \in boxes'[At(c, k)]
  PROVE  IInv'
  <1>0. /\ c \in Commands /\ \A j \in Tokens \ {k} : Pc(c, j) \notin Creating
        /\ WellKept(c) => run[c] # "completed"
    BY CreatingFacts
  <1>1. Pc(c, k)' = pc /\ task'[c][k].at = At(c, k) /\ \A i \in Tokens \ {k} : Pc(c, i)' = Pc(c, i)
    BY <1>0 DEF Turns, Others, Alike, Pc, At
  <1>2. Untouched(c)' /\ \A j \in Tokens : Booting(c, j)'
    BY <1>0, <1>1 DEF Untouched, Booting, Creating
  <1>3. WellKept(c) => SoleClean(c, k)
    BY <1>0, <1>1 DEF SoleClean, Owing
  <1> QED BY <1>2, <1>3, PlaceTurn DEF Executing, Timed, Creating, Sharing, Ready, Early

LEMMA BootKeeps ==
  ASSUME IInv, NEW c \in Runs, NEW k \in Tokens, Boot(c, k)
  PROVE  IInv'
  <1>0. Pc(c, k) = "boot" /\ Pc(c, k) \in Creating
    BY DEF Boot, Working, Pc, Creating
  <1>1. task' \in Table /\ Turns(c, k, "bind")
    BY <1>0, CreatingFacts, StepTurns DEF Boot, Steps, Timed
  <1>2. UNCHANGED <<run, cmd, target, session, box, web, poll, draining, inFlight, active, boxes, prompts, faults>>
        /\ vm' = vm \cup {c}
    BY DEF Boot, rowVars, mapVars
  <1>3. TypeOK'
    BY <1>1, <1>2 DEF IInv, TypeOK, Table
  <1>4. OnlyBox(c)
    BY <1>2 DEF OnlyBox
  <1> QED BY <1>0, <1>1, <1>2, <1>3, <1>4, CreatingFacts, CreatingTurn

LEMMA MoveBoxMoves ==
  ASSUME IInv, NEW c \in Runs, NEW status \in {"failed", "unknown"}, MoveBox(c, status)
  PROVE  /\ box' \in [Runs -> [status : DOMAIN BoxAllowed, handle : BOOLEAN]]
         /\ \A r \in Runs \ {c} : box'[r] = box[r]
         /\ box[c].status # "none" => box'[c].status # "none"
         /\ status = "unknown" /\ box[c].status \in {"provisioning", "running",
                    "unknown"} => box'[c].status = "unknown"
  <1>1. box \in [Runs -> [status : DOMAIN BoxAllowed, handle : BOOLEAN]]
    BY DEF IInv, TypeOK
  <1>2. status \in DOMAIN BoxAllowed
    BY DEF BoxAllowed
  <1> DEFINE s == IF BoxMay(box[c].status, status) THEN status ELSE box[c].status
  <1>3. box' = [box EXCEPT ![c].status = s]
    BY <1>1 DEF MoveBox
  <1>4. s \in DOMAIN BoxAllowed
    BY <1>1, <1>2
  <1>5. /\ box[c].status # "none" => s # "none"
        /\ status = "unknown" /\ box[c].status \in {"provisioning", "running", "unknown"} => s = "unknown"
    BY DEF BoxMay, BoxAllowed
  <1> HIDE DEF s
  <1> QED BY <1>1, <1>3, <1>4, <1>5

LEMMA BootFailsKeeps ==
  ASSUME IInv, NEW c \in Runs, NEW k \in Tokens, BootFails(c, k)
  PROVE  IInv'
  <1>0. Pc(c, k) = "boot" /\ Pc(c, k) \in Creating
    BY DEF BootFails, Working, Pc, Creating
  <1>1. task' \in Table /\ Turns(c, k, "failing")
    BY <1>0, CreatingFacts, FailTurns DEF BootFails, Errors
  <1>2. UNCHANGED <<run, cmd, target, session, web, poll, draining, inFlight, active, boxes, prompts>>
        /\ vm' \in {vm, vm \cup {c}} /\ faults' \in Nat /\ faults <= faults'
    BY DEF BootFails, MayFail, Fault, rowVars, mapVars, IInv, TypeOK
  <1>3. box' \in [Runs -> [status : DOMAIN BoxAllowed, handle : BOOLEAN]] /\ box'[c].status = "unknown"
        /\ \A r \in Runs \ {c} : box'[r] = box[r]
    BY <1>0, CreatingFacts, MoveBoxMoves DEF BootFails
  <1>4. TypeOK'
    BY <1>1, <1>2, <1>3 DEF IInv, TypeOK, Table
  <1>5. OnlyBox(c)
    BY <1>2, <1>3 DEF OnlyBox
  <1> QED BY <1>0, <1>1, <1>2, <1>3, <1>4, <1>5, CreatingTurn

LEMMA BindKeeps ==
  ASSUME IInv, NEW c \in Runs, NEW k \in Tokens, Bind(c, k)
  PROVE  IInv'
  <1>0. Pc(c, k) = "bind" /\ Pc(c, k) \in Creating
    BY DEF Bind, Working, Pc, Creating
  <1>1. task' \in Table /\ Turns(c, k, "limit")
    BY <1>0, CreatingFacts, StepTurns DEF Bind, Steps, Timed
  <1>2. UNCHANGED <<run, cmd, target, session, vm, web, poll, draining, inFlight, active, boxes, prompts, faults>>
    BY DEF Bind, rowVars, mapVars
  <1>3. box' \in [Runs -> [status : DOMAIN BoxAllowed, handle : BOOLEAN]] /\ box'[c].status = "provisioning"
        /\ \A r \in Runs \ {c} : box'[r] = box[r]
    BY <1>0, CreatingFacts DEF Bind
  <1>4. TypeOK'
    BY <1>1, <1>2, <1>3 DEF IInv, TypeOK, Table
  <1>5. OnlyBox(c)
    BY <1>2, <1>3 DEF OnlyBox
  <1> QED BY <1>0, <1>1, <1>2, <1>3, <1>4, <1>5, CreatingFacts, CreatingTurn

LEMMA LimitKeeps ==
  ASSUME IInv, NEW c \in Runs, NEW k \in Tokens, Limit(c, k)
  PROVE  IInv'
  <1>0. Pc(c, k) = "limit" /\ Pc(c, k) \in Creating
    BY DEF Limit, Working, Pc, Creating
  <1>1. task' \in Table /\ Turns(c, k, "prepare")
    BY <1>0, CreatingFacts, StepTurns DEF Limit, Steps, Timed
  <1>2. UNCHANGED <<run, cmd, target, session, vm, web, poll, draining, inFlight, active, prompts, faults>>
    BY DEF Limit, rowVars
  <1>3. box' \in [Runs -> [status : DOMAIN BoxAllowed, handle : BOOLEAN]] /\ box'[c].status = "running"
        /\ \A r \in Runs \ {c} : box'[r] = box[r]
    BY <1>0, CreatingFacts DEF Limit, BoxAllowed
  <1>6. /\ boxes' \in [Runners -> SUBSET Runs] /\ c \in boxes'[At(c, k)]
        /\ \A w \in Runners \ {At(c, k)} : boxes'[w] = boxes[w]
        /\ \A r \in Runs \ {c}, w \in Runners : r \in boxes'[w] <=> r \in boxes[w]
    BY <1>0, CreatingFacts DEF Limit, IInv, TypeOK
  <1>4. TypeOK'
    BY <1>1, <1>2, <1>3, <1>6 DEF IInv, TypeOK, Table
  <1>5. OnlyBox(c)
    BY <1>2, <1>3, <1>6 DEF OnlyBox
  <1> QED BY <1>0, <1>1, <1>2, <1>3, <1>4, <1>5, <1>6, CreatingFacts, CreatingTurn

LEMMA UndoKeeps ==
  ASSUME IInv, NEW c \in Runs, NEW k \in Tokens, Undo(c, k)
  PROVE  IInv'
  <1>0. Pc(c, k) \in Creating
    BY DEF Undo, Pc, Creating
  <1>1. task' \in Table /\ Turns(c, k, "failing")
    BY <1>0, CreatingFacts, FailTurns DEF Undo, Errors
  <1>2. UNCHANGED <<run, cmd, target, session, web, poll, draining, inFlight, active, boxes, prompts>>
        /\ faults' \in Nat /\ faults <= faults'
    BY DEF Undo, MayFail, Fault, rowVars, mapVars, IInv, TypeOK
  <1>3. PICK verified \in BOOLEAN : MoveBox(c, IF verified THEN "failed" ELSE "unknown")
                                    /\ vm' = IF verified THEN vm \ {c} ELSE vm
    BY DEF Undo
  <1>4. /\ box' \in [Runs -> [status : DOMAIN BoxAllowed, handle : BOOLEAN]]
        /\ \A r \in Runs \ {c} : box'[r] = box[r]
        /\ box'[c].status # "none" /\ vm' \subseteq vm
        /\ c \in vm' => box'[c].status = "unknown"
        /\ \A r \in Runs \ {c} : r \in vm' <=> r \in vm
    BY <1>0, <1>3, CreatingFacts, MoveBoxMoves
  <1>5. TypeOK'
    BY <1>1, <1>2, <1>4 DEF IInv, TypeOK, Table
  <1>6. OnlyBox(c)
    BY <1>2, <1>4 DEF OnlyBox
  <1> QED BY <1>0, <1>1, <1>2, <1>4, <1>5, <1>6, CreatingTurn

-----------------------------------------------------------------------------
(* The end of a sandbox. *)

\* What cleanupResources does to the sandbox of its run.
LEMMA CleanUpFacts ==
  ASSUME IInv, NEW c \in Runs, NEW k \in Tokens, Pc(c, k) # "none", NEW wanted \in BOOLEAN, NEW ok \in BOOLEAN,
         CleanUp(c, k, wanted, ok)
  PROVE  /\ box' \in [Runs -> [status : DOMAIN BoxAllowed, handle : BOOLEAN]] /\ vm' \subseteq vm
         /\ faults' \in Nat /\ faults <= faults' /\ (faults' = 0 => ok)
         /\ \A r \in Runs \ {c} : box'[r] = box[r] /\ (r \in vm' <=> r \in vm)
         /\ box'[c].handle = box[c].handle
         /\ box'[c].status = "none" <=> box[c].status = "none"
         /\ c \in vm' => box'[c].status \in {"provisioning", "running", "unknown"}
         /\ box[c].status = "unknown" => box'[c].status = "unknown"
         /\ (\E j \in Tokens : Pc(c, j) = "boot") => box' = box
         /\ ok /\ wanted /\ c \in boxes[At(c, k)] => c \notin vm' \/ box'[c].status = "unknown"
  <1> DEFINE needed == wanted /\ c \in boxes[At(c, k)]
  <1> DEFINE usable == box[c].status \notin {"destroyed", "unknown"}
  <1>1. /\ box \in [Runs -> [status : DOMAIN BoxAllowed, handle : BOOLEAN]] /\ faults \in Nat
        /\ c \in vm => box[c].status \in {"provisioning", "running", "unknown"}
        /\ At(c, k) \in Runners
    BY Constants DEF IInv, TypeOK, VisibleMachine, IShaped, Shaped, At
  <1>2. CASE ~needed
    BY <1>1, <1>2 DEF CleanUp, boxVars
  <1>3. CASE needed
    <2>1. box[c].status # "none"
      BY <1>1, <1>3 DEF IInv, IMachine, Untouched
    <2>2. \A j \in Tokens : Pc(c, j) # "boot"
      BY <1>1, <1>3 DEF IInv, IMachine, Booting, Creating
    <2>3. faults' \in Nat /\ faults <= faults' /\ (faults' = 0 => ok)
      BY <1>1, <1>3 DEF CleanUp, Destroy, MayFail, Fault
    <2>4. CASE ~usable
      BY <1>1, <1>3, <2>1, <2>2, <2>3, <2>4 DEF CleanUp, Destroy
    <2>5. CASE usable
      <3>1. PICK s \in {"destroyed", "unknown"} : s = IF ok THEN "destroyed" ELSE "unknown"
        OBVIOUS
      <3>2. box' = [box EXCEPT ![c].status = s] /\ vm' = IF ok THEN vm \ {c} ELSE vm
        BY <1>3, <2>5, <3>1 DEF CleanUp, Destroy
      <3>3. s \in DOMAIN BoxAllowed
        BY DEF BoxAllowed
      <3>4. box' \in [Runs -> [status : DOMAIN BoxAllowed, handle : BOOLEAN]] /\ box'[c].status = s
            /\ box'[c].handle = box[c].handle /\ \A r \in Runs \ {c} : box'[r] = box[r]
        BY <1>1, <3>2, <3>3
      <3> QED BY <1>3, <2>1, <2>2, <2>3, <2>5, <3>1, <3>2, <3>4
    <2> QED BY <2>4, <2>5
  <1> QED BY <1>2, <1>3

LEMMA TidyKeeps ==
  ASSUME IInv, NEW c \in Runs, NEW k \in Tokens, Tidy(c, k)
  PROVE  IInv'
  <1>0. /\ c \in Commands /\ task \in Table /\ Pc(c, k) = "tidy" /\ At(c, k) \in Runners
        /\ Untouched(c) /\ Clean(c) /\ box[c].status # "none"
    <2>1. c \in Commands /\ task \in Table /\ Pc(c, k) = "tidy"
      BY Constants, TaskFacts DEF IInv, Tidy, Working, Pc
    <2> QED BY <2>1 DEF IInv, IShaped, Shaped, IMachine, Untouched, IClean, At, Boxed
  <1>1. PICK ok \in BOOLEAN, wanted \in BOOLEAN :
          /\ wanted /\ CleanUp(c, k, wanted, ok)
          /\ IF CleanUpFails(c, k, TRUE, ok)
             THEN Fails(c, k, "cleanup") /\ UNCHANGED boxes
             ELSE Step(c, k, "complete") /\ boxes' = [boxes EXCEPT ![At(c, k)] = @ \ {c}]
    BY DEF Tidy
  <1>2. PICK pc \in {"failing", "complete"} :
          /\ task' \in Table /\ Turns(c, k, pc)
          /\ pc = "failing" => CleanUpFails(c, k, TRUE, ok)
          /\ pc = "complete" => ~CleanUpFails(c, k, TRUE, ok)
    <2>1. CASE CleanUpFails(c, k, TRUE, ok)
      BY <1>0, <1>1, <2>1, FailTurns DEF Errors
    <2>2. CASE ~CleanUpFails(c, k, TRUE, ok)
      BY <1>0, <1>1, <2>2, StepTurns DEF Steps, Timed
    <2> QED BY <2>1, <2>2
  <1>3. /\ boxes' \in [Runners -> SUBSET Runs]
        /\ \A r \in Runs \ {c}, w \in Runners : r \in boxes'[w] <=> r \in boxes[w]
        /\ \A w \in Runners : c \in boxes'[w] => c \in boxes[w]
    <2>1. boxes' = boxes \/ boxes' = [boxes EXCEPT ![At(c, k)] = @ \ {c}]
      BY <1>1
    <2> QED BY <2>1 DEF IInv, TypeOK
  <1>4. /\ box' \in [Runs -> [status : DOMAIN BoxAllowed, handle : BOOLEAN]] /\ vm' \subseteq vm
        /\ faults' \in Nat /\ faults <= faults' /\ (faults' = 0 => ok)
        /\ \A r \in Runs \ {c} : box'[r] = box[r] /\ (r \in vm' <=> r \in vm)
        /\ box'[c].handle = box[c].handle
        /\ box'[c].status = "none" <=> box[c].status = "none"
        /\ c \in vm' => box'[c].status \in {"provisioning", "running", "unknown"}
        /\ (\E j \in Tokens : Pc(c, j) = "boot") => box' = box
        /\ ok /\ wanted /\ c \in boxes[At(c, k)] => c \notin vm' \/ box'[c].status = "unknown"
    <2>1. Pc(c, k) # "none" /\ CleanUp(c, k, wanted, ok) /\ wanted \in BOOLEAN /\ ok \in BOOLEAN
      BY <1>0, <1>1
    <2> QED BY <2>1, CleanUpFacts
  <1>5. UNCHANGED <<run, cmd, target, session, web, poll, draining, inFlight, active, prompts>>
    BY DEF Tidy, rowVars
  <1>6. TypeOK'
    BY <1>2, <1>3, <1>4, <1>5 DEF IInv, TypeOK, Table
  <1>7. OnlyBox(c)
    BY <1>3, <1>4, <1>5 DEF OnlyBox
  <1>8. Pc(c, k)' = pc /\ task'[c][k].at = At(c, k) /\ \A i \in Tokens \ {k} : Pc(c, i)' = Pc(c, i)
    BY <1>0, <1>2 DEF Turns, Others, Alike, Pc, At
  <1>9. Untouched(c)' /\ \A j \in Tokens : Booting(c, j)'
    <2>1. Untouched(c)'
      BY <1>0, <1>4 DEF Untouched
    <2>2. ASSUME NEW j \in Tokens PROVE Booting(c, j)'
      <3>1. Booting(c, j)
        BY DEF IInv, IMachine
      <3>2. Pc(c, j)' \in Creating => j # k
        BY <1>8 DEF Creating
      <3> QED BY <1>3, <1>4, <1>8, <3>1, <3>2 DEF Booting, Creating
    <2> QED BY <2>1, <2>2
  <1>10. ASSUME faults' = 0, WellKept(c) PROVE SoleClean(c, k)
    <2>1. faults = 0 /\ ok
      BY <1>4, <1>10 DEF IInv, TypeOK
    <2>2. c \in boxes[At(c, k)] /\ (run[c] = "completed" => c \notin vm)
      BY <1>0, <2>1 DEF Clean, At
    <2>3. c \notin vm' \/ box'[c].status = "unknown"
      BY <1>1, <1>4, <2>1, <2>2
    <2>4. pc = "complete" => c \notin vm'
      <3>1. pc = "complete" => box[c].status \notin {"destroyed", "unknown"}
        BY <1>2, <2>1, <2>2 DEF CleanUpFails, DestroyFails
      <3> QED BY <1>1, <2>1, <2>2, <3>1 DEF CleanUp, Destroy
    <2> QED BY <1>4, <1>5, <1>8, <2>2, <2>3, <2>4 DEF SoleClean, Owing
  <1> QED BY <1>0, <1>2, <1>3, <1>4, <1>5, <1>6, <1>7, <1>9, <1>10, PlaceTurn
          DEF Executing, Timed, Creating, Sharing, Ready, Early

\* The report of a failure says that the run goes back only if it was never given a sandbox.
LEMMA FailureReportIsKnown ==
  ASSUME IInv, NEW c \in Runs, NEW k \in Tokens, NEW dirty
  PROVE  /\ FailureReport(c, k, dirty) \in ReportSet \cap Reported
         /\ FailureReport(c, k, dirty).run # "none"
         /\ FailureReport(c, k, dirty).run = "queued" =>
               box[c].status = "none" /\ FailureReport(c, k, dirty) = GoesBack
  <1> DEFINE report == FailureReport(c, k, dirty)
  <1>1. \/ report \in ReportSet \ {GoesBack}
        \/ report = GoesBack /\ box[c].status = "none"
    <2>1. {IsUnknown, IsRetried, IsTimedOut, IsCancelled, IsRejected} \subseteq ReportSet \ {GoesBack}
      BY DEF ReportSet, IsUnknown, GoesBack, IsRetried, IsTimedOut, IsCancelled, IsRejected, Report
    <2>2. \/ report \in {IsUnknown, IsRetried, IsTimedOut, IsCancelled, IsRejected}
          \/ report = GoesBack /\ box[c].status = "none"
      BY DEF FailureReport
    <2> QED BY <2>1, <2>2
  <1>2. report \in ReportSet /\ report \in Reported
    BY <1>1, ReportsAreKnown DEF ReportSet
  <1>3. report.run # "none" /\ (report.run = "queued" => report = GoesBack)
    BY <1>2 DEF ReportSet, IsUnknown, GoesBack, IsRetried, IsTimedOut, IsCancelled, IsRejected, HasExpired, Report
  <1> QED BY <1>1, <1>2, <1>3

LEMMA HandleFailureKeeps ==
  ASSUME IInv, NEW c \in Runs, NEW k \in Tokens, HandleFailure(c, k)
  PROVE  IInv'
  <1>0. /\ c \in Commands /\ c \notin Cancels /\ task \in Table /\ Pc(c, k) = "failing" /\ At(c, k) \in Runners
        /\ RunOf(c) = c /\ Untouched(c) /\ Clean(c) /\ Shaped(c, k) /\ task[c][k].kind = "execute"
    <2>1. c \in Commands /\ c \notin Cancels /\ task \in Table /\ Pc(c, k) = "failing" /\ RunOf(c) = c
      BY Constants, TaskFacts DEF IInv, HandleFailure, Working, Pc
    <2> QED BY <2>1 DEF IInv, IShaped, Shaped, IMachine, IClean, At, Executing, Timed
  <1> DEFINE wanted == Wanted(task[c][k].error)
  <1>1. PICK ok \in BOOLEAN, dirty \in BOOLEAN :
          /\ CleanUp(c, k, wanted, ok)
          /\ Step(c, k, "leave") \/ Reports(c, k, FailureReport(c, k, dirty))
          /\ boxes' = IF wanted /\ ~dirty THEN [boxes EXCEPT ![At(c, k)] = @ \ {c}] ELSE boxes
    BY DEF HandleFailure, At, CleanUpFails, Wanted, DestroyFails
  <1>2. /\ boxes' \in [Runners -> SUBSET Runs]
        /\ \A r \in Runs \ {c}, w \in Runners : r \in boxes'[w] <=> r \in boxes[w]
        /\ \A w \in Runners : c \in boxes'[w] => c \in boxes[w]
    BY <1>1 DEF IInv, TypeOK
  <1>3. wanted \in BOOLEAN
    BY DEF Wanted
  <1>4. /\ box' \in [Runs -> [status : DOMAIN BoxAllowed, handle : BOOLEAN]] /\ vm' \subseteq vm
        /\ faults' \in Nat /\ faults <= faults' /\ (faults' = 0 => ok)
        /\ \A r \in Runs \ {c} : box'[r] = box[r] /\ (r \in vm' <=> r \in vm)
        /\ box'[c].handle = box[c].handle
        /\ box'[c].status = "none" <=> box[c].status = "none"
        /\ c \in vm' => box'[c].status \in {"provisioning", "running", "unknown"}
        /\ box[c].status = "unknown" => box'[c].status = "unknown"
        /\ (\E j \in Tokens : Pc(c, j) = "boot") => box' = box
        /\ ok /\ wanted /\ c \in boxes[At(c, k)] => c \notin vm' \/ box'[c].status = "unknown"
    BY <1>0, <1>1, <1>3, CleanUpFacts
  <1>5. UNCHANGED <<run, cmd, target, session, web, poll, draining, inFlight, active, prompts>>
    BY DEF HandleFailure, rowVars
  <1>6. PICK pc \in {"leave", "status"} :
          /\ task' \in Table /\ Turns(c, k, pc)
          /\ pc = "status" => /\ task'[c][k].report \in ReportSet
                              /\ task'[c][k].report.run = "queued" => box[c].status = "none"
    <2>1. CASE Step(c, k, "leave")
      BY <1>0, <2>1, StepTurns DEF Steps
    <2>2. CASE Reports(c, k, FailureReport(c, k, dirty))
      <3>1. task' \in Table /\ Turns(c, k, "status") /\ task'[c][k].report = FailureReport(c, k, dirty)
        BY <1>0, <2>2, ReportTurns, FailureReportIsKnown
      <3> QED BY <3>1, FailureReportIsKnown
    <2> QED BY <1>1, <2>1, <2>2
  <1> HIDE DEF wanted
  <1>7. TypeOK'
    BY <1>2, <1>4, <1>5, <1>6 DEF IInv, TypeOK, Table
  <1>8. OnlyBox(c)
    BY <1>2, <1>4, <1>5 DEF OnlyBox
  <1>9. Pc(c, k)' = pc /\ task'[c][k].at = At(c, k) /\ \A i \in Tokens \ {k} : Pc(c, i)' = Pc(c, i)
    BY <1>0, <1>6 DEF Turns, Others, Alike, Pc, At
  <1>10. Untouched(c)' /\ \A j \in Tokens : Booting(c, j)'
    <2>1. Untouched(c)'
      BY <1>0, <1>2, <1>4, <1>5, <1>9 DEF Untouched, Boxed, Creating
    <2>2. ASSUME NEW j \in Tokens PROVE Booting(c, j)'
      <3>1. Booting(c, j)
        BY DEF IInv, IMachine
      <3>2. Pc(c, j)' \in Creating => j # k
        BY <1>9 DEF Creating
      <3> QED BY <1>2, <1>4, <1>9, <3>1, <3>2 DEF Booting, Creating
    <2> QED BY <2>1, <2>2
  <1>11. ASSUME faults' = 0, WellKept(c) PROVE SoleClean(c, k)
    <2>1. faults = 0 /\ ok
      BY <1>4, <1>11 DEF IInv, TypeOK
    <2>2. c \in vm /\ box[c].status # "unknown" => wanted /\ c \in boxes[At(c, k)]
      <3>1. ASSUME c \in vm, box[c].status # "unknown" PROVE wanted /\ c \in boxes[At(c, k)]
        <4>1. PICK i \in Tokens :
                 \/ Pc(c, i) \in {"bind", "limit"}
                 \/ /\ Pc(c, i) \in Owing \cup {"failing"}
                    /\ c \in boxes[task[c][i].at]
                    /\ Pc(c, i) = "failing" => Wanted(task[c][i].error)
          BY <1>0, <2>1, <3>1 DEF Clean, Owing
        <4>2. i = k
          BY <1>0, <1>11, <4>1, Sole DEF WellKept, Owing
        <4> QED BY <1>0, <4>1, <4>2 DEF Owing, wanted, At
      <3> QED BY <3>1
    <2>3. c \notin vm' \/ box'[c].status = "unknown"
      BY <1>4, <2>1, <2>2
    <2>4. run[c] = "completed" => c \notin vm
      BY <1>0, <2>1 DEF Clean
    <2> QED BY <1>4, <1>5, <1>9, <2>3, <2>4 DEF SoleClean, Owing
  <1>12. Shaped(c, k)'
    BY <1>0, <1>5, <1>6, <1>9 DEF Shaped, Turns, Pc, Executing, Timed
  <1>13. Goes(c, k)
    BY <1>0, <1>4, <1>5, <1>6, <1>9 DEF Goes, Turns
  <1>14. Begins(c, k) /\ Outcome(c, k)'
    <2>1. pc = "status" /\ task'[c][k].report.run = "queued" => prompts[c] = 0
      BY <1>0, <1>6 DEF Untouched
    <2> QED BY <1>0, <1>6, <1>9, <2>1 DEF Begins, Outcome, Turns, Creating, Sharing, Ready, Early
  <1> QED BY <1>0, <1>2, <1>4, <1>5, <1>7, <1>8, <1>9, <1>10, <1>11, <1>12, <1>13, <1>14, BoxTurn

-----------------------------------------------------------------------------
(* Recovery, and the prompt. *)

LEMMA RecoverReportIsKnown ==
  ASSUME NEW r, NEW recovered, run[r] \in RunStatus
  PROVE  LET report == RecoverReport(r, recovered) IN
         /\ report \in Reported
         /\ report.run # "none" => report \in {IsUnknown, GoesBack}
         /\ report.run = "queued" => run[r] \in {"queued", "provisioning"}
         /\ report.run = "none" =>
               /\ report.cmd = "acknowledged" => run[r] = "completed"
               /\ report.cmd = "cancelled" => run[r] = "cancelled"
               /\ report.cmd = "unknown" => run[r] \in {"unknown", "timed_out"}
               /\ report.cmd = "dead_lettered" => run[r] \in {"failed", "timed_out"}
               /\ report.cmd \in {"acknowledged", "cancelled", "unknown", "dead_lettered"}
  <1> DEFINE report == RecoverReport(r, recovered)
  <1>1. \/ report = IsUnknown
        \/ report = GoesBack /\ run[r] \in {"queued", "provisioning"}
        \/ report = OnlySettle("acknowledged") /\ run[r] = "completed"
        \/ report = OnlySettle("dead_lettered") /\ run[r] \in {"failed", "timed_out"}
        \/ report = OnlySettle("cancelled") /\ run[r] = "cancelled"
        \/ report = OnlySettle("unknown") /\ run[r] = "unknown"
    BY DEF RecoverReport, RunStatus, Allowed
  <1>2. {"acknowledged", "cancelled", "unknown", "dead_lettered"} \subseteq Settled
    BY DEF Settled
  <1>3. report \in Reported
    BY <1>1, <1>2, ReportsAreKnown
  <1> HIDE DEF report
  <1>4. /\ report.run # "none" => report \in {IsUnknown, GoesBack}
        /\ report.run = "queued" => run[r] \in {"queued", "provisioning"}
        /\ report.run = "none" =>
               /\ report.cmd = "acknowledged" => run[r] = "completed"
               /\ report.cmd = "cancelled" => run[r] = "cancelled"
               /\ report.cmd = "unknown" => run[r] \in {"unknown", "timed_out"}
               /\ report.cmd = "dead_lettered" => run[r] \in {"failed", "timed_out"}
               /\ report.cmd \in {"acknowledged", "cancelled", "unknown", "dead_lettered"}
    BY <1>1 DEF IsUnknown, GoesBack, OnlySettle, Report
  <1> QED BY <1>3, <1>4 DEF report

\* What recovery does to the sandbox of a run that has one.
LEMMA RecoverBoxFacts ==
  ASSUME IInv, NEW m \in Runs, NEW ok \in BOOLEAN, RecoverBox(m, ok)
  PROVE  /\ box' \in [Runs -> [status : DOMAIN BoxAllowed, handle : BOOLEAN]] /\ vm' \subseteq vm
         /\ \A r \in Runs \ {m} : box'[r] = box[r] /\ (r \in vm' <=> r \in vm)
         /\ box'[m].handle = box[m].handle
         /\ box'[m].status = "none" => box[m].status = "none"
         /\ m \in vm' => box'[m].status = "unknown"
         /\ box[m].status # "none" /\ ~box[m].handle => box'[m].status \in {"unknown", "destroyed"}
         /\ box[m].status \in {"provisioning", "unknown"} /\ ~box[m].handle => box'[m].status = "unknown"
  <1>1. /\ box \in [Runs -> [status : DOMAIN BoxAllowed, handle : BOOLEAN]]
        /\ m \in vm => box[m].status \in {"provisioning", "running", "unknown"}
    BY DEF IInv, TypeOK, VisibleMachine
  <1>2. CASE Gone(m)
    BY <1>1, <1>2 DEF RecoverBox, Gone
  <1>3. CASE ~Gone(m)
    <2>1. PICK s \in {"destroyed", "unknown"} : s = IF ok /\ box[m].handle THEN "destroyed" ELSE "unknown"
      OBVIOUS
    <2>2. box' = [box EXCEPT ![m].status = s] /\ vm' = IF ok /\ box[m].handle THEN vm \ {m} ELSE vm
      BY <1>3, <2>1 DEF RecoverBox
    <2>3. s \in DOMAIN BoxAllowed
      BY DEF BoxAllowed
    <2>4. box' \in [Runs -> [status : DOMAIN BoxAllowed, handle : BOOLEAN]] /\ box'[m].status = s
          /\ box'[m].handle = box[m].handle /\ \A r \in Runs \ {m} : box'[r] = box[r]
      BY <1>1, <2>2, <2>3
    <2> QED BY <1>3, <2>1, <2>2, <2>4 DEF Gone
  <1> QED BY <1>2, <1>3

LEMMA RecoverKeeps ==
  ASSUME IInv, NEW c \in Commands, NEW k \in Tokens, Recover(c, k)
  PROVE  IInv'
  <1>00. PICK m \in Runs : m = RunOf(c)
    BY RunOfIsRun DEF IInv
  <1>0. /\ task \in Table /\ Pc(c, k) = "recover" /\ Shaped(c, k) /\ m \in Runs /\ k \in Nat
        /\ (c \in Runs => m = c /\ c \notin Cancels) /\ (c \in Cancels => m = target[c] /\ c \notin Runs)
    BY <1>00, Constants, TaskFacts DEF IInv, Recover, Working, Pc, IShaped
  <1>1. run[m] \in RunStatus
    <2>1. k <= cmd[c].attempts /\ k \in 1 .. MaxClaims /\ cmd[c].attempts \in Nat
      BY <1>0, TaskFacts DEF Shaped, Tokens, IInv
    <2>2. cmd[c].status # "none"
      BY <2>1 DEF IInv, IRows, Rows
    <2> QED BY <1>00, <2>2 DEF IInv, IRows, Known, TypeOK
  <1>2. PICK ok \in BOOLEAN, recovered \in BOOLEAN :
          /\ MayFail(ok)
          /\ IF run[m] \in Occupied THEN RecoverBox(m, ok) ELSE UNCHANGED boxVars
          /\ Reports(c, k, RecoverReport(m, recovered))
    <2>1. \A ok \in BOOLEAN : (Gone(m) \/ (ok /\ box[m].handle)) \in BOOLEAN
      OBVIOUS
    <2> QED BY <1>00, <2>1, Zenon DEF Recover
  <1> DEFINE report == RecoverReport(m, recovered)
  <1>3. /\ report \in Reported
        /\ report.run # "none" => report \in {IsUnknown, GoesBack}
        /\ report.run = "queued" => run[m] \in {"queued", "provisioning"}
        /\ report.run = "none" =>
               /\ report.cmd = "acknowledged" => run[m] = "completed"
               /\ report.cmd = "cancelled" => run[m] = "cancelled"
               /\ report.cmd = "unknown" => run[m] \in {"unknown", "timed_out"}
               /\ report.cmd = "dead_lettered" => run[m] \in {"failed", "timed_out"}
               /\ report.cmd \in {"acknowledged", "cancelled", "unknown", "dead_lettered"}
    BY <1>1, RecoverReportIsKnown
  <1>4. Reports(c, k, report)
    BY <1>2
  <1> HIDE DEF report
  <1>5. task' \in Table /\ Turns(c, k, IF report.run = "none" THEN "settle" ELSE "status")
        /\ task'[c][k].report = report
    BY <1>0, <1>3, <1>4, ReportTurns
  <1>6. UNCHANGED <<run, cmd, target, session, web, poll, draining, inFlight, active, boxes, prompts>>
        /\ faults' \in Nat /\ faults <= faults'
    BY <1>2 DEF Recover, rowVars, mapVars, MayFail, Fault, IInv, TypeOK
  <1>7. c \in Runs /\ report.run = "queued" => (Forward(c) => prompts[c] = 0)
    BY <1>0, <1>3, HolderOpen
  <1>8. {IsUnknown, GoesBack} \subseteq ReportSet
    BY DEF ReportSet
  <1>9. CASE run[m] \notin Occupied
    <2>1. TypeOK' /\ Rest
      BY <1>2, <1>5, <1>6, <1>9 DEF IInv, TypeOK, Table, Rest, boxVars
    <2> QED BY <1>0, <1>3, <1>5, <1>7, <1>8, <2>1, ReportKeeps
  <1>10. CASE run[m] \in Occupied
    <2>1. /\ box' \in [Runs -> [status : DOMAIN BoxAllowed, handle : BOOLEAN]] /\ vm' \subseteq vm
          /\ \A r \in Runs \ {m} : box'[r] = box[r] /\ (r \in vm' <=> r \in vm)
          /\ box'[m].handle = box[m].handle
          /\ box'[m].status = "none" => box[m].status = "none"
          /\ m \in vm' => box'[m].status = "unknown"
          /\ box[m].status \in {"provisioning", "unknown"} /\ ~box[m].handle => box'[m].status = "unknown"
      BY <1>0, <1>2, <1>10, RecoverBoxFacts
    <2>2. TypeOK'
      BY <1>5, <1>6, <2>1 DEF IInv, TypeOK, Table
    <2>3. OnlyBox(m)
      BY <1>6, <2>1 DEF OnlyBox
    <2>4. Pc(c, k)' = (IF report.run = "none" THEN "settle" ELSE "status") /\ task'[c][k].at = task[c][k].at
          /\ task'[c][k].kind = task[c][k].kind
      BY <1>5 DEF Turns, Pc
    <2>5. \A i \in Tokens : Pc(m, i)' \in Boxed \/ Pc(m, i) \in Boxed => Pc(m, i)' = Pc(m, i)
      <3>1. m \in Commands
        BY <1>0, Constants
      <3>2. Pc(c, k) \notin Boxed /\ Pc(c, k)' \notin Boxed
        BY <1>0, <2>4 DEF Boxed, Creating
      <3>3. \A i \in Tokens : m # c \/ i # k => Pc(m, i)' = Pc(m, i)
        BY <1>5, <3>1 DEF Turns, Others, Alike, Pc
      <3> QED BY <3>2, <3>3
    <2>6. Untouched(m)' /\ \A j \in Tokens : Booting(m, j)'
      <3>1. Untouched(m) /\ \A j \in Tokens : Booting(m, j)
        BY <1>0 DEF IInv, IMachine
      <3>2. Untouched(m)'
        <4>1. box'[m].status = "none" => ~box'[m].handle /\ prompts'[m] = 0 /\ m \notin vm'
                 /\ (\A w \in Runners : m \notin boxes'[w]) /\ \A i \in Tokens : Pc(m, i) \notin Boxed
          BY <1>6, <2>1, <3>1 DEF Untouched
        <4>2. \A i \in Tokens : Pc(m, i)' \in Boxed => Pc(m, i) \in Boxed
          BY <2>5
        <4> QED BY <4>1, <4>2 DEF Untouched
      <3>3. ASSUME NEW j \in Tokens PROVE Booting(m, j)'
        <4>1. Booting(m, j) /\ \A i \in Tokens : Pc(m, i)' \in Creating => Pc(m, i)' = Pc(m, i)
          BY <2>5, <3>1 DEF Boxed
        <4>2. Pc(m, j)' \in Creating => Pc(m, j)' = Pc(m, j) /\ \A i \in Tokens \ {j} : Pc(m, i)' \notin Creating
          BY <4>1 DEF Booting
        <4>3. Pc(m, j) = "boot" => /\ box'[m].status = "unknown" /\ ~box'[m].handle
                                      /\ \A w \in Runners : m \notin boxes'[w]
          BY <1>6, <2>1, <4>1 DEF Booting, Creating
        <4> QED BY <4>2, <4>3 DEF Booting, Creating
      <3> QED BY <3>2, <3>3
    <2>7. Shaped(c, k)'
      BY <1>0, <1>3, <1>5, <1>6, <1>8, <2>4 DEF Shaped, Pc, Executing, Timed
    <2>8. Goes(c, k)
      BY <1>0, <1>5, <1>6, <2>4 DEF Goes, Turns
    <2>9. ASSUME c \in Runs
          PROVE  Begins(c, k) /\ Outcome(c, k)' /\ (Pc(c, k)' = "start" => Pc(c, k) = "start") /\ SoleClean(c, k)
      <3>1. Outcome(c, k)'
        BY <1>0, <1>3, <1>5, <1>6, <2>4, <2>9 DEF Outcome
      <3>2. Begins(c, k)
        BY <1>0, <1>5, <1>7, <2>4, <2>9 DEF Begins, Creating, Sharing, Ready, Early
      <3>3. SoleClean(c, k)
        BY <1>0, <1>6, <1>10, <2>1, <2>4, <2>9 DEF SoleClean, Owing, Occupied
      <3> QED BY <2>4, <3>1, <3>2, <3>3
    <2>10. c \in Cancels => ~Steady(m)
      <3>1. task[c][k].kind = "recover"
        BY <1>0 DEF Shaped
      <3> QED BY <1>0, <1>10, <3>1 DEF Steady, Answered, Occupied, Ended
    <2> QED BY <1>0, <1>6, <2>1, <2>2, <2>3, <2>6, <2>7, <2>8, <2>9, <2>10, <1>00, BoxTurn
  <1> QED BY <1>9, <1>10

-----------------------------------------------------------------------------
(* The prompt. *)

LEMMA StartPromptFacts ==
  ASSUME IInv, NEW c \in Runs, NEW k \in Tokens, StartPrompt(c, k)
  PROVE  /\ Pc(c, k) = "start" /\ task' \in Table
         /\ UNCHANGED <<run, cmd, target, box, vm, web, poll, draining, inFlight, active, boxes, faults>>
         /\ session' = "open"
         /\ \/ prompts' = prompts /\ Turns(c, k, "failing") /\ task'[c][k].error \in {"lost", "abort"}
            \/ Holds(c, k) /\ prompts' = [prompts EXCEPT ![c] = @ + 1] /\ Turns(c, k, "prompt")
  <1>0. c \in Commands /\ task \in Table /\ task[c][k] \in Tasks
    BY Constants, TaskFacts DEF IInv
  <1> DEFINE prompting == Holds(c, k) /\ ~Aborted(c, k)
  <1> DEFINE t == [task[c][k] EXCEPT !.started = TRUE,
                         !.pc = IF prompting THEN "prompt" ELSE "failing",
                         !.error = IF prompting THEN task[c][k].error ELSE IF ~Holds(c, k) THEN "lost" ELSE "abort"]
  <1>1. t \in Tasks
    BY <1>0 DEF Tasks, Steps, Timed, Errors
  <1>2. task' = [task EXCEPT ![c][k] = t]
    BY Zenon DEF StartPrompt
  <1>3. /\ t.pc = IF prompting THEN "prompt" ELSE "failing"
        /\ t.at = task[c][k].at /\ t.kind = task[c][k].kind
        /\ ~prompting => t.error \in {"lost", "abort"}
    BY <1>0 DEF Tasks
  <1> HIDE DEF t
  <1>4. task' \in Table /\ Others(c, k) /\ task'[c][k] = t
    BY <1>0, <1>1, <1>2, PutTask
  <1>5. /\ Pc(c, k) = "start" /\ session' = "open"
        /\ UNCHANGED <<run, cmd, target, box, vm, web, poll, draining, inFlight, active, boxes, faults>>
        /\ prompts' = IF prompting THEN [prompts EXCEPT ![c] = @ + 1] ELSE prompts
    BY DEF StartPrompt, Working, Pc, boxVars, mapVars
  <1> QED BY <1>3, <1>4, <1>5 DEF Turns

LEMMA StartPromptKeeps ==
  ASSUME IInv, NEW c \in Runs, NEW k \in Tokens, StartPrompt(c, k)
  PROVE  IInv'
  <1> USE DEF IInv
  <1>0. c \in Commands /\ c \notin Cancels /\ prompts \in [Runs -> Nat] /\ faults \in Nat /\ Pc(c, k) = "start"
    BY Constants, StartPromptFacts DEF TypeOK
  <1>1. task' \in Table /\ session' = "open"
        /\ UNCHANGED <<run, cmd, target, box, vm, web, poll, draining, inFlight, active, boxes, faults>>
    BY StartPromptFacts
  <1>2. CASE prompts' = prompts /\ Turns(c, k, "failing") /\ task'[c][k].error \in {"lost", "abort"}
    <2>1. TypeOK' /\ Rest
      BY <1>1, <1>2 DEF TypeOK, Table, Rest
    <2> QED BY <1>0, <1>2, <2>1, ExecutionKeeps DEF Executing, Timed, Boxed, Creating, Sharing, Ready, Early,
                                                    Owing, Wanted
  <1>3. CASE Holds(c, k) /\ prompts' = [prompts EXCEPT ![c] = @ + 1] /\ Turns(c, k, "prompt")
    <2>1. prompts' \in [Runs -> Nat] /\ prompts'[c] = prompts[c] + 1
          /\ \A r \in Runs \ {c} : prompts'[r] = prompts[r]
      BY <1>0, <1>3
    <2>2. TypeOK'
      BY <1>1, <2>1 DEF TypeOK, Table
    <2>3. Shaped(c, k)' /\ Outcome(c, k)'
      BY <1>0, <1>1, <1>3, RunningIsShaped DEF Executing, Timed
    <2>4. Pc(c, k)' = "prompt" /\ task'[c][k].at = task[c][k].at /\ task'[c][k].kind = task[c][k].kind /\ Others(c,
               k)
      BY <1>3 DEF Turns, Pc
    <2>5. NoneNew /\ Follows
      BY <1>0, <1>1, <2>4 DEF NoneNew, Others, Alike, Pc, Follows
    <2>6. IRows'
      BY <1>1, RowsKept
    <2>7. IPolled'
      BY <1>1, <2>5, PolledKept DEF NoneNew
    <2>8. IShaped'
      BY <1>0, <1>1, <2>3, <2>4, ShapedKept
    <2>9. IOutcome'
      BY <1>0, <1>1, <2>3, <2>4, OutcomeKept
    <2>10. IMachine' /\ VisibleMachine'
      <3>1. OnlyBox(c) /\ (c \in Runs => c = c)
        BY <1>1, <2>1 DEF OnlyBox
      <3>2. \A i \in Tokens \ {k} : Pc(c, i)' = Pc(c, i)
        BY <1>0, <2>4 DEF Others, Alike, Pc
      <3>3. Untouched(c)'
        BY <1>0, <1>1 DEF IMachine, Untouched, Boxed
      <3>4. \A j \in Tokens : Booting(c, j)'
        BY <1>0, <1>1, <2>4, <3>2 DEF IMachine, Booting, Creating
      <3> QED BY <1>0, <1>1, <2>2, <2>4, <3>1, <3>3, <3>4, OnlyBoxKeepsMachine DEF VisibleMachine, TypeOK
    <2>11. IOnce'
      <3> SUFFICES ASSUME NEW r \in Runs PROVE Once(r)'
        BY DEF IOnce
      <3>0. r \in Commands
        BY Constants
      <3>1. ASSUME WellKept(r) PROVE WellKept(r)'
        <4>1. Kept(r)'
          BY <1>1, <2>5, <3>0, <3>1, KeptKept DEF WellKept
        <4>2. CASE r # c
          BY <1>0, <1>1, <2>1, <2>4, <3>1, <4>1, <4>2, WellKeptKept
        <4>3. CASE r = c
          <5>1. prompts[c] = 0 /\ \A i \in Tokens \ {k} : Pc(c, i) = "none" /\ Pc(c, i)' = "none"
            BY <1>0, <2>5, <3>1, <4>3, Sole DEF WellKept, Ready, NoneNew
          <5>2. \A i \in Tokens : Pc(c, i)' \notin Creating \cup Ready
            BY <2>4, <5>1 DEF Creating, Ready
          <5>3. ASSUME NEW w \in Runners, c \in boxes'[w]
                PROVE  \E i \in Tokens : Pc(c, i)' \in Sharing /\ task'[c][i].kind = "execute" /\ task'[c][i].at = w
            <6>1. PICK i \in Tokens : Pc(c, i) \in Sharing /\ task[c][i].kind = "execute" /\ task[c][i].at = w
              BY <1>1, <3>1, <4>3, <5>3 DEF WellKept
            <6>2. i = k
              BY <5>1, <6>1 DEF Sharing
            <6> QED BY <2>4, <6>1, <6>2 DEF Sharing
          <5> QED BY <2>1, <4>1, <4>3, <5>1, <5>2, <5>3 DEF WellKept
        <4> QED BY <4>2, <4>3
      <3>2. ASSUME Forward(r) PROVE Forward(r)'
        <4>1. \A i \in Tokens : Holds(r, i)' = Holds(r, i)
          BY <1>1 DEF Holds, Live
        <4>2. CASE r # c
          <5>1. \A i \in Tokens : Pc(r, i)' = Pc(r, i)
            BY <2>4, <3>0, <4>2 DEF Others, Alike, Pc
          <5> QED BY <1>0, <1>1, <2>1, <2>4, <3>2, <4>1, <4>2, <5>1, ForwardKept DEF Forward
        <4>3. CASE r = c
          <5>1. prompts[c] = 0 /\ run[c] \in {"running"} \cup Ended
            BY <1>0, <1>3, <3>2, <4>3 DEF Forward, Ready
          <5>2. \A i \in Tokens : Holds(c, i) => i = k
            BY <1>3 DEF Holds
          <5>3. Pc(c, k)' \notin {"check", "create", "start", "status"} \cup Creating \cup Ready
            BY <2>4 DEF Creating, Ready
          <5> QED BY <1>1, <2>1, <4>1, <4>3, <5>1, <5>2, <5>3 DEF Forward
        <4> QED BY <4>2, <4>3
      <3>3. ASSUME NEW d \in Cancels, Kept(d), Answered(d) PROVE Kept(d)' /\ Answered(d)'
        <4>1. d \in Commands
          BY Constants
        <4>2. \A i \in Tokens : Pc(d, i) # "none" => Pc(d, i)' # "none" /\ task'[d][i].kind = task[d][i].kind
          BY <1>0, <2>4, <4>1 DEF Others, Alike, Pc
        <4>3. Answered(d)'
          BY <1>1, <2>5, <3>3, <4>2, AnsweredKept
        <4> QED BY <1>1, <2>5, <3>3, <4>1, <4>3, KeptKept
      <3>4. \A d \in Cancels : cmd[d].attempts <= cmd'[d].attempts
        BY <1>1, Constants, TaskFacts
      <3>5. Once(r) /\ faults <= faults'
        BY <1>0, <1>1 DEF IOnce
      <3> QED BY <1>1, <2>2, <3>1, <3>2, <3>3, <3>4, <3>5, OnceKept
    <2>12. IClean'
      <3> SUFFICES ASSUME NEW r \in Runs, faults' = 0 PROVE Clean(r)'
        BY DEF IClean, Clean
      <3>1. CASE r # c
        BY <1>0, <1>1, <2>2, <2>4, <3>1, OthersAreClean
      <3>2. CASE r = c
        <4>1. Clean(c) /\ WellKept(c) /\ faults = 0
          BY <1>1 DEF IClean, IOnce, Once
        <4>2. c \in boxes[task[c][k].at] /\ (run[c] = "completed" => c \notin vm)
          BY <1>0, <4>1 DEF Clean
        <4>3. SoleClean(c, k)
          BY <1>1, <2>4, <4>2 DEF SoleClean, Owing
        <4> QED BY <1>0, <2>4, <3>2, <4>1, <4>3, SoleIsClean
      <3> QED BY <3>1, <3>2
    <2>13. OutcomesAgree'
      BY <1>1 DEF OutcomesAgree
    <2> QED BY <2>2, <2>6, <2>7, <2>8, <2>9, <2>10, <2>11, <2>12, <2>13
  <1> QED BY <1>2, <1>3, StartPromptFacts

-----------------------------------------------------------------------------
(* The end of a command. *)

LEMMA ReleasedIsTyped ==
  ASSUME TypeOK, NEW c \in Commands, NEW status \in Settled \cup {"queued"},
         cmd' = [cmd EXCEPT ![c].status = status, ![c].live = FALSE]
  PROVE  cmd' \in [Commands -> [status : CmdStatus, attempts : 0 .. MaxClaims, live : BOOLEAN]]
  <1>1. status \in CmdStatus
    BY DEF CmdStatus, Open
  <1>2. cmd \in [Commands -> [status : CmdStatus, attempts : 0 .. MaxClaims, live : BOOLEAN]]
    BY DEF TypeOK
  <1> DEFINE u == [[cmd[c] EXCEPT !.status = status] EXCEPT !.live = FALSE]
  <1>3. u \in [status : CmdStatus, attempts : 0 .. MaxClaims, live : BOOLEAN]
    BY <1>1, <1>2
  <1>4. cmd' = [d \in Commands |-> IF d = c THEN u ELSE cmd[d]]
    BY <1>2
  <1> HIDE DEF u
  <1> QED BY <1>2, <1>3, <1>4

\* The holder of a lease ends its task and writes the command, and perhaps that the run completed.
LEMMA ReleaseKeeps ==
  ASSUME IInv, TypeOK', NEW c \in Commands, NEW k \in Tokens, Finished(c, k), Holds(c, k),
         Pc(c, k) \in {"settle", "complete"}, NEW status \in Settled \cup {"queued"},
         cmd' = [cmd EXCEPT ![c].status = status, ![c].live = FALSE],
         UNCHANGED <<target, box, vm, web, poll, draining, prompts, faults>>,
         \/ run' = run
         \/ c \in Runs /\ Pc(c, k) = "complete" /\ run[c] \notin Ended \ {"completed"} /\ run[c] # "none"
            /\ run' = [run EXCEPT ![c] = "completed"],
         c \in Runs => /\ status = "acknowledged" <=> run'[c] = "completed"
                       /\ status = "cancelled" => run'[c] = "cancelled"
                       /\ status = "unknown" => run'[c] \in {"unknown", "timed_out"}
                       /\ status = "dead_lettered" => run'[c] \notin Occupied \cup {"completed"}
  PROVE  IInv'
  <1> USE DEF IInv
  <1>0. /\ Pc(c, k)' = "none" /\ Pc(c, k) # "none" /\ Others(c, k)
        /\ cmd[c].status = "leased" /\ cmd[c].attempts = k /\ status \notin {"none", "leased"}
    BY DEF Finished, Pc, Holds, Live, Settled
  <1>1. /\ cmd'[c].status = status /\ cmd'[c].live = FALSE /\ cmd'[c].attempts = cmd[c].attempts
        /\ \A d \in Commands \ {c} : cmd'[d] = cmd[d]
        /\ \A d \in Commands : cmd'[d].attempts = cmd[d].attempts
    BY DEF TypeOK
  <1>2. \A r \in Runs : run'[r] = run[r] \/ (r = c /\ Pc(c,
             k) = "complete" /\ run[r] \notin Ended \cup {"none"} /\ run'[r] = "completed")
    BY DEF TypeOK, Ended
  <1>3. NoneNew /\ Follows
    BY <1>0, <1>2 DEF Others, Alike, Follows, NoneNew, Pc
  <1>4. \A d \in Commands, i \in Tokens : Holds(d, i)' => Holds(d, i) /\ d # c
    BY <1>0, <1>1 DEF Holds, Live
  <1>5. IRows'
    <2> SUFFICES ASSUME NEW d \in Commands PROVE Rows(d)' /\ Known(d)'
      BY DEF IRows
    <2>1. RunOf(d) \in Runs /\ RunOf(d)' = RunOf(d) /\ (d \in Cancels => target[d] \in Runs)
      BY RunOfIsRun DEF RunOf, TypeOK
    <2>2. Rows(d) /\ Known(d)
      BY DEF IRows
    <2>3. Rows(d)'
      BY <1>0, <1>1, <2>2 DEF Rows
    <2>4. \A r \in Runs : run[r] # "none" => run'[r] # "none"
      BY <1>2
    <2>5. d \in Runs /\ web[d] = "idle" => d # c
      BY <1>0, <2>2 DEF Rows
    <2>6. d \in Runs /\ web[d] = "idle" => run'[d] = "none"
      BY <1>2, <2>2, <2>5 DEF Known
    <2>7. cmd'[d].status # "none" => cmd[d].status # "none"
      BY <1>0, <1>1
    <2> QED BY <2>1, <2>2, <2>3, <2>4, <2>6, <2>7 DEF Known
  <1>6. IPolled'
    BY <1>1, <1>3, PolledKept DEF NoneNew
  <1>7. IShaped'
    BY <1>0, <1>1, ShapedKept DEF Shaped
  <1>8. IOutcome'
    <2> SUFFICES ASSUME NEW r \in Runs, NEW i \in Tokens, r # c \/ i # k PROVE Outcome(r, i)'
      BY <1>0 DEF IOutcome, Outcome
    <2>1. Alike(r, i) /\ Outcome(r, i) /\ r \in Commands
      BY <1>0, Constants DEF Others, IOutcome
    <2>2. CASE run'[r] = run[r]
      BY <1>4, <2>1, <2>2 DEF Outcome, Alike, Pc
    <2>3. CASE run'[r] # run[r]
      <3>1. r = c /\ run[r] \notin Ended /\ ~Holds(r, i)'
        BY <1>2, <1>4, <2>1, <2>3
      <3> QED BY <2>1, <3>1 DEF Outcome, Alike, Pc, Ended
    <2> QED BY <2>2, <2>3
  <1>9. IMachine'
    BY <1>0, MachineKept DEF Finished, Boxed, Creating
  <1>10. IOnce'
    <2> SUFFICES ASSUME NEW r \in Runs PROVE Once(r)'
      BY DEF IOnce
    <2>0. r \in Commands
      BY Constants
    <2>1. ASSUME NEW d \in Commands, Kept(d) PROVE Kept(d)'
      <3>1. CASE d # c
        BY <1>1, <1>3, <2>1, <3>1, KeptKept
      <3>2. CASE d = c
        <4>1. \A i \in Tokens : Pc(c, i)' = "none"
          BY <1>0, <2>1, <3>2, Sole DEF Others, Alike, Pc
        <4>2. ASSUME NEW w \in Runners, poll[w].step = "claimed", poll[w].cmd = c PROVE FALSE
          <5>1. poll[w].token = k
            BY <1>0, <2>1, <3>2, <4>2 DEF Kept, Holds
          <5> QED BY <1>0, <4>2, <5>1 DEF IPolled, Polled
        <4> QED BY <3>2, <4>1, <4>2 DEF Kept
      <3> QED BY <3>1, <3>2
    <2>2. ASSUME WellKept(r) PROVE WellKept(r)'
      <3>1. Kept(r)'
        BY <2>0, <2>1, <2>2 DEF WellKept
      <3>2. \A w \in Runners : r \in boxes'[w] => r \in boxes[w]
        BY DEF Finished
      <3>3. c = r => \/ Pc(c, k) \notin Sharing \/ task[c][k].kind # "execute" \/ r \notin boxes'[At(c, k)]
        <4>1. At(c, k) \in Runners
          BY <1>0 DEF IShaped, Shaped, At
        <4>2. c = r => RunOf(c) = r
          BY Constants
        <4>3. task[c][k].kind = "execute" => boxes'[At(c, k)] = boxes[At(c, k)] \ {RunOf(c)}
          BY <4>1 DEF Finished
        <4> QED BY <4>2, <4>3
      <3> QED BY <1>0, <2>2, <3>1, <3>2, <3>3, WellKeptKept DEF Creating, Ready
    <2>3. ASSUME Forward(r) PROVE Forward(r)'
      <3>1. \A i \in Tokens : Holds(r, i)' => Holds(r, i)
        BY <1>4, <2>0
      <3>2. prompts[r] = 1 => run'[r] \in {"running", "awaiting_approval"} \cup Ended
        BY <1>2, <2>3 DEF Forward, Ended
      <3>3. \A i \in Tokens : Holds(r, i) /\ Pc(r, i)' = "start" => run'[r] \in {"running"} \cup Ended
        <4>1. \A i \in Tokens : Pc(r, i)' = "start" => Pc(r, i) = "start"
          BY <1>0, <2>0 DEF Others, Alike, Pc
        <4> QED BY <1>2, <2>3, <4>1 DEF Forward, Ended
      <3>4. Pc(c, k)' \notin Early /\ Pc(c, k)' # "status"
        BY <1>0 DEF Early, Creating, Ready
      <3> QED BY <1>0, <2>3, <3>1, <3>2, <3>3, <3>4, ForwardKept
    <2>4. ASSUME NEW d \in Cancels, Kept(d), Answered(d) PROVE Answered(d)'
      <3>1. d \in Commands /\ target[d] \in Runs
        BY Constants DEF TypeOK
      <3>2. CASE d # c
        <4>1. \A i \in Tokens : Pc(d, i) # "none" => Pc(d, i)' # "none" /\ task'[d][i].kind = task[d][i].kind
          BY <1>0, <3>1, <3>2 DEF Others, Alike, Pc
        <4> QED BY <1>1, <1>3, <2>4, <3>1, <3>2, <4>1, AnsweredKept
      <3>3. CASE d = c
        <4>1. \A i \in Tokens : Pc(c, i)' = "none"
          BY <1>0, <2>4, <3>3, Sole DEF Others, Alike, Pc
        <4>2. run[target[c]] \in Ended => run'[target[c]] \in Ended
          BY <1>2, <3>1, <3>3
        <4> QED BY <1>0, <1>1, <2>4, <3>3, <4>1, <4>2 DEF Answered
      <3> QED BY <3>2, <3>3
    <2>5. \A d \in Cancels : d \in Commands /\ cmd[d].attempts <= cmd'[d].attempts
      <3>1. \A d \in Cancels : d \in Commands /\ cmd[d].attempts \in Nat
        BY Constants, TaskFacts
      <3>2. \A d \in Cancels : cmd'[d].attempts = cmd[d].attempts
        BY <1>1, <3>1
      <3>3. \A a \in Nat : a <= a
        OBVIOUS
      <3> QED BY <3>1, <3>2, <3>3, Zenon
    <2>6. faults <= faults'
      BY DEF TypeOK
    <2> QED BY <2>1, <2>2, <2>3, <2>4, <2>5, <2>6, OnceKept DEF IOnce
  <1>11. IClean'
    <2>1. \A r \in Runs : run'[r] = "completed" => run[r] = "completed" \/ (faults' = 0 => r \notin vm)
      BY <1>2 DEF IClean, Clean
    <2>2. Pc(c, k) \notin Leaves /\ Pc(c, k) # "failing"
      BY DEF Leaves, Owing
    <2>3. faults <= faults'
      BY DEF TypeOK
    <2> QED BY <1>0, <2>1, <2>2, <2>3, FinishKeepsClean
  <1>12. VisibleMachine'
    BY DEF VisibleMachine
  <1>13. OutcomesAgree'
    <2> SUFFICES ASSUME NEW r \in Runs
                 PROVE  /\ cmd'[r].status = "acknowledged" <=> run'[r] = "completed"
                        /\ cmd'[r].status = "cancelled" => run'[r] = "cancelled"
                        /\ cmd'[r].status = "unknown" => run'[r] \in {"unknown", "timed_out"}
                        /\ cmd'[r].status = "dead_lettered" => run'[r] \notin Occupied \cup {"completed"}
      BY DEF OutcomesAgree
    <2>1. r \in Commands
      BY Constants
    <2>2. CASE r = c
      BY <1>1, <2>2
    <2>3. CASE r # c
      BY <1>1, <1>2, <2>1, <2>3 DEF OutcomesAgree
    <2> QED BY <2>2, <2>3
  <1> QED BY <1>5, <1>6, <1>7, <1>8, <1>9, <1>10, <1>11, <1>12, <1>13

LEMMA CompleteKeeps ==
  ASSUME IInv, NEW c \in Runs, NEW k \in Tokens, Complete(c, k)
  PROVE  IInv'
  <1>0. c \in Commands /\ c \notin Cancels /\ RunOf(c) = c /\ Pc(c, k) = "complete" /\ Finish(c, k)
    BY Constants DEF Complete, Working, Pc
  <1>1. /\ Finished(c, k) /\ task' \in Table
        /\ inFlight' \in [Runners -> [Runs -> {NoWork} \cup [cmd : Commands, token : Tokens]]]
        /\ active' \in [Runners -> [Runs -> {0} \cup Tokens]]
        /\ boxes' \in [Runners -> SUBSET Runs]
    BY <1>0, Ending
  <1>2. UNCHANGED <<target, box, vm, web, poll, draining, prompts, faults>> /\ session' = "succeeded"
    BY DEF Complete, boxVars
  <1>3. CASE UNCHANGED <<run, cmd>>
    <2>1. TypeOK'
      BY <1>1, <1>2, <1>3 DEF IInv, TypeOK, Table
    <2>2. faults <= faults'
      BY <1>2 DEF IInv, TypeOK
    <2> QED BY <1>0, <1>1, <1>2, <1>3, <2>1, <2>2, FinishKeeps DEF Leaves, Owing
  <1>4. CASE CanMove(c, k, "completed") /\ run' = [run EXCEPT ![c] = "completed"]
             /\ cmd' = [cmd EXCEPT ![c].status = "acknowledged", ![c].live = FALSE]
    <2>1. Holds(c, k) /\ "completed" \in Allowed[run[c]]
      BY <1>0, <1>4 DEF CanMove
    <2>2. run[c] \in RunStatus
      BY <1>0, <2>1 DEF IInv, IRows, Known, Holds, Live, TypeOK
    <2>3. run[c] \notin Ended \ {"completed"} /\ run[c] # "none"
      BY <2>1, <2>2, EndedStays
    <2>4. run' \in [Runs -> RunStatus \cup {"none"}] /\ run'[c] = "completed"
      BY <1>4 DEF IInv, TypeOK, RunStatus, Allowed
    <2>5. cmd' \in [Commands -> [status : CmdStatus, attempts : 0 .. MaxClaims, live : BOOLEAN]]
      <3>1. "acknowledged" \in Settled \cup {"queued"}
        BY DEF Settled
      <3> QED BY <1>0, <1>4, <3>1, ReleasedIsTyped DEF IInv
    <2>6. TypeOK'
      BY <1>1, <1>2, <2>4, <2>5 DEF IInv, TypeOK, Table
    <2> QED BY <1>0, <1>1, <1>2, <1>4, <2>1, <2>3, <2>4, <2>6, ReleaseKeeps DEF Settled
  <1> QED BY <1>0, <1>3, <1>4 DEF Complete, Move

LEMMA SettleKeeps ==
  ASSUME IInv, NEW c \in Commands, NEW k \in Tokens, Settle(c, k)
  PROVE  IInv'
  <1>0. Pc(c, k) = "settle" /\ Finish(c, k) /\ task[c][k] \in Tasks /\ task[c][k].report \in Reported
    <2>1. Pc(c, k) = "settle" /\ Finish(c, k) /\ task[c][k] \in Tasks
      BY TaskFacts DEF Settle, Working, Pc, IInv
    <2> QED BY <2>1 DEF IInv, IShaped, Shaped
  <1>1. /\ Finished(c, k) /\ task' \in Table
        /\ inFlight' \in [Runners -> [Runs -> {NoWork} \cup [cmd : Commands, token : Tokens]]]
        /\ active' \in [Runners -> [Runs -> {0} \cup Tokens]]
        /\ boxes' \in [Runners -> SUBSET Runs]
    BY <1>0, Ending
  <1>2. UNCHANGED <<run, target, box, vm, web, poll, draining, prompts, faults>>
    BY DEF Settle, boxVars
  <1>3. session' \in {"open", "ended", "succeeded"}
    <2>1. task[c][k].report.run # "none" => task[c][k].report.session \in {"open", "ended"}
      BY <1>0 DEF Reported
    <2> QED BY <2>1 DEF Settle, IInv, TypeOK
  <1>4. CASE ~Holds(c, k)
    <2>1. cmd' = cmd
      BY <1>4 DEF Settle
    <2>2. TypeOK'
      BY <1>1, <1>2, <1>3, <2>1 DEF IInv, TypeOK, Table
    <2>3. faults <= faults' /\ ~Kept(c)
      BY <1>0, <1>2, <1>4 DEF IInv, TypeOK, Kept
    <2> QED BY <1>0, <1>1, <1>2, <2>1, <2>2, <2>3, FinishKeeps DEF Leaves, Owing
  <1>5. CASE Holds(c, k)
    <2> DEFINE answer == task[c][k].report.cmd
    <2>1. answer \in Settled \cup {"queued"}
      BY <1>0 DEF Reported
    <2>2. PICK status \in Settled \cup {"queued"} :
             /\ status = answer \/ (answer = "queued" /\ status = "dead_lettered")
             /\ cmd' = [cmd EXCEPT ![c].status = status, ![c].live = FALSE]
      <3>1. Settling(c, answer) \in Settled \cup {"queued"}
            /\ (Settling(c, answer) = answer \/ (answer = "queued" /\ Settling(c, answer) = "dead_lettered"))
        BY <2>1 DEF Settling, Settled
      <3> QED BY <1>5, <3>1 DEF Settle
    <2>3. ASSUME c \in Runs
          PROVE  /\ status = "acknowledged" <=> run[c] = "completed"
                 /\ status = "cancelled" => run[c] = "cancelled"
                 /\ status = "unknown" => run[c] \in {"unknown", "timed_out"}
                 /\ status = "dead_lettered" => run[c] \notin Occupied \cup {"completed"}
      <3>1. Outcome(c, k) /\ cmd[c].status = "leased"
        BY <1>5, <2>3 DEF IInv, IOutcome, Holds, Live
      <3> QED BY <1>0, <1>5, <2>2, <2>3, <3>1 DEF Outcome, Occupied, IInv, OutcomesAgree
    <2>4. cmd' \in [Commands -> [status : CmdStatus, attempts : 0 .. MaxClaims, live : BOOLEAN]]
      BY <2>2, ReleasedIsTyped DEF IInv
    <2>5. TypeOK'
      BY <1>1, <1>2, <1>3, <2>4 DEF IInv, TypeOK, Table
    <2> QED BY <1>0, <1>1, <1>2, <1>5, <2>2, <2>3, <2>5, ReleaseKeeps
  <1> QED BY <1>4, <1>5

-----------------------------------------------------------------------------
(* New commands. *)

\* What the cancel commands of run r promise survives.
CancelsKept(r) ==
    \A c \in Cancels : target[c] = r /\ Kept(c) /\ Answered(c) => Kept(c)' /\ Answered(c)'

\* A step that writes rows and polls, and touches no task and no sandbox.
LEMMA RowKeeps ==
  ASSUME IInv, TypeOK', UNCHANGED <<target, box, vm, task, boxes, prompts, draining>>, faults <= faults',
         IRows', IPolled', OutcomesAgree',
         \A c \in Commands : cmd[c].attempts <= cmd'[c].attempts,
         \A c \in Commands, k \in Tokens : Pc(c, k) # "none" /\ Holds(c, k)' => Holds(c, k),
         \A r \in Runs : run'[r] = run[r] \/ (run[r] = "none" /\ run'[r] = "queued" /\ \A k \in Tokens : Pc(r,
                    k) = "none"),
         \A r \in Runs : faults' = faults /\ draining = {} => CancelsKept(r),
         \A r \in Runs : Kept(r) => Kept(r)' \/ (faults' = faults + 1 /\ CancelsKept(r))
  PROVE  IInv'
  <1> USE DEF IInv
  <1>0. \A c, k : Pc(c, k)' = Pc(c, k)
    BY DEF Pc
  <1>1. IShaped'
    <2> SUFFICES ASSUME NEW c \in Commands, NEW k \in Tokens PROVE Shaped(c, k)'
      BY DEF IShaped
    <2>1. Shaped(c, k)
      BY DEF IShaped
    <2>2. k \in Nat /\ cmd[c].attempts \in Nat /\ cmd'[c].attempts \in Nat /\ cmd[c].attempts <= cmd'[c].attempts
      BY TaskFacts DEF TypeOK
    <2>3. k <= cmd[c].attempts => k <= cmd'[c].attempts
      BY <2>2
    <2> QED BY <1>0, <2>1, <2>3 DEF Shaped
  <1>2. IOutcome'
    <2> SUFFICES ASSUME NEW r \in Runs, NEW k \in Tokens, Pc(r, k) = "settle" PROVE Outcome(r, k)'
      BY <1>0 DEF IOutcome, Outcome
    <2>1. Outcome(r, k) /\ run'[r] = run[r] /\ (Holds(r, k)' => Holds(r, k))
      BY Constants DEF IOutcome
    <2> QED BY <1>0, <2>1 DEF Outcome
  <1>3. IMachine' /\ VisibleMachine'
    BY <1>0 DEF IMachine, Untouched, Booting, VisibleMachine
  <1>4. IClean'
    <2> SUFFICES ASSUME NEW r \in Runs, faults' = 0 PROVE Clean(r)'
      BY DEF IClean, Clean
    <2>1. faults = 0 /\ Clean(r) /\ (run'[r] = "completed" => run[r] = "completed")
      BY DEF TypeOK, IClean
    <2> QED BY <1>0, <2>1 DEF Clean
  <1>5. IOnce'
    <2> SUFFICES ASSUME NEW r \in Runs PROVE Once(r)'
      BY DEF IOnce
    <2>0. r \in Commands /\ Once(r) /\ faults \in Nat /\ faults' \in Nat /\ prompts[r] \in Nat
      BY Constants DEF IOnce, TypeOK
    <2>1. WellKept(r) /\ Kept(r)' => WellKept(r)'
      BY <1>0 DEF WellKept
    <2>2. ASSUME Forward(r) PROVE Forward(r)'
      <3>1. prompts[r] = 1 => run'[r] = run[r]
        BY <2>2 DEF Forward, Ended
      <3>2. ASSUME NEW i \in Tokens, Pc(r, i) # "none", Holds(r, i)'
            PROVE  Holds(r, i) /\ run'[r] = run[r]
        BY <2>0, <3>2
      <3>3. prompts'[r] = prompts[r] /\ prompts[r] <= 1
        BY <2>2 DEF Forward
      <3>4. ASSUME NEW i \in Tokens, Holds(r, i)'
            PROVE  /\ Pc(r, i)' \in {"check", "create"} \cup Creating \cup Ready => prompts'[r] = 0
                   /\ Pc(r, i)' = "start" => run'[r] \in {"running"} \cup Ended
                   /\ Pc(r, i)' = "status" /\ task'[r][i].report.run = "queued" => prompts'[r] = 0
        BY <1>0, <2>2, <3>2, <3>3, <3>4 DEF Forward, Creating, Ready
      <3> QED BY <2>2, <3>1, <3>3, <3>4 DEF Forward
    <2>3. CASE Kept(r) => Kept(r)'
      <3>1. WellKept(r) => WellKept(r)'
        BY <2>1, <2>3 DEF WellKept
      <3>2. \A c \in Cancels : cmd[c].attempts <= cmd'[c].attempts
        BY Constants
      <3> QED BY <2>0, <2>2, <3>1, <3>2, OnceKept DEF CancelsKept
    <2>4. CASE faults' = faults + 1 /\ CancelsKept(r)
      <3>1. Steady(r) => Steady(r)'
        BY <2>2, <2>4 DEF Steady, CancelsKept
      <3>2. ASSUME \A c \in Cancels : target'[c] = r => ClaimedOnce(c)' PROVE Forward(r)'
        <4>1. ASSUME NEW c \in Cancels, target[c] = r PROVE ClaimedOnce(c)
          <5>1. c \in Commands /\ cmd[c].attempts \in Nat /\ cmd'[c].attempts \in Nat /\ cmd'[c].attempts <= 1
            BY <3>2, <4>1, Constants, TaskFacts DEF ClaimedOnce, TypeOK
          <5> QED BY <5>1 DEF ClaimedOnce
        <4> QED BY <2>0, <2>2, <4>1 DEF Once
      <3> QED BY <2>0, <2>4, <3>1, <3>2 DEF Once
    <2> QED BY <2>3, <2>4
  <1> QED BY <1>1, <1>2, <1>3, <1>4, <1>5

\* A command that was never claimed has no task and no poll.
LEMMA NeverClaimed ==
  ASSUME IInv, NEW c \in Commands, cmd[c].status = "none"
  PROVE  /\ cmd[c].attempts = 0 /\ cmd[c].live = FALSE /\ \A k \in Tokens : Pc(c, k) = "none"
         /\ \A w \in Runners : ~(poll[w].step = "claimed" /\ poll[w].cmd = c)
  <1>1. cmd[c].attempts = 0
    BY DEF IInv, IRows, Rows
  <1>2. \A k \in Tokens : k \in Nat \ {0}
    BY SizeAssumption DEF Tokens
  <1>3. \A k \in Tokens : Pc(c, k) = "none"
    BY <1>1, <1>2 DEF IInv, IShaped, Shaped
  <1>4. ASSUME NEW w \in Runners, poll[w].step = "claimed", poll[w].cmd = c PROVE FALSE
    <2>1. poll[w] \in Polls
      BY DEF IInv, TypeOK
    <2>2. poll[w].token \in Tokens
      BY <1>4, <2>1 DEF Polls, NoPoll
    <2> QED BY <1>1, <1>2, <1>4, <2>2 DEF IInv, IPolled, Polled
  <1>5. cmd[c].live = FALSE
    <2>1. cmd[c].live \in BOOLEAN
      BY DEF IInv, TypeOK
    <2> QED BY <2>1 DEF IInv, IRows, Rows
  <1> QED BY <1>1, <1>3, <1>4, <1>5

\* A command that nobody works on changes its row.
LEMMA AcceptKeeps ==
  ASSUME IInv, TypeOK', NEW c \in Commands, cmd[c].status = "none", cmd' = [cmd EXCEPT ![c].status = "accepted"],
         UNCHANGED <<target, box, vm, poll, task, boxes, prompts, draining, faults>>, IRows',
         \A r \in Runs : run'[r] = run[r] \/ (r = c /\ run[r] = "none" /\ run'[r] = "queued")
  PROVE  IInv'
  <1>0. /\ cmd[c].attempts = 0 /\ cmd[c].live = FALSE /\ \A k \in Tokens : Pc(c, k) = "none"
        /\ \A w \in Runners : ~(poll[w].step = "claimed" /\ poll[w].cmd = c)
    BY NeverClaimed
  <1>1. /\ cmd'[c].status = "accepted" /\ cmd'[c].attempts = cmd[c].attempts
        /\ \A d \in Commands \ {c} : cmd'[d] = cmd[d]
    BY DEF IInv, TypeOK
  <1>2. \A d \in Commands : cmd'[d].attempts = cmd[d].attempts /\ cmd[d].attempts \in Nat
    BY <1>1, Constants, TaskFacts DEF IInv
  <1>3. NoneNew
    BY DEF NoneNew, Pc
  <1>4. IPolled'
    BY <1>2, <1>3, PolledKept DEF NoneNew, IInv
  <1>5. \A a \in Nat : a <= a
    OBVIOUS
  <1>6. \A d \in Commands : cmd[d].attempts <= cmd'[d].attempts
    BY <1>2, <1>5, Zenon
  <1>7. \A d \in Commands, k \in Tokens : Pc(d, k) # "none" /\ Holds(d, k)' => Holds(d, k)
    BY <1>0, <1>1 DEF Holds, Live
  <1>8. ASSUME NEW d \in Commands, Kept(d) PROVE Kept(d)'
    <2>1. CASE d # c
      BY <1>1, <1>3, <1>8, <2>1, KeptKept
    <2>2. CASE d = c
      BY <1>0, <2>2 DEF Kept, Pc
    <2> QED BY <2>1, <2>2
  <1>9. ASSUME NEW d \in Cancels, Answered(d) PROVE Answered(d)'
    <2>0. d \in Commands /\ target[d] \in Runs
      BY Constants DEF IInv, TypeOK
    <2>1. CASE d # c
      <3>1. \A i \in Tokens : Pc(d, i) # "none" => Pc(d, i)' # "none" /\ task'[d][i].kind = task[d][i].kind
        BY DEF Pc
      <3>2. Follows
        BY DEF Follows, Ended
      <3> QED BY <1>1, <1>3, <1>9, <2>0, <2>1, <3>1, <3>2, AnsweredKept DEF IInv
    <2>2. CASE d = c
      BY <1>0, <1>1, <2>2 DEF Answered, Pc
    <2> QED BY <2>1, <2>2
  <1>10. OutcomesAgree'
    <2> SUFFICES ASSUME NEW r \in Runs
                 PROVE  /\ cmd'[r].status = "acknowledged" <=> run'[r] = "completed"
                        /\ cmd'[r].status = "cancelled" => run'[r] = "cancelled"
                        /\ cmd'[r].status = "unknown" => run'[r] \in {"unknown", "timed_out"}
                        /\ cmd'[r].status = "dead_lettered" => run'[r] \notin Occupied \cup {"completed"}
      BY DEF OutcomesAgree
    <2>1. CASE r = c
      BY <1>1, <2>1 DEF IInv, OutcomesAgree
    <2>2. CASE r # c
      BY <1>1, <2>2, Constants DEF IInv, OutcomesAgree
    <2> QED BY <2>1, <2>2
  <1>11. \A r \in Runs : CancelsKept(r) /\ (Kept(r) => Kept(r)')
    BY <1>8, <1>9, Constants DEF CancelsKept
  <1>12. \A r \in Runs : run'[r] = run[r] \/ (run[r] = "none" /\ run'[r] = "queued" /\ \A k \in Tokens : Pc(r,
             k) = "none")
    BY <1>0
  <1>13. faults <= faults'
    BY DEF IInv, TypeOK
  <1> QED BY <1>4, <1>6, <1>7, <1>10, <1>11, <1>12, <1>13, RowKeeps

LEMMA AcceptedIsTyped ==
  ASSUME TypeOK, NEW c \in Commands, cmd' = [cmd EXCEPT ![c].status = "accepted"]
  PROVE  /\ cmd' \in [Commands -> [status : CmdStatus, attempts : 0 .. MaxClaims, live : BOOLEAN]]
         /\ cmd'[c].status = "accepted" /\ cmd'[c].attempts = cmd[c].attempts /\ cmd'[c].live = cmd[c].live
         /\ \A d \in Commands \ {c} : cmd'[d] = cmd[d]
  <1>1. "accepted" \in CmdStatus
    BY DEF CmdStatus, Open
  <1>2. cmd \in [Commands -> [status : CmdStatus, attempts : 0 .. MaxClaims, live : BOOLEAN]]
    BY DEF TypeOK
  <1> DEFINE u == [cmd[c] EXCEPT !.status = "accepted"]
  <1>3. u \in [status : CmdStatus, attempts : 0 .. MaxClaims, live : BOOLEAN]
        /\ u.status = "accepted" /\ u.attempts = cmd[c].attempts /\ u.live = cmd[c].live
    BY <1>1, <1>2
  <1>4. cmd' = [d \in Commands |-> IF d = c THEN u ELSE cmd[d]]
    BY <1>2
  <1> HIDE DEF u
  <1> QED BY <1>2, <1>3, <1>4

LEMMA SendMessageKeeps ==
  ASSUME IInv, NEW c \in Runs, SendMessage(c)
  PROVE  IInv'
  <1>0. c \in Commands /\ c \notin Cancels
    BY Constants
  <1>1. cmd[c].status = "none" /\ run[c] = "none"
    BY <1>0 DEF SendMessage, IInv, IRows, Rows, Known
  <1>2. UNCHANGED <<target, session, box, vm, poll, draining, task, inFlight, active, boxes, prompts, faults>>
        /\ cmd' = [cmd EXCEPT ![c].status = "accepted"]
    BY DEF SendMessage, boxVars, mapVars
  <1>3. /\ cmd' \in [Commands -> [status : CmdStatus, attempts : 0 .. MaxClaims, live : BOOLEAN]]
        /\ cmd'[c].status = "accepted" /\ cmd'[c].attempts = cmd[c].attempts /\ cmd'[c].live = cmd[c].live
        /\ \A d \in Commands \ {c} : cmd'[d] = cmd[d]
    BY <1>0, <1>2, AcceptedIsTyped DEF IInv
  <1>4. /\ run' \in [Runs -> RunStatus \cup {"none"}] /\ run'[c] = "queued"
        /\ \A r \in Runs \ {c} : run'[r] = run[r]
        /\ web' \in [Commands -> {"idle", "found", "writing", "done"}] /\ web'[c] = "writing"
        /\ \A d \in Commands \ {c} : web'[d] = web[d]
    BY <1>0 DEF SendMessage, IInv, TypeOK, RunStatus, Allowed
  <1>5. TypeOK'
    BY <1>2, <1>3, <1>4 DEF IInv, TypeOK
  <1>6. IRows'
    <2> SUFFICES ASSUME NEW d \in Commands PROVE Rows(d)' /\ Known(d)'
      BY DEF IRows
    <2>1. Rows(d) /\ Known(d) /\ RunOf(d) \in Runs /\ RunOf(d)' = RunOf(d) /\ (d \in Cancels => target[d] \in Runs)
      BY <1>2, RunOfIsRun DEF IInv, IRows, RunOf, TypeOK
    <2>2. CASE d = c
      <3>1. RunOf(c) = c /\ cmd[c].attempts = 0 /\ cmd[c].live = FALSE
        BY <1>0, <1>1, NeverClaimed, Constants
      <3> QED BY <1>0, <1>3, <1>4, <2>1, <2>2, <3>1 DEF Rows, Known
    <2>3. CASE d # c
      <3>1. \A r \in Runs : run[r] # "none" => run'[r] # "none"
        BY <1>4
      <3> QED BY <1>2, <1>3, <1>4, <2>1, <2>3, <3>1 DEF Rows, Known
    <2> QED BY <2>2, <2>3
  <1> QED BY <1>0, <1>1, <1>2, <1>4, <1>5, <1>6, AcceptKeeps

LEMMA RequestCancelKeeps ==
  ASSUME IInv, NEW c \in Cancels, RequestCancel(c)
  PROVE  IInv'
  <1>0. c \in Commands /\ c \notin Runs /\ RunOf(c) = target[c]
    BY Constants
  <1>1. cmd[c].status = "none" /\ run[target[c]] # "none"
    BY <1>0 DEF RequestCancel, IInv, IRows, Rows, Known
  <1>2. UNCHANGED <<run, target, session, box, vm, poll, draining, task, inFlight, active, boxes, prompts, faults>>
        /\ cmd' = [cmd EXCEPT ![c].status = "accepted"]
    BY DEF RequestCancel, boxVars, mapVars
  <1>3. /\ cmd' \in [Commands -> [status : CmdStatus, attempts : 0 .. MaxClaims, live : BOOLEAN]]
        /\ cmd'[c].status = "accepted" /\ cmd'[c].attempts = cmd[c].attempts /\ cmd'[c].live = cmd[c].live
        /\ \A d \in Commands \ {c} : cmd'[d] = cmd[d]
    BY <1>0, <1>2, AcceptedIsTyped DEF IInv
  <1>4. /\ web' \in [Commands -> {"idle", "found", "writing", "done"}] /\ web'[c] = "writing"
        /\ \A d \in Commands \ {c} : web'[d] = web[d]
    BY <1>0 DEF RequestCancel, IInv, TypeOK
  <1>5. TypeOK'
    BY <1>2, <1>3, <1>4 DEF IInv, TypeOK
  <1>6. IRows'
    <2> SUFFICES ASSUME NEW d \in Commands PROVE Rows(d)' /\ Known(d)'
      BY DEF IRows
    <2>1. Rows(d) /\ Known(d) /\ RunOf(d)' = RunOf(d)
      BY <1>2 DEF IInv, IRows, RunOf
    <2>2. CASE d = c
      <3>1. cmd[c].attempts = 0 /\ cmd[c].live = FALSE
        BY <1>0, <1>1, NeverClaimed
      <3> QED BY <1>0, <1>1, <1>2, <1>3, <1>4, <2>1, <2>2, <3>1 DEF Rows, Known
    <2>3. CASE d # c
      BY <1>2, <1>3, <1>4, <2>1, <2>3 DEF Rows, Known
    <2> QED BY <2>2, <2>3
  <1> QED BY <1>0, <1>1, <1>2, <1>5, <1>6, AcceptKeeps

-----------------------------------------------------------------------------
(* Requests, polls and claims. *)

\* What a step that leaves commands, runs and tasks alone keeps of them.
LEMMA QuietKeeps ==
  ASSUME IInv, TypeOK', UNCHANGED <<run, cmd, target, box, vm, task, boxes, prompts, draining>>, faults <= faults',
         IRows', IPolled',
         \A c \in Commands : (Kept(c) => Kept(c)') /\ (c \in Cancels /\ Answered(c) => Answered(c)')
  PROVE  IInv'
  <1>1. \A d \in Commands : cmd'[d].attempts = cmd[d].attempts /\ cmd[d].attempts \in Nat
    BY Constants, TaskFacts DEF IInv
  <1>2. \A a \in Nat : a <= a
    OBVIOUS
  <1>3. \A d \in Commands : cmd[d].attempts <= cmd'[d].attempts
    BY <1>1, <1>2, Zenon
  <1>4. \A d \in Commands, k \in Tokens : Holds(d, k)' => Holds(d, k)
    BY DEF Holds, Live
  <1>5. OutcomesAgree'
    BY DEF IInv, OutcomesAgree
  <1>6. \A r \in Runs : CancelsKept(r) /\ (Kept(r) => Kept(r)')
    BY Constants DEF CancelsKept
  <1> QED BY <1>3, <1>4, <1>5, <1>6, RowKeeps

LEMMA WebKeeps ==
  ASSUME IInv, TypeOK', UNCHANGED <<run, cmd, target, box, vm, poll, draining, task, boxes, prompts, faults>>,
             IRows'
  PROVE  IInv'
  <1>1. IPolled'
    BY DEF IInv, IPolled, Polled, Pc
  <1>2. \A c \in Commands : (Kept(c) => Kept(c)') /\ (c \in Cancels /\ Answered(c) => Answered(c)')
    BY DEF Kept, Answered, Held, Holds, Live, Pc
  <1>3. faults <= faults'
    BY DEF IInv, TypeOK
  <1> QED BY <1>1, <1>2, <1>3, QuietKeeps

LEMMA AskCancelKeeps ==
  ASSUME IInv, NEW c \in Cancels, AskCancel(c)
  PROVE  IInv'
  <1>0. c \in Commands /\ c \notin Runs /\ target[c] \in Runs
    BY Constants DEF IInv, TypeOK
  <1>1. UNCHANGED <<run, cmd, target, session, box, vm, poll, draining, task, inFlight, active, boxes, prompts,
             faults>>
    BY DEF AskCancel, rowVars, boxVars, mapVars
  <1>2. /\ web' \in [Commands -> {"idle", "found", "writing", "done"}] /\ web'[c] = "found" /\ web[c] = "idle"
        /\ \A d \in Commands \ {c} : web'[d] = web[d]
    BY <1>0 DEF AskCancel, IInv, TypeOK
  <1>3. TypeOK'
    BY <1>1, <1>2 DEF IInv, TypeOK
  <1>4. run[target[c]] # "none"
    <2>1. target[c] \in Commands /\ RunOf(target[c]) = target[c] /\ cmd[target[c]].status # "none"
      BY <1>0, Constants DEF AskCancel, Open
    <2> QED BY <2>1 DEF IInv, IRows, Known
  <1>5. IRows'
    <2> SUFFICES ASSUME NEW d \in Commands PROVE Rows(d)' /\ Known(d)'
      BY DEF IRows
    <2>1. Rows(d) /\ Known(d) /\ RunOf(d)' = RunOf(d)
      BY <1>1 DEF IInv, IRows, RunOf
    <2>2. CASE d = c
      BY <1>0, <1>1, <1>2, <1>4, <2>1, <2>2 DEF Rows, Known
    <2>3. CASE d # c
      BY <1>1, <1>2, <2>1, <2>3 DEF Rows, Known
    <2> QED BY <2>2, <2>3
  <1> QED BY <1>1, <1>3, <1>5, WebKeeps

LEMMA WriteSessionKeeps ==
  ASSUME IInv, NEW c \in Commands, WriteSession(c)
  PROVE  IInv'
  <1>1. UNCHANGED <<run, cmd, target, box, vm, poll, draining, task, inFlight, active, boxes, prompts, faults>>
        /\ session' = "open"
    BY DEF WriteSession, boxVars, mapVars
  <1>2. /\ web' \in [Commands -> {"idle", "found", "writing", "done"}] /\ web'[c] = "done" /\ web[c] = "writing"
        /\ \A d \in Commands \ {c} : web'[d] = web[d]
    BY DEF WriteSession, IInv, TypeOK
  <1>3. TypeOK'
    BY <1>1, <1>2 DEF IInv, TypeOK
  <1>5. IRows'
    <2> SUFFICES ASSUME NEW d \in Commands PROVE Rows(d)' /\ Known(d)'
      BY DEF IRows
    <2>1. Rows(d) /\ Known(d) /\ RunOf(d)' = RunOf(d)
      BY <1>1 DEF IInv, IRows, RunOf
    <2> QED BY <1>1, <1>2, <2>1 DEF Rows, Known
  <1> QED BY <1>1, <1>3, <1>5, WebKeeps

\* A runner's poll moves, without a claim before or after.
LEMMA PollKeeps ==
  ASSUME IInv, NEW w \in Runners, NEW p \in Polls, poll' = [poll EXCEPT ![w] = p],
         p.step # "claimed", poll[w].step # "claimed",
         UNCHANGED <<rowVars, boxVars, web, draining, task, mapVars, prompts, faults>>
  PROVE  IInv'
  <1>1. UNCHANGED <<run, cmd, target, session, box, vm, web, draining, task, inFlight, active, boxes, prompts,
             faults>>
    BY DEF rowVars, boxVars, mapVars
  <1>2. poll' \in [Runners -> Polls] /\ poll'[w] = p /\ \A v \in Runners \ {w} : poll'[v] = poll[v]
    BY DEF IInv, TypeOK
  <1>3. TypeOK'
    BY <1>1, <1>2 DEF IInv, TypeOK
  <1>4. \A v \in Runners : poll'[v].step = "claimed" \/ poll[v].step = "claimed" => poll'[v] = poll[v]
    BY <1>2
  <1>5. IRows'
    BY <1>1 DEF IInv, IRows, Rows, Known, RunOf
  <1>6. IPolled'
    BY <1>1, <1>4 DEF IInv, IPolled, Polled, Pc
  <1>7. \A c \in Commands : (Kept(c) => Kept(c)') /\ (c \in Cancels /\ Answered(c) => Answered(c)')
    <2> SUFFICES ASSUME NEW c \in Commands
                 PROVE  (Kept(c) => Kept(c)') /\ (c \in Cancels /\ Answered(c) => Answered(c)')
      OBVIOUS
    <2>1. Kept(c) => Kept(c)'
      BY <1>1, <1>4 DEF Kept, Holds, Live, Pc
    <2>2. Held(c) => Held(c)'
      BY <1>1, <1>4 DEF Held
    <2>3. Answered(c) => Answered(c)'
      BY <1>1, <1>4, <2>2 DEF Answered, Pc
    <2> QED BY <2>1, <2>3
  <1>8. faults <= faults'
    BY <1>1 DEF IInv, TypeOK
  <1> QED BY <1>1, <1>3, <1>5, <1>6, <1>7, <1>8, QuietKeeps

LEMMA StartClaimKeeps ==
  ASSUME IInv, NEW w \in Runners, StartClaim(w)
  PROVE  IInv'
  <1>1. [step |-> "claiming", slot |-> HasSlot] \in Polls
    BY DEF Polls, HasSlot
  <1> QED BY <1>1, PollKeeps DEF StartClaim

LEMMA NothingToClaimKeeps ==
  ASSUME IInv, NEW w \in Runners, NothingToClaim(w)
  PROVE  IInv'
  <1>1. NoPoll \in Polls /\ NoPoll.step = "idle"
    BY DEF Polls, NoPoll
  <1>2. /\ poll[w].step = "claiming" /\ poll' = [poll EXCEPT ![w] = NoPoll]
        /\ UNCHANGED <<rowVars, boxVars, web, draining, task, mapVars, prompts, faults>>
    BY DEF NothingToClaim
  <1>3. NoPoll.step # "claimed" /\ poll[w].step # "claimed"
    BY <1>1, <1>2
  <1> QED BY <1>1, <1>2, <1>3, PollKeeps

LEMMA ClaimedIsTyped ==
  ASSUME TypeOK, NEW w \in Runners, poll[w].step = "claimed"
  PROVE  /\ poll[w].cmd \in Commands /\ poll[w].token \in Tokens
         /\ poll[w].token \in Nat /\ poll[w].reclaimed \in BOOLEAN
  <1>1. poll[w] \in Polls
    BY DEF TypeOK
  <1>2. poll[w] \in [step : {"claimed"}, cmd : Commands, token : Tokens, reclaimed : BOOLEAN]
    BY <1>1 DEF Polls, NoPoll
  <1> QED BY <1>2, Constants

LEMMA ClaimRowKeeps ==
  ASSUME IInv, NEW w \in Runners, NEW c \in Commands, ClaimRow(w, c)
  PROVE  IInv'
  <1> USE DEF IInv
  <1>a. cmd[c].attempts + 1 \in Tokens
    BY SizeAssumption DEF ClaimRow, Claimable, TypeOK, Tokens
  <1>b. PICK token \in Tokens : token = cmd[c].attempts + 1
    BY <1>a
  <1>0. /\ UNCHANGED <<run, target, session, box, vm, web, draining, task, inFlight, active, boxes, prompts,
             faults>>
        /\ cmd[c].attempts \in 0 .. MaxClaims /\ token \in Tokens /\ token \in Nat /\ ~Live(c)
        /\ cmd[c].status \in {"accepted", "queued", "leased"}
        /\ poll[w].step = "claiming" /\ cmd[c].live \in BOOLEAN
    BY <1>b, Constants DEF ClaimRow, Claimable, boxVars, mapVars, TypeOK, Tokens, Live
  <1> DEFINE row == [status |-> "leased", attempts |-> token, live |-> TRUE]
  <1> DEFINE reclaimed == cmd[c].status = "leased"
  <1> DEFINE p == [step |-> "claimed", cmd |-> c, token |-> token, reclaimed |-> reclaimed]
  <1>1. cmd' = [cmd EXCEPT ![c] = row] /\ poll' = [poll EXCEPT ![w] = p]
    BY <1>b DEF ClaimRow, TypeOK
  <1>2. row \in [status : CmdStatus, attempts : 0 .. MaxClaims, live : BOOLEAN]
    BY <1>0 DEF CmdStatus, Open, Tokens
  <1>3. p \in Polls
    BY <1>0 DEF Polls
  <1>4. /\ cmd' \in [Commands -> [status : CmdStatus, attempts : 0 .. MaxClaims, live : BOOLEAN]]
        /\ cmd'[c].status = "leased" /\ cmd'[c].attempts = token /\ cmd'[c].live = TRUE
        /\ \A d \in Commands \ {c} : cmd'[d] = cmd[d]
    BY <1>1, <1>2 DEF TypeOK
  <1>5. /\ poll' \in [Runners -> Polls] /\ \A v \in Runners \ {w} : poll'[v] = poll[v]
        /\ poll'[w].step = "claimed" /\ poll'[w].cmd = c /\ poll'[w].token = token
        /\ poll'[w].reclaimed <=> cmd[c].status = "leased"
    BY <1>1, <1>3 DEF TypeOK
  <1> HIDE DEF row, p, reclaimed
  <1>6. TypeOK'
    BY <1>0, <1>4, <1>5 DEF TypeOK
  <1>7. \A d \in Commands :
           cmd[d].attempts \in Nat /\ cmd'[d].attempts \in Nat /\ cmd[d].attempts <= cmd'[d].attempts
    <2>1. \A d \in Commands : cmd[d].attempts \in Nat /\ cmd'[d].attempts \in Nat
      BY <1>6 DEF TypeOK
    <2>2. \A a \in Nat : a <= a /\ a <= a + 1
      OBVIOUS
    <2>3. ASSUME NEW d \in Commands PROVE cmd[d].attempts <= cmd'[d].attempts
      <3>1. cmd'[d].attempts = cmd[d].attempts \/ cmd'[d].attempts = cmd[d].attempts + 1
        BY <1>b, <1>4
      <3> QED BY <2>1, <2>2, <3>1
    <2> QED BY <2>1, <2>3
  <1>8. ASSUME NEW k \in Tokens, Pc(c, k) # "none" PROVE k # token /\ ~Holds(c, k)'
    <2>1. k <= cmd[c].attempts /\ k \in Nat /\ cmd[c].attempts \in Nat
      BY <1>7, <1>8, Constants DEF IShaped, Shaped
    <2>2. k # token
      BY <1>b, <2>1
    <2> QED BY <1>4, <2>2 DEF Holds
  <1>9. ASSUME NEW v \in Runners, poll[v].step = "claimed", poll[v].cmd = c
        PROVE  poll[v].token # token
    <2>2. poll[v].token \in Nat /\ poll[v].token <= cmd[c].attempts /\ cmd[c].attempts \in Nat
      BY <1>7, <1>9, ClaimedIsTyped DEF IPolled, Polled
    <2> QED BY <1>b, <2>2
  <1>10. IRows'
    <2> SUFFICES ASSUME NEW d \in Commands PROVE Rows(d)' /\ Known(d)'
      BY DEF IRows
    <2>1. Rows(d) /\ Known(d) /\ RunOf(d)' = RunOf(d)
      BY <1>0 DEF IRows, RunOf
    <2>2. CASE d = c
      BY <1>0, <1>4, <2>1, <2>2 DEF Rows, Known
    <2>3. CASE d # c
      BY <1>0, <1>4, <2>1, <2>3 DEF Rows, Known
    <2> QED BY <2>2, <2>3
  <1>11. IPolled'
    <2> SUFFICES ASSUME NEW v \in Runners PROVE Polled(v)'
      BY DEF IPolled
    <2>1. CASE v = w
      <3>1. token <= cmd'[c].attempts /\ Pc(c, token)' = "none"
        <4>1. \A a \in Nat : a <= a
          OBVIOUS
        <4>2. Pc(c, token) = "none"
          BY <1>8
        <4> QED BY <1>0, <1>4, <4>1, <4>2 DEF Pc
      <3>2. cmd[c].status = "leased" => token # 1
        <4>1. SUFFICES ASSUME cmd[c].status = "leased" PROVE token # 1
          OBVIOUS
        <4>2. cmd[c].attempts \in Nat \ {0}
          BY <4>1, SizeAssumption DEF IRows, Rows, Tokens
        <4> QED BY <1>b, <4>2
      <3>3. \A u \in Runners \ {w} : ~(poll'[u].step = "claimed" /\ poll'[u].cmd = c /\ poll'[u].token = token)
        BY <1>5, <1>9
      <3> QED BY <1>5, <2>1, <3>1, <3>2, <3>3 DEF Polled, Pc
    <2>2. CASE v # w
      <3>1. Polled(v) /\ poll'[v] = poll[v] /\ poll[v] \in Polls
        BY <1>5, <2>2 DEF IPolled, TypeOK
      <3>2. SUFFICES ASSUME poll[v].step = "claimed"
                     PROVE  /\ poll[v].token <= cmd'[poll[v].cmd].attempts
                            /\ Pc(poll[v].cmd, poll[v].token)' = "none"
                            /\ poll[v].reclaimed => poll[v].token # 1
                            /\ \A u \in Runners \ {v} : 
                                 ~(/\ poll'[u].step = "claimed" /\ poll'[u].cmd = poll[v].cmd
                                   /\ poll'[u].token = poll[v].token)
        BY <3>1 DEF Polled, Pc
      <3>3. poll[v].cmd \in Commands /\ poll[v].token \in Nat
        BY <3>2, ClaimedIsTyped
      <3>4. poll[v].token <= cmd'[poll[v].cmd].attempts
        <4>1. PICK a \in Nat, b \in Nat, i \in Nat :
                  i = poll[v].token /\ a = cmd[poll[v].cmd].attempts /\ b = cmd'[poll[v].cmd].attempts
          BY <1>7, <3>3
        <4>2. i <= a /\ a <= b
          BY <1>7, <3>1, <3>2, <3>3, <4>1 DEF Polled
        <4>3. i <= b
          BY <4>2
        <4> QED BY <4>1, <4>3
      <3>5. Pc(poll[v].cmd, poll[v].token)' = "none" /\ (poll[v].reclaimed => poll[v].token # 1)
        BY <1>0, <3>1, <3>2 DEF Polled, Pc
      <3>6. ASSUME NEW u \in Runners \ {v}
            PROVE  ~(poll'[u].step = "claimed" /\ poll'[u].cmd = poll[v].cmd /\ poll'[u].token = poll[v].token)
        BY <1>5, <1>9, <2>2, <3>1, <3>2 DEF Polled
      <3> QED BY <3>4, <3>5, <3>6
    <2> QED BY <2>1, <2>2
  <1>12. OutcomesAgree'
    <2> SUFFICES ASSUME NEW r \in Runs
                 PROVE  /\ cmd'[r].status = "acknowledged" <=> run[r] = "completed"
                        /\ cmd'[r].status = "cancelled" => run[r] = "cancelled"
                        /\ cmd'[r].status = "unknown" => run[r] \in {"unknown", "timed_out"}
                        /\ cmd'[r].status = "dead_lettered" => run[r] \notin Occupied \cup {"completed"}
      BY <1>0 DEF OutcomesAgree
    <2>1. CASE r = c
      BY <1>0, <1>4, <2>1 DEF OutcomesAgree
    <2>2. CASE r # c
      BY <1>4, <2>2, Constants DEF OutcomesAgree
    <2> QED BY <2>1, <2>2
  <1>13. \A d \in Commands, k \in Tokens : Pc(d, k) # "none" /\ Holds(d, k)' => Holds(d, k)
    BY <1>4, <1>8 DEF Holds, Live
  <1>14. \A k \in Tokens : ~Holds(c, k)
    BY <1>0 DEF Holds
  <1>15. ASSUME NEW d \in Commands, Kept(d) PROVE Kept(d)'
    <2>1. CASE d = c
      <3>1. \A k \in Tokens : Pc(c, k)' = "none"
        BY <1>0, <1>14, <1>15, <2>1 DEF Kept, Pc
      <3>2. ASSUME NEW v \in Runners, poll'[v].step = "claimed", poll'[v].cmd = c PROVE Holds(c, poll[v].token)'
        <4>1. v = w
          <5>1. SUFFICES ASSUME v # w PROVE FALSE
            OBVIOUS
          <5>2. poll[v].step = "claimed" /\ poll[v].cmd = c
            BY <1>5, <3>2, <5>1
          <5>3. poll[v].token \in Tokens
            BY <5>2, ClaimedIsTyped
          <5> QED BY <1>14, <1>15, <2>1, <5>2, <5>3 DEF Kept
        <4> QED BY <1>4, <1>5, <4>1 DEF Holds, Live
      <3> QED BY <2>1, <3>1, <3>2 DEF Kept
    <2>2. CASE d # c
      <3>1. ASSUME NEW k PROVE Holds(d, k)' = Holds(d, k)
        BY <1>4, <2>2 DEF Holds, Live
      <3> QED BY <1>0, <1>5, <1>15, <2>2, <3>1 DEF Kept, Pc, Holds, Live
    <2> QED BY <2>1, <2>2
  <1>16. ASSUME NEW d \in Cancels, Kept(d), Answered(d) PROVE Answered(d)'
    <2>0. d \in Commands
      BY Constants
    <2> SUFFICES ASSUME run[target[d]] \notin Ended
                 PROVE  /\ cmd'[d].status = "leased" => Held(d)'
                        /\ \A v \in Runners : poll'[v].step = "claimed" /\ poll'[v].cmd = d => ~poll'[v].reclaimed
                        /\ \A k \in Tokens : Pc(d, k)' # "none" => task'[d][k].kind # "recover"
      BY <1>0 DEF Answered
    <2>1. /\ cmd[d].status = "leased" => Held(d)
          /\ \A v \in Runners : poll[v].step = "claimed" /\ poll[v].cmd = d => ~poll[v].reclaimed
          /\ \A k \in Tokens : Pc(d, k) # "none" => task[d][k].kind # "recover"
      BY <1>16 DEF Answered
    <2>2. \A k \in Tokens : Pc(d, k)' # "none" => task'[d][k].kind # "recover"
      BY <1>0, <2>1 DEF Pc
    <2>3. CASE d = c
      <3>1. Held(d)'
        BY <1>4, <1>5, <2>3 DEF Held
      <3>2. cmd[c].status # "leased"
        <4>1. SUFFICES ASSUME Held(c), cmd[c].status = "leased" PROVE FALSE
          BY <2>1, <2>3
        <4>2. cmd[c].attempts \in Tokens
          BY <4>1 DEF IRows, Rows
        <4>3. task[c][cmd[c].attempts].pc = "none"
          BY <1>14, <1>16, <2>3, <4>2 DEF Kept, Pc
        <4> QED BY <1>14, <1>16, <2>3, <4>1, <4>2, <4>3 DEF Held, Kept
      <3> QED BY <1>5, <2>1, <2>2, <2>3, <3>1, <3>2
    <2>4. CASE d # c
      <3>1. Held(d) => Held(d)'
        BY <1>0, <1>4, <1>5, <2>0, <2>4 DEF Held
      <3> QED BY <1>4, <1>5, <2>0, <2>1, <2>2, <2>4, <3>1
    <2> QED BY <2>3, <2>4
  <1>17. \A r \in Runs : CancelsKept(r) /\ (Kept(r) => Kept(r)')
    BY <1>15, <1>16, Constants DEF CancelsKept
  <1>18. faults <= faults'
    BY <1>0 DEF TypeOK
  <1> QED BY <1>0, <1>6, <1>7, <1>10, <1>11, <1>12, <1>13, <1>17, <1>18, RowKeeps

-----------------------------------------------------------------------------
(* Leases that end. *)

\* A command whose lease ends keeps its attempts.
LEMMA LeaseEnds ==
  ASSUME IInv, NEW c \in Commands, NEW status \in CmdStatus,
         cmd[c].status = "leased", status \in {"leased", "queued"},
         cmd' = [cmd EXCEPT ![c].status = status, ![c].live = FALSE], UNCHANGED <<run, target, web>>
  PROVE  /\ cmd' \in [Commands -> [status : CmdStatus, attempts : 0 .. MaxClaims, live : BOOLEAN]]
         /\ cmd'[c].status = status /\ cmd'[c].live = FALSE
         /\ \A d \in Commands : cmd'[d].attempts = cmd[d].attempts
         /\ \A d \in Commands \ {c} : cmd'[d] = cmd[d]
         /\ IRows' /\ OutcomesAgree'
  <1> USE DEF IInv
  <1> DEFINE u == [cmd[c] EXCEPT !.status = status, !.live = FALSE]
  <1>1. /\ u \in [status : CmdStatus, attempts : 0 .. MaxClaims, live : BOOLEAN]
        /\ u.status = status /\ u.live = FALSE /\ u.attempts = cmd[c].attempts
    BY DEF TypeOK
  <1>2. cmd' = [d \in Commands |-> IF d = c THEN u ELSE cmd[d]]
    BY DEF TypeOK
  <1> HIDE DEF u
  <1>3. /\ cmd' \in [Commands -> [status : CmdStatus, attempts : 0 .. MaxClaims, live : BOOLEAN]]
        /\ cmd'[c].status = status /\ cmd'[c].live = FALSE /\ cmd'[c].attempts = cmd[c].attempts
        /\ \A d \in Commands \ {c} : cmd'[d] = cmd[d]
    <2>1. cmd \in [Commands -> [status : CmdStatus, attempts : 0 .. MaxClaims, live : BOOLEAN]]
      BY DEF TypeOK
    <2>2. cmd'[c] = u /\ \A d \in Commands \ {c} : cmd'[d] = cmd[d]
      BY <1>2
    <2>3. cmd' \in [Commands -> [status : CmdStatus, attempts : 0 .. MaxClaims, live : BOOLEAN]]
      BY <1>1, <1>2, <2>1
    <2> QED BY <1>1, <2>2, <2>3
  <1>4. IRows'
    <2> SUFFICES ASSUME NEW d \in Commands PROVE Rows(d)' /\ Known(d)'
      BY DEF IRows
    <2>1. Rows(d) /\ Known(d) /\ RunOf(d)' = RunOf(d)
      BY DEF IRows, RunOf
    <2>2. CASE d = c
      BY <1>3, <2>1, <2>2 DEF Rows, Known
    <2>3. CASE d # c
      BY <1>3, <2>1, <2>3 DEF Rows, Known
    <2> QED BY <2>2, <2>3
  <1>5. OutcomesAgree'
    <2> SUFFICES ASSUME NEW r \in Runs
                 PROVE  /\ cmd'[r].status = "acknowledged" <=> run[r] = "completed"
                        /\ cmd'[r].status = "cancelled" => run[r] = "cancelled"
                        /\ cmd'[r].status = "unknown" => run[r] \in {"unknown", "timed_out"}
                        /\ cmd'[r].status = "dead_lettered" => run[r] \notin Occupied \cup {"completed"}
      BY DEF OutcomesAgree
    <2>1. CASE r = c
      BY <1>3, <2>1 DEF OutcomesAgree
    <2>2. CASE r # c
      BY <1>3, <2>2, Constants DEF OutcomesAgree
    <2> QED BY <2>1, <2>2
  <1> QED BY <1>3, <1>4, <1>5

LEMMA GiveBackKeeps ==
  ASSUME IInv, NEW w \in Runners, GiveBack(w)
  PROVE  IInv'
  <1> USE DEF IInv
  <1>0. poll[w].step = "claimed" /\ w \in draining
    BY DEF GiveBack
  <1>1. PICK c \in Commands, k \in Tokens : c = poll[w].cmd /\ k = poll[w].token
    BY <1>0, ClaimedIsTyped
  <1>2. /\ UNCHANGED <<run, target, session, box, vm, web, draining, task, inFlight, active, boxes, prompts>>
        /\ poll' = [poll EXCEPT ![w] = NoPoll]
        /\ cmd' = cmd \/ /\ cmd[c].status = "leased" /\ cmd[c].attempts = k
                         /\ cmd' = [cmd EXCEPT ![c].status = "queued", ![c].live = FALSE]
    BY <1>1 DEF GiveBack, boxVars, mapVars
  <1>3. faults' \in Nat /\ faults <= faults'
    BY DEF GiveBack, MayFail, Fault, TypeOK
  <1>4. NoPoll \in Polls /\ NoPoll.step = "idle"
    BY DEF Polls, NoPoll
  <1>5. poll' \in [Runners -> Polls] /\ poll'[w].step = "idle" /\ \A v \in Runners \ {w} : poll'[v] = poll[v]
    BY <1>2, <1>4 DEF TypeOK
  <1>6. "queued" \in CmdStatus
    BY DEF CmdStatus, Open
  <1>7. /\ cmd' \in [Commands -> [status : CmdStatus, attempts : 0 .. MaxClaims, live : BOOLEAN]]
        /\ \A d \in Commands : cmd'[d].attempts = cmd[d].attempts
        /\ \A d \in Commands \ {c} : cmd'[d] = cmd[d]
        /\ IRows' /\ OutcomesAgree'
        /\ cmd'[c] = cmd[c] \/ (cmd'[c].live = FALSE /\ cmd[c].attempts = k)
    <2>1. CASE cmd' = cmd
      <3>1. IRows' /\ OutcomesAgree'
        BY <1>2, <2>1 DEF IRows, Rows, Known, RunOf, OutcomesAgree
      <3>2. cmd' \in [Commands -> [status : CmdStatus, attempts : 0 .. MaxClaims, live : BOOLEAN]]
        BY <2>1 DEF TypeOK
      <3> QED BY <2>1, <3>1, <3>2
    <2>2. CASE /\ cmd[c].status = "leased" /\ cmd[c].attempts = k
               /\ cmd' = [cmd EXCEPT ![c].status = "queued", ![c].live = FALSE]
      BY <1>2, <1>6, <2>2, LeaseEnds
    <2> QED BY <1>2, <2>1, <2>2
  <1>8. TypeOK'
    BY <1>2, <1>3, <1>5, <1>7 DEF TypeOK
  <1>9. IPolled'
    <2> SUFFICES ASSUME NEW v \in Runners \ {w} PROVE Polled(v)'
      BY <1>5 DEF IPolled, Polled
    <2>1. Polled(v) /\ poll'[v] = poll[v]
      BY <1>5 DEF IPolled
    <2>2. poll[v].step = "claimed" => poll[v].cmd \in Commands
      BY ClaimedIsTyped
    <2> QED BY <1>2, <1>5, <1>7, <2>1, <2>2 DEF Polled, Pc
  <1>10. \A d \in Commands, i \in Tokens : Pc(d, i) # "none" /\ Holds(d, i)' => Holds(d, i)
    BY <1>7 DEF Holds, Live
  <1>11. ASSUME NEW d \in Commands, Kept(d) PROVE Kept(d)'
    <2>1. CASE cmd'[d] = cmd[d]
      BY <1>2, <1>5, <1>11, <2>1 DEF Kept, Pc, Holds, Live
    <2>2. CASE d = c /\ cmd[c].attempts = k
      <3>1. Pc(c, k) = "none" /\ \A v \in Runners \ {w} :
                ~(poll[v].step = "claimed" /\ poll[v].cmd = c /\ poll[v].token = k)
        BY <1>0, <1>1 DEF IPolled, Polled
      <3>2. \A i \in Tokens : Pc(c, i)' = "none"
        BY <1>2, <1>11, <2>2, <3>1 DEF Kept, Holds, Pc
      <3>3. \A v \in Runners : ~(poll'[v].step = "claimed" /\ poll'[v].cmd = c)
        BY <1>5, <1>11, <2>2, <3>1 DEF Kept, Holds
      <3> QED BY <2>2, <3>2, <3>3 DEF Kept
    <2> QED BY <1>7, <2>1, <2>2
  <1>12. \A a \in Nat : a <= a
    OBVIOUS
  <1>13. \A d \in Commands : cmd[d].attempts <= cmd'[d].attempts
    <2>1. \A d \in Commands : cmd[d].attempts \in Nat
      BY Constants, TaskFacts
    <2> QED BY <1>7, <1>12, <2>1, Zenon
  <1>14. draining # {}
    BY <1>0
  <1>15. \A r \in Runs : Kept(r) => Kept(r)'
    BY <1>11, Constants
  <1> QED BY <1>2, <1>3, <1>7, <1>8, <1>9, <1>10, <1>13, <1>14, <1>15, RowKeeps

LEMMA ExpireKeeps ==
  ASSUME IInv, NEW c \in Commands, Expire(c)
  PROVE  IInv'
  <1> USE DEF IInv
  <1>0. /\ UNCHANGED <<run, target, session, box, vm, web, poll, draining, task, inFlight, active, boxes, prompts>>
        /\ cmd[c].status = "leased" /\ cmd[c].live
        /\ cmd' = [cmd EXCEPT ![c].status = "leased", ![c].live = FALSE]
    <2>1. /\ UNCHANGED <<run, target, session, box, vm, web, poll, draining, task, inFlight, active, boxes,
               prompts>>
          /\ cmd[c].status = "leased" /\ cmd[c].live /\ cmd' = [cmd EXCEPT ![c].live = FALSE]
      BY DEF Expire, Live, boxVars, mapVars
    <2>2. cmd[c] \in [status : CmdStatus, attempts : 0 .. MaxClaims, live : BOOLEAN]
      BY DEF TypeOK
    <2>3. [cmd[c] EXCEPT !.status = "leased", !.live = FALSE] = [cmd[c] EXCEPT !.live = FALSE]
      BY <2>1, <2>2
    <2> QED BY <2>1, <2>3 DEF TypeOK
  <1>1. faults' \in Nat /\ faults <= faults' /\ (~Held(c) \/ faults' = faults + 1) /\ (faults' = faults => ~Held(c))
    BY DEF Expire, MayFail, Fault, TypeOK
  <1>2. "leased" \in CmdStatus
    BY DEF CmdStatus, Open
  <1>3. /\ cmd' \in [Commands -> [status : CmdStatus, attempts : 0 .. MaxClaims, live : BOOLEAN]]
        /\ cmd'[c].status = "leased" /\ cmd'[c].live = FALSE
        /\ \A d \in Commands : cmd'[d].attempts = cmd[d].attempts
        /\ \A d \in Commands \ {c} : cmd'[d] = cmd[d]
        /\ IRows' /\ OutcomesAgree'
    BY <1>0, <1>2, LeaseEnds
  <1>4. TypeOK'
    BY <1>0, <1>1, <1>3 DEF TypeOK
  <1>5. NoneNew
    BY <1>0 DEF NoneNew, Pc
  <1>6. IPolled'
    BY <1>0, <1>3, <1>5, PolledKept DEF NoneNew
  <1>7. \A d \in Commands, i \in Tokens : Pc(d, i) # "none" /\ Holds(d, i)' => Holds(d, i)
    BY <1>3 DEF Holds, Live
  <1>8. \A a \in Nat : a <= a
    OBVIOUS
  <1>9. \A d \in Commands : cmd[d].attempts <= cmd'[d].attempts
    <2>1. \A d \in Commands : cmd[d].attempts \in Nat
      BY Constants, TaskFacts
    <2> QED BY <1>3, <1>8, <2>1, Zenon
  <1>10. Follows
    BY <1>0 DEF Follows
  <1>11. ASSUME NEW d \in Commands \ {c}, Kept(d) PROVE Kept(d)'
    BY <1>0, <1>3, <1>5, <1>11, KeptKept
  <1>12. ASSUME NEW d \in Cancels \ {c}, Answered(d) PROVE Answered(d)'
    <2>1. d \in Commands \ {c}
      BY Constants
    <2>2. \A i \in Tokens : Pc(d, i) # "none" => Pc(d, i)' # "none" /\ task'[d][i].kind = task[d][i].kind
      BY <1>0 DEF Pc
    <2> QED BY <1>0, <1>3, <1>5, <1>10, <1>12, <2>1, <2>2, AnsweredKept
  <1>13. ASSUME ~Held(c), Kept(c) PROVE Kept(c)'
    <2>1. \A i \in Tokens : Pc(c, i) = "none"
      BY <1>13 DEF Kept, Held, Holds, Pc
    <2>2. ASSUME NEW v \in Runners, poll[v].step = "claimed", poll[v].cmd = c PROVE FALSE
      BY <1>13, <2>2 DEF Kept, Held, Holds
    <2> QED BY <1>0, <2>1, <2>2 DEF Kept, Pc
  <1>14. ASSUME ~Held(c), c \in Cancels, Answered(c) PROVE Answered(c)'
    <2>1. run[target[c]] \in Ended
      BY <1>0, <1>14 DEF Answered
    <2> QED BY <1>0, <2>1 DEF Answered
  <1>15. ASSUME NEW r \in Runs, ~Held(c) \/ c \notin Cancels PROVE CancelsKept(r)
    <2> SUFFICES ASSUME NEW d \in Cancels, Kept(d), Answered(d) PROVE Kept(d)' /\ Answered(d)'
      BY DEF CancelsKept
    <2>1. CASE d # c
      BY <1>11, <1>12, <2>1, Constants
    <2>2. CASE d = c
      BY <1>13, <1>14, <1>15, <2>2
    <2> QED BY <2>1, <2>2
  <1>16. ASSUME NEW r \in Runs, Kept(r) PROVE Kept(r)' \/ (faults' = faults + 1 /\ CancelsKept(r))
    <2>1. CASE r # c
      BY <1>11, <1>16, <2>1, Constants
    <2>2. CASE r = c
      BY <1>1, <1>13, <1>15, <1>16, <2>2, Constants
    <2> QED BY <2>1, <2>2
  <1> QED BY <1>0, <1>1, <1>3, <1>4, <1>6, <1>7, <1>9, <1>15, <1>16, RowKeeps

-----------------------------------------------------------------------------
(* A lease becomes a task. *)

\* A new task of the command that runner w has claimed, where there was none.
Starts(w, c, k) ==
    /\ poll[w].step = "claimed" /\ c = poll[w].cmd /\ k = poll[w].token
    /\ Pc(c, k) = "none" /\ Pc(c, k)' = "leased" /\ Others(c, k)
    /\ task'[c][k].at = w
    /\ task'[c][k].kind = IF poll[w].reclaimed THEN "recover" ELSE IF c \in Cancels THEN "cancel" ELSE "run"
    /\ poll'[w].step = "idle" /\ \A v \in Runners \ {w} : poll'[v] = poll[v]
    /\ UNCHANGED <<run, cmd, target, session, box, vm, web, draining, active, boxes, prompts, faults>>

LEMMA TrackStarts ==
  ASSUME IInv, NEW w \in Runners, Track(w)
  PROVE  TypeOK' /\ \E c \in Commands, k \in Tokens : Starts(w, c, k)
  <1> USE DEF IInv
  <1>1. poll[w].step = "claimed" /\ poll[w].reclaimed \in BOOLEAN
    BY ClaimedIsTyped DEF Track
  <1>2. PICK c \in Commands, k \in Tokens : c = poll[w].cmd /\ k = poll[w].token
    BY <1>1, ClaimedIsTyped
  <1>3. Pc(c, k) = "none" /\ task \in Table /\ RunOf(c) \in Runs
    BY <1>1, <1>2, TaskFacts, RunOfIsRun DEF IPolled, Polled
  <1>4. PICK kind \in {"recover", "cancel", "run"} :
           kind = IF poll[w].reclaimed THEN "recover" ELSE IF c \in Cancels THEN "cancel" ELSE "run"
    OBVIOUS
  <1> DEFINE t == [NoTask EXCEPT !.pc = "leased", !.at = w, !.kind = kind]
  <1>5. t \in Tasks /\ t.pc = "leased" /\ t.at = w /\ t.kind = kind
    <2>1. NoTask \in Tasks
      BY NoTaskIsTask
    <2> QED BY <2>1 DEF Tasks, Steps, Outside
  <1>6. /\ task' = [task EXCEPT ![c][k] = t]
        /\ inFlight' = [inFlight EXCEPT ![w][RunOf(c)] = Work(c, k)]
        /\ poll' = [poll EXCEPT ![w] = NoPoll]
        /\ UNCHANGED <<run, cmd, target, session, box, vm, web, draining, active, boxes, prompts, faults>>
    BY <1>2, <1>4 DEF Track, rowVars, boxVars
  <1> HIDE DEF t
  <1>7. task' \in Table /\ Others(c, k) /\ task'[c][k] = t
    BY <1>3, <1>5, <1>6, PutTask
  <1>8. NoPoll \in Polls /\ NoPoll.step = "idle"
    BY DEF Polls, NoPoll
  <1>9. poll' \in [Runners -> Polls] /\ poll'[w].step = "idle" /\ \A v \in Runners \ {w} : poll'[v] = poll[v]
    BY <1>6, <1>8 DEF TypeOK
  <1>10. inFlight' \in [Runners -> [Runs -> {NoWork} \cup [cmd : Commands, token : Tokens]]]
    BY <1>3, <1>6 DEF TypeOK, Work
  <1>11. TypeOK'
    BY <1>6, <1>7, <1>9, <1>10 DEF TypeOK, Table
  <1>12. Starts(w, c, k)
    BY <1>1, <1>2, <1>3, <1>4, <1>5, <1>6, <1>7, <1>9 DEF Starts, Pc
  <1> QED BY <1>11, <1>12

LEMMA StartsOnce ==
  ASSUME IInv, TypeOK', NEW w \in Runners, NEW c \in Commands, NEW k \in Tokens, Starts(w, c, k)
  PROVE  IOnce'
  <1> USE DEF IInv
  <1> SUFFICES ASSUME NEW r \in Runs PROVE Once(r)'
    BY DEF IOnce
  <1>0. r \in Commands
    BY Constants
  <1>1. ASSUME NEW d \in Commands, Kept(d) PROVE Kept(d)'
    <2>1. \A i : Holds(d, i)' = Holds(d, i)
      BY DEF Starts, Holds, Live
    <2>2. ASSUME NEW i \in Tokens, Pc(d, i)' # "none" PROVE Holds(d, i)
      <3>1. CASE d = c /\ i = k
        BY <1>1, <3>1 DEF Starts, Kept
      <3>2. CASE d # c \/ i # k
        BY <1>1, <2>2, <3>2 DEF Starts, Others, Alike, Kept, Pc
      <3> QED BY <3>1, <3>2
    <2>3. ASSUME NEW v \in Runners, poll'[v].step = "claimed", poll'[v].cmd = d
          PROVE  poll'[v] = poll[v] /\ Holds(d, poll[v].token)
      <3>1. v # w
        BY <2>3 DEF Starts
      <3>2. poll'[v] = poll[v]
        BY <3>1 DEF Starts
      <3> QED BY <1>1, <2>3, <3>2 DEF Kept
    <2>4. ASSUME NEW v \in Runners, poll'[v].step = "claimed", poll'[v].cmd = d
          PROVE  Holds(d, poll[v].token)'
      BY <2>3, <2>4 DEF Starts, Holds, Live
    <2> QED BY <2>1, <2>2, <2>4 DEF Kept
  <1>2. WellKept(r) => WellKept(r)'
    <2>1. WellKept(r) => Kept(r)'
      BY <1>0, <1>1 DEF WellKept
    <2> QED BY <2>1, WellKeptKept DEF Starts, Sharing, Creating, Ready
  <1>3. ASSUME Forward(r) PROVE Forward(r)'
    <2>1. \A i \in Tokens : Holds(r, i)' = Holds(r, i)
      BY DEF Starts, Holds, Live
    <2>2. \A i \in Tokens : Pc(r, i)' = "start" => Pc(r, i) = "start"
      BY <1>0 DEF Starts, Others, Alike, Pc
    <2>3. c = r /\ Holds(r, k) =>
            /\ Pc(c, k)' \in Early => prompts[r] = 0
            /\ Pc(c, k)' = "status" /\ task'[c][k].report.run = "queued" => prompts[r] = 0
      BY DEF Starts, Early, Creating, Ready
    <2>4. /\ prompts[r] = 1 => run'[r] \in {"running", "awaiting_approval"} \cup Ended
          /\ \A i \in Tokens : Holds(r, i) /\ Pc(r, i)' = "start" => run'[r] \in {"running"} \cup Ended
          /\ prompts'[r] = prompts[r]
      BY <1>3, <2>2 DEF Starts, Forward
    <2>5. Others(c, k)
      BY DEF Starts
    <2> QED BY <1>3, <2>1, <2>3, <2>4, <2>5, ForwardKept
  <1>4. ASSUME NEW d \in Cancels, Answered(d) PROVE Answered(d)'
    <2>0. d \in Commands
      BY Constants
    <2> SUFFICES ASSUME run[target[d]] \notin Ended
                 PROVE  /\ cmd'[d].status = "leased" => Held(d)'
                        /\ \A v \in Runners : poll'[v].step = "claimed" /\ poll'[v].cmd = d => ~poll'[v].reclaimed
                        /\ \A i \in Tokens : Pc(d, i)' # "none" => task'[d][i].kind # "recover"
      BY DEF Answered, Starts
    <2>1. /\ cmd[d].status = "leased" => Held(d)
          /\ \A v \in Runners : poll[v].step = "claimed" /\ poll[v].cmd = d => ~poll[v].reclaimed
          /\ \A i \in Tokens : Pc(d, i) # "none" => task[d][i].kind # "recover"
      BY <1>4 DEF Answered
    <2>2. cmd'[d].status = "leased" => Held(d)'
      <3>1. SUFFICES ASSUME Held(d), cmd[d].status = "leased" PROVE Held(d)'
        BY <2>1 DEF Starts
      <3>2. cmd[d].attempts \in Tokens /\ cmd'[d].attempts = cmd[d].attempts
        BY <2>0, <3>1 DEF IRows, Rows, Starts
      <3>3. CASE task[d][cmd[d].attempts].pc # "none"
        BY <2>0, <3>2, <3>3 DEF Starts, Others, Alike, Pc, Held
      <3>4. CASE \E v \in Runners : poll[v].step = "claimed" /\ poll[v].cmd = d /\ poll[v].token = cmd[d].attempts
        <4>1. PICK v \in Runners : poll[v].step = "claimed" /\ poll[v].cmd = d /\ poll[v].token = cmd[d].attempts
          BY <3>4
        <4>2. CASE v = w
          BY <3>2, <4>1, <4>2 DEF Starts, Pc, Held
        <4>3. CASE v # w
          BY <3>2, <4>1, <4>3 DEF Starts, Held
        <4> QED BY <4>2, <4>3
      <3> QED BY <3>1, <3>3, <3>4 DEF Held
    <2>3. \A v \in Runners : poll'[v].step = "claimed" /\ poll'[v].cmd = d => ~poll'[v].reclaimed
      BY <2>1 DEF Starts
    <2>4. ASSUME NEW i \in Tokens, Pc(d, i)' # "none" PROVE task'[d][i].kind # "recover"
      <3>1. CASE d = c /\ i = k
        BY <2>1, <3>1 DEF Starts
      <3>2. CASE d # c \/ i # k
        BY <2>0, <2>1, <2>4, <3>2 DEF Starts, Others, Alike, Pc
      <3> QED BY <3>1, <3>2
    <2> QED BY <2>2, <2>3, <2>4
  <1>5. \A d \in Cancels : cmd[d].attempts <= cmd'[d].attempts
    BY Constants, TaskFacts DEF Starts
  <1>6. faults <= faults'
    BY DEF Starts, TypeOK
  <1>7. faults' = faults /\ draining = {} =>
            /\ draining' = {}
            /\ \A d \in Cancels : target[d] = r /\ Kept(d) /\ Answered(d) => Kept(d)' /\ Answered(d)'
    BY <1>1, <1>4, Constants DEF Starts
  <1>8. Once(r) /\ target' = target
    BY DEF IOnce, Starts
  <1> QED BY <1>2, <1>3, <1>5, <1>6, <1>7, <1>8, OnceKept

LEMMA TrackKeeps ==
  ASSUME IInv, NEW w \in Runners, Track(w)
  PROVE  IInv'
  <1> USE DEF IInv
  <1>1. TypeOK'
    BY TrackStarts
  <1>2. PICK c \in Commands, k \in Tokens : Starts(w, c, k)
    BY TrackStarts
  <1>3. IRows'
    BY <1>2 DEF Starts, IRows, Rows, Known, RunOf
  <1>4. IPolled'
    <2> SUFFICES ASSUME NEW v \in Runners, v # w, poll[v].step = "claimed" PROVE Polled(v)'
      BY <1>2 DEF IPolled, Polled, Starts
    <2>1. PICK d \in Commands, i \in Tokens : d = poll[v].cmd /\ i = poll[v].token
      BY ClaimedIsTyped
    <2>2. /\ i <= cmd[d].attempts /\ Pc(d, i) = "none" /\ (poll[v].reclaimed => i # 1)
          /\ \A u \in Runners \ {v} : ~(poll[u].step = "claimed" /\ poll[u].cmd = d /\ poll[u].token = i)
      BY <2>1 DEF IPolled, Polled
    <2>3. d # c \/ i # k
      BY <1>2, <2>2 DEF Starts
    <2>4. Pc(d, i)' = "none"
      BY <1>2, <2>2, <2>3 DEF Starts, Others, Alike, Pc
    <2>5. poll'[v] = poll[v] /\ cmd' = cmd
      BY <1>2 DEF Starts
    <2>6. \A u \in Runners \ {v} : ~(poll'[u].step = "claimed" /\ poll'[u].cmd = d /\ poll'[u].token = i)
      BY <1>2, <2>2 DEF Starts
    <2> QED BY <2>1, <2>2, <2>4, <2>5, <2>6 DEF Polled, Pc
  <1>5. IShaped'
    <2>1. k <= cmd[c].attempts /\ (poll[w].reclaimed => k # 1)
      BY <1>2 DEF IPolled, Polled, Starts
    <2>2. Shaped(c, k)'
      BY <1>2, <2>1, Constants DEF Shaped, Starts, Executing, Timed
    <2> QED BY <1>2, <2>2, ShapedKept DEF Starts
  <1>6. IOutcome'
    <2>1. c \in Runs => Outcome(c, k)'
      BY <1>2 DEF Outcome, Starts
    <2> QED BY <1>2, <2>1, OutcomeKept DEF Starts
  <1>7. IMachine'
    BY <1>2, MachineKept DEF Starts, Boxed, Creating
  <1>8. IOnce'
    BY <1>1, <1>2, StartsOnce
  <1>9. IClean'
    <2> SUFFICES ASSUME NEW r \in Runs PROVE Clean(r)'
      BY DEF IClean
    <2>1. r \in Commands /\ Clean(r)
      BY Constants DEF IClean
    <2>2. \A i \in Tokens : c # r \/ i # k => Alike(r, i)
      BY <1>2, <2>1 DEF Starts, Others
    <2>3. c = r => Pc(r, k) = "none" /\ Pc(r, k)' = "leased"
      BY <1>2 DEF Starts
    <2> QED BY <1>2, <2>1, <2>2, <2>3 DEF Clean, Alike, Pc, Starts
  <1>10. VisibleMachine' /\ OutcomesAgree'
    BY <1>2 DEF Starts, VisibleMachine, OutcomesAgree
  <1> QED BY <1>1, <1>3, <1>4, <1>5, <1>6, <1>7, <1>8, <1>9, <1>10

-----------------------------------------------------------------------------
(* Shutdowns and crashes. *)

\* Some tasks may vanish, with the polls and the sandboxes of the runner that had them, because something failed.
Shrinks ==
    /\ UNCHANGED <<run, cmd, target, box, vm, web, prompts>>
    /\ \A c \in Commands, k \in Tokens : Alike(c, k) \/ Pc(c, k)' = "none"
    /\ \A w \in Runners : poll'[w] = poll[w] \/ poll'[w].step = "idle"
    /\ \A w \in Runners : boxes'[w] \subseteq boxes[w]
    /\ \A w \in Runners, c \in Commands, k \in Tokens : boxes'[w] # {} /\ task[c][k].at = w => Alike(c, k)

LEMMA ShrinksKeeps ==
  ASSUME IInv, TypeOK', Shrinks, faults' = faults + 1 \/ (faults' = faults /\ draining # {})
  PROVE  IInv'
  <1> USE DEF IInv
  <1>1. faults \in Nat /\ faults' \in Nat /\ faults <= faults'
    BY DEF TypeOK
  <1>2. \A c \in Commands, k \in Tokens : Pc(c, k)' = Pc(c, k) \/ Pc(c, k)' = "none"
    BY DEF Shrinks, Alike, Pc
  <1>3. \A c \in Commands : \A k : Holds(c, k)' = Holds(c, k)
    BY DEF Shrinks, Holds, Live
  <1>4. IRows'
    BY DEF Shrinks, IRows, Rows, Known, RunOf
  <1>5. IPolled'
    <2> SUFFICES ASSUME NEW v \in Runners, poll'[v].step = "claimed" PROVE Polled(v)'
      BY DEF IPolled, Polled
    <2>1. poll'[v] = poll[v] /\ poll[v].step = "claimed"
      BY DEF Shrinks
    <2>2. PICK d \in Commands, i \in Tokens : d = poll[v].cmd /\ i = poll[v].token
      BY <2>1, ClaimedIsTyped
    <2>3. /\ i <= cmd[d].attempts /\ Pc(d, i) = "none" /\ (poll[v].reclaimed => i # 1)
          /\ \A u \in Runners \ {v} : ~(poll[u].step = "claimed" /\ poll[u].cmd = d /\ poll[u].token = i)
      BY <2>1, <2>2 DEF IPolled, Polled
    <2>4. Pc(d, i)' = "none" /\ cmd' = cmd
      BY <1>2, <2>3 DEF Shrinks
    <2>5. \A u \in Runners \ {v} : ~(poll'[u].step = "claimed" /\ poll'[u].cmd = d /\ poll'[u].token = i)
      BY <2>3 DEF Shrinks
    <2> QED BY <2>1, <2>2, <2>3, <2>4, <2>5 DEF Polled, Pc
  <1>6. IShaped'
    <2> SUFFICES ASSUME NEW c \in Commands, NEW k \in Tokens, Pc(c, k)' # "none" PROVE Shaped(c, k)'
      BY DEF IShaped, Shaped
    <2>1. Alike(c, k) /\ Shaped(c, k) /\ cmd' = cmd
      BY DEF Shrinks, IShaped
    <2> QED BY <2>1 DEF Shaped, Alike, Pc
  <1>7. IOutcome'
    <2> SUFFICES ASSUME NEW r \in Runs, NEW k \in Tokens, Pc(r, k)' = "settle" PROVE Outcome(r, k)'
      BY DEF IOutcome, Outcome
    <2>1. Alike(r, k) /\ Outcome(r, k) /\ run' = run /\ Holds(r, k)' = Holds(r, k)
      BY <1>3, Constants DEF Shrinks, IOutcome
    <2> QED BY <2>1 DEF Outcome, Alike, Pc
  <1>8. IMachine'
    <2> SUFFICES ASSUME NEW r \in Runs, NEW k \in Tokens PROVE Untouched(r)' /\ Booting(r, k)'
      BY Constants DEF IMachine
    <2>1. r \in Commands /\ Untouched(r) /\ Booting(r, k)
      BY Constants DEF IMachine
    <2>2. \A i \in Tokens : Pc(r, i)' = Pc(r, i) \/ Pc(r, i)' = "none"
      BY <1>2, <2>1
    <2>3. "none" \notin Creating /\ "none" \notin Boxed
      BY DEF Creating, Boxed
    <2> QED BY <2>1, <2>2, <2>3 DEF Shrinks, Untouched, Booting
  <1>9. IOnce'
    <2> SUFFICES ASSUME NEW r \in Runs PROVE Once(r)'
      BY DEF IOnce
    <2>0. r \in Commands /\ Once(r)
      BY Constants DEF IOnce
    <2>1. Kept(r) => Kept(r)'
      BY <1>2, <1>3, <2>0 DEF Shrinks, Kept, Holds, Live
    <2>2. ASSUME WellKept(r) PROVE WellKept(r)'
      <3>1. ASSUME NEW w \in Runners, r \in boxes'[w]
            PROVE  \E k \in Tokens : Pc(r, k)' \in Sharing /\ task'[r][k].kind = "execute" /\ task'[r][k].at = w
        <4>1. r \in boxes[w]
          BY <3>1 DEF Shrinks
        <4>2. PICK k \in Tokens : Pc(r, k) \in Sharing /\ task[r][k].kind = "execute" /\ task[r][k].at = w
          BY <2>2, <4>1 DEF WellKept
        <4>3. Alike(r, k)
          BY <2>0, <3>1, <4>2 DEF Shrinks
        <4> QED BY <4>2, <4>3 DEF Alike, Pc
      <3>2. \A k \in Tokens : Pc(r, k)' \in Creating \cup Ready => prompts'[r] = 0
        BY <1>2, <2>0, <2>2 DEF WellKept, Creating, Ready, Shrinks
      <3>3. prompts'[r] <= 1 /\ Kept(r)'
        BY <2>1, <2>2 DEF WellKept, Shrinks
      <3> QED BY <3>1, <3>2, <3>3 DEF WellKept
    <2>3. ASSUME Forward(r) PROVE Forward(r)'
      <3>1. /\ prompts'[r] <= 1
            /\ prompts'[r] = 1 => run'[r] \in {"running", "awaiting_approval"} \cup Ended
        BY <2>3 DEF Forward, Shrinks
      <3>2. ASSUME NEW k \in Tokens, Holds(r, k)'
            PROVE  /\ Pc(r, k)' \in {"check", "create"} \cup Creating \cup Ready => prompts'[r] = 0
                   /\ Pc(r, k)' = "start" => run'[r] \in {"running"} \cup Ended
                   /\ Pc(r, k)' = "status" /\ task'[r][k].report.run = "queued" => prompts'[r] = 0
        <4>1. Holds(r, k) /\ run' = run /\ prompts' = prompts
          BY <1>3, <2>0, <3>2 DEF Shrinks
        <4>2. CASE Pc(r, k)' = "none"
          BY <4>2 DEF Creating, Ready
        <4>3. CASE Alike(r, k)
          BY <2>3, <4>1, <4>3 DEF Forward, Alike, Pc
        <4> QED BY <2>0, <4>2, <4>3 DEF Shrinks
      <3> QED BY <3>1, <3>2 DEF Forward
    <2>4. faults' = faults /\ draining = {} =>
            /\ draining' = {}
            /\ \A d \in Cancels : target[d] = r /\ Kept(d) /\ Answered(d) => Kept(d)' /\ Answered(d)'
      BY <1>1
    <2>5. \A d \in Cancels : cmd[d].attempts <= cmd'[d].attempts
      BY Constants, TaskFacts DEF Shrinks
    <2> QED BY <1>1, <2>0, <2>2, <2>3, <2>4, <2>5, OnceKept DEF Shrinks
  <1>10. IClean'
    <2> SUFFICES ASSUME NEW r \in Runs, faults' = 0 PROVE FALSE
      BY DEF IClean, Clean
    <2>1. faults = 0 /\ draining # {}
      BY <1>1
    <2> QED BY <2>1 DEF IOnce, Once, Steady
  <1>11. VisibleMachine' /\ OutcomesAgree'
    BY DEF Shrinks, VisibleMachine, OutcomesAgree
  <1> QED BY <1>4, <1>5, <1>6, <1>7, <1>8, <1>9, <1>10, <1>11

LEMMA BeginDrainKeeps ==
  ASSUME IInv, NEW w \in Runners, BeginDrain(w)
  PROVE  IInv'
  <1> USE DEF IInv
  <1>1. /\ UNCHANGED <<run, cmd, target, session, box, vm, web, poll, inFlight, active, boxes, prompts>>
        /\ draining' = draining \cup {w} /\ faults' = faults + 1
    BY DEF BeginDrain, Fault, rowVars, boxVars, mapVars
  <1>2. ASSUME NEW c \in Commands, NEW k \in Tokens PROVE task'[c][k] \in Tasks /\ Alike(c, k)
    <2>0. task[c][k] \in Tasks /\ "abort" \in DOMAIN Rank
      BY TaskFacts DEF Rank
    <2>1. CASE task'[c][k] = task[c][k]
      BY <2>0, <2>1 DEF Alike
    <2>2. CASE task'[c][k] = [task[c][k] EXCEPT !.cause = Raise(task[c][k].cause, "abort")]
      <3>1. Raise(task[c][k].cause, "abort") \in DOMAIN Rank
        BY <2>0, RaiseIsCause DEF Tasks
      <3>2. PICK cause \in DOMAIN Rank : cause = Raise(task[c][k].cause, "abort")
        BY <3>1
      <3>3. task'[c][k] = [task[c][k] EXCEPT !.cause = cause]
        BY <2>2, <3>2
      <3> QED BY <2>0, <3>3 DEF Tasks, Alike
    <2>3. task'[c][k] = IF c \in Runs /\ k = active[w][c]
                        THEN [task[c][k] EXCEPT !.cause = Raise(task[c][k].cause, "abort")] ELSE task[c][k]
      BY DEF BeginDrain
    <2> QED BY <2>1, <2>2, <2>3
  <1>3. task' \in Table
    <2>1. task' = [c \in Commands |-> [k \in Tokens |-> task'[c][k]]]
      BY DEF BeginDrain
    <2> QED BY <1>2, <2>1 DEF Table
  <1>4. TypeOK'
    BY <1>1, <1>3 DEF TypeOK, Table
  <1>5. Shrinks
    BY <1>1, <1>2 DEF Shrinks
  <1> QED BY <1>1, <1>4, <1>5, ShrinksKeeps

LEMMA EndsShrinks ==
  ASSUME IInv, NEW w \in Runners, Ends(w), faults' \in Nat
  PROVE  TypeOK' /\ Shrinks
  <1> USE DEF IInv
  <1>1. UNCHANGED <<run, cmd, target, session, box, vm, web, prompts>> /\ draining' = draining \ {w}
    BY DEF Ends, rowVars, boxVars
  <1>2. NoTask \in Tasks /\ NoTask.pc = "none" /\ NoPoll \in Polls /\ NoPoll.step = "idle"
    BY NoTaskIsTask DEF Polls, NoPoll
  <1>3. ASSUME NEW c \in Commands, NEW k \in Tokens
        PROVE  task'[c][k] = (IF task[c][k].at = w THEN NoTask ELSE task[c][k]) /\ task'[c][k] \in Tasks
    <2>1. task'[c][k] = IF task[c][k].at = w THEN NoTask ELSE task[c][k]
      BY DEF Ends, At
    <2> QED BY <1>2, <2>1, TaskFacts
  <1>4. task' \in Table
    <2>1. task' = [c \in Commands |-> [k \in Tokens |-> task'[c][k]]]
      BY DEF Ends
    <2> QED BY <1>3, <2>1 DEF Table
  <1>5. /\ poll' \in [Runners -> Polls] /\ \A v \in Runners : poll'[v] = poll[v] \/ poll'[v].step = "idle"
    BY <1>2 DEF Ends, TypeOK
  <1>6. /\ boxes' \in [Runners -> SUBSET Runs] /\ boxes'[w] = {}
        /\ \A v \in Runners : boxes'[v] \subseteq boxes[v]
    BY DEF Ends, TypeOK
  <1>7. inFlight' \in [Runners -> [Runs -> {NoWork} \cup [cmd : Commands, token : Tokens]]]
    BY DEF Ends, TypeOK
  <1>8. active' \in [Runners -> [Runs -> {0} \cup Tokens]]
    BY DEF Ends, TypeOK
  <1>9. TypeOK'
    BY <1>1, <1>4, <1>5, <1>6, <1>7, <1>8 DEF TypeOK, Table
  <1>10. ASSUME NEW c \in Commands, NEW k \in Tokens, task[c][k].at # w PROVE Alike(c, k)
    BY <1>3, <1>10 DEF Alike
  <1>11. \A c \in Commands, k \in Tokens : Alike(c, k) \/ Pc(c, k)' = "none"
    BY <1>2, <1>3, <1>10 DEF Pc
  <1>12. \A v \in Runners, c \in Commands, k \in Tokens : boxes'[v] # {} /\ task[c][k].at = v => Alike(c, k)
    BY <1>6, <1>10
  <1> QED BY <1>1, <1>5, <1>6, <1>9, <1>11, <1>12 DEF Shrinks

LEMMA ExitKeeps ==
  ASSUME IInv, NEW w \in Runners, Exit(w)
  PROVE  IInv'
  <1>1. faults' = faults /\ draining # {} /\ faults \in Nat /\ Ends(w)
    BY DEF Exit, IInv, TypeOK
  <1> QED BY <1>1, EndsShrinks, ShrinksKeeps

LEMMA CrashKeeps ==
  ASSUME IInv, NEW w \in Runners, Crash(w)
  PROVE  IInv'
  <1>1. faults' = faults + 1 /\ faults \in Nat /\ Ends(w)
    BY DEF Crash, Fault, IInv, TypeOK
  <1>2. faults' \in Nat
    BY <1>1
  <1> QED BY <1>1, <1>2, EndsShrinks, ShrinksKeeps

-----------------------------------------------------------------------------
(* The theorems. *)

\* At the start nothing has been asked for.
LEMMA InitHolds ==
  ASSUME Init
  PROVE  IInv
  <1> USE DEF Init
  <1>1. NoTask \in Tasks /\ NoTask.pc = "none" /\ NoPoll \in Polls /\ NoPoll.step = "idle"
    BY NoTaskIsTask DEF Polls, NoPoll
  <1>2. \A c \in Commands, k \in Tokens : Pc(c, k) = "none"
    BY <1>1 DEF Pc
  <1>3. \A w \in Runners : poll[w].step = "idle" /\ boxes[w] = {}
    BY <1>1
  <1>4. \A c \in Commands : cmd[c].status = "none" /\ cmd[c].attempts = 0 /\ cmd[c].live = FALSE /\ web[c] = "idle"
    OBVIOUS
  <1>5. \A r \in Runs : /\ r \in Commands /\ run[r] = "none" /\ box[r].status = "none" /\ box[r].handle = FALSE
                         /\ prompts[r] = 0
    BY Constants
  <1>6. TypeOK
    <2>1. run \in [Runs -> RunStatus \cup {"none"}] /\ target \in [Cancels -> Runs]
      OBVIOUS
    <2>2. cmd \in [Commands -> [status : CmdStatus, attempts : 0 .. MaxClaims, live : BOOLEAN]]
      BY SizeAssumption DEF CmdStatus
    <2>3. box \in [Runs -> [status : DOMAIN BoxAllowed, handle : BOOLEAN]]
      BY DEF BoxAllowed
    <2>4. web \in [Commands -> {"idle", "found", "writing", "done"}] /\ session \in {"open", "ended", "succeeded"}
      OBVIOUS
    <2>5. poll \in [Runners -> Polls] /\ task \in [Commands -> [Tokens -> Tasks]]
      BY <1>1
    <2>6. /\ inFlight \in [Runners -> [Runs -> {NoWork} \cup [cmd : Commands, token : Tokens]]]
          /\ active \in [Runners -> [Runs -> {0} \cup Tokens]] /\ boxes \in [Runners -> SUBSET Runs]
      OBVIOUS
    <2>7. prompts \in [Runs -> Nat] /\ faults \in Nat /\ vm \subseteq Runs /\ draining \subseteq Runners
      OBVIOUS
    <2> QED BY <2>1, <2>2, <2>3, <2>4, <2>5, <2>6, <2>7 DEF TypeOK
  <1>7. IRows
    <2> SUFFICES ASSUME NEW c \in Commands PROVE Rows(c) /\ Known(c)
      BY DEF IRows
    <2> QED BY <1>4, <1>5 DEF Rows, Known
  <1>8. IPolled /\ IShaped
    BY <1>2, <1>3 DEF IPolled, Polled, IShaped, Shaped
  <1>9. IOutcome /\ IMachine
    BY <1>2, <1>3, <1>5 DEF IOutcome, Outcome, IMachine, Untouched, Booting, Creating, Boxed
  <1>10. \A c \in Commands : Kept(c)
    BY <1>2, <1>3 DEF Kept
  <1>11. IOnce
    <2> SUFFICES ASSUME NEW r \in Runs PROVE WellKept(r) /\ Steady(r)
      BY DEF IOnce, Once, Steady
    <2>1. WellKept(r)
      BY <1>3, <1>5, <1>10 DEF WellKept
    <2>2. Forward(r)
      BY <1>2, <1>5 DEF Forward, Creating, Ready
    <2>3. \A c \in Cancels : Answered(c)
      BY <1>2, <1>3, <1>4, Constants DEF Answered
    <2> QED BY <1>10, <2>1, <2>2, <2>3, Constants DEF Steady
  <1>12. IClean /\ VisibleMachine
    BY <1>2, <1>5 DEF IClean, Clean, VisibleMachine
  <1>13. OutcomesAgree
    BY <1>4, <1>5 DEF OutcomesAgree
  <1> QED BY <1>6, <1>7, <1>8, <1>9, <1>11, <1>12, <1>13 DEF IInv

\* Nothing happens.
LEMMA StutterKeeps ==
  ASSUME IInv, UNCHANGED vars
  PROVE  IInv'
  <1>0. UNCHANGED <<run, cmd, target, session, box, vm, web, poll, draining, task, inFlight, active, boxes,
             prompts, faults>>
    BY DEF vars, rowVars, boxVars, mapVars
  <1>1. TypeOK' /\ faults \in Nat
    BY <1>0 DEF IInv, TypeOK
  <1>2. IRows'
    BY <1>0 DEF IInv, IRows, Rows, Known, RunOf
  <1> QED BY <1>0, <1>1, <1>2, WebKeeps

\* No step of a request, a runner, a lease, a timer or a failure breaks the invariant.
LEMMA Inductive ==
  ASSUME IInv, [Next]_vars
  PROVE  IInv'
  <1>1. ASSUME NEW c \in Commands, WebStep(c) PROVE IInv'
    BY <1>1, SendMessageKeeps, AskCancelKeeps, RequestCancelKeeps, WriteSessionKeeps DEF WebStep
  <1>2. ASSUME NEW c \in Commands, Expire(c) PROVE IInv'
    BY <1>2, ExpireKeeps
  <1>3. ASSUME NEW w \in Runners, PollStep(w) PROVE IInv'
    BY <1>3, StartClaimKeeps, NothingToClaimKeeps, TrackKeeps, GiveBackKeeps, ClaimRowKeeps DEF PollStep
  <1>4. ASSUME NEW w \in Runners, BeginDrain(w) \/ Exit(w) \/ Crash(w) PROVE IInv'
    BY <1>4, BeginDrainKeeps, ExitKeeps, CrashKeeps
  <1>5. ASSUME NEW c \in Commands, NEW k \in Tokens, LeaseStep(c, k) PROVE IInv'
    BY <1>5, StartLeaseKeeps, ReportRunKeeps, SettleKeeps, RecoverKeeps, CancelHereKeeps, CancelElsewhereKeeps
       DEF LeaseStep
  <1>6. ASSUME NEW c \in Runs, NEW k \in Tokens, RunStep(c, k) PROVE IInv'
    <2>1. CASE Refuse(c, k) \/ Begin(c, k) \/ Admit(c, k) \/ CheckCancelled(c, k)
      BY <2>1, RefuseKeeps, BeginKeeps, AdmitKeeps, CheckCancelledKeeps
    <2>2. CASE CreateBox(c, k) \/ Boot(c, k) \/ BootFails(c, k) \/ Bind(c, k) \/ Limit(c, k) \/ Undo(c, k)
      BY <2>2, CreateBoxKeeps, BootKeeps, BootFailsKeeps, BindKeeps, LimitKeeps, UndoKeeps
    <2>3. CASE Prepare(c, k) \/ PrepareIsRefused(c, k) \/ Enter(c, k) \/ StartPrompt(c, k)
      BY <2>3, PrepareKeeps, PrepareIsRefusedKeeps, EnterKeeps, StartPromptKeeps
    <2>4. CASE PromptReturns(c, k) \/ PromptRejects(c, k) \/ Tidy(c, k)
      BY <2>4, PromptReturnsKeeps, PromptRejectsKeeps, TidyKeeps
    <2>5. CASE Complete(c, k) \/ HandleFailure(c, k) \/ Leave(c, k)
      BY <2>5, CompleteKeeps, HandleFailureKeeps, LeaveKeeps
    <2> QED BY <1>6, <2>1, <2>2, <2>3, <2>4, <2>5 DEF RunStep
  <1>7. ASSUME NEW c \in Commands, NEW k \in Tokens, Disturb(c, k) PROVE IInv'
    BY <1>7, RenewKeeps, TimeoutKeeps, EventFailsKeeps, CallFailsKeeps, AskApprovalKeeps, ResumeApprovedKeeps,
       ThrowKeeps DEF Disturb
  <1>8. CASE UNCHANGED vars
    BY <1>8, StutterKeeps
  <1>9. CASE Next
    BY <1>1, <1>2, <1>3, <1>4, <1>5, <1>6, <1>7, <1>9 DEF Next
  <1> QED BY <1>8, <1>9

(* The invariant holds in every state. *)
THEOREM InvariantHolds == Spec => []IInv
  <1>1. Init => IInv
    BY InitHolds
  <1>2. IInv /\ [Next]_vars => IInv'
    BY Inductive
  <1> QED BY <1>1, <1>2, PTL DEF Spec

(* The rows, the maps of the runners and the work in progress stay among the states the code knows. *)
THEOREM TypeCorrect == Spec => []TypeOK
  <1>1. IInv => TypeOK
    BY DEF IInv
  <1> QED BY <1>1, InvariantHolds, PTL

(* A machine that exists is on record, whatever crashes or fails while it is created and destroyed. *)
THEOREM MachinesAreVisible == Spec => []VisibleMachine
  <1>1. IInv => VisibleMachine
    BY DEF IInv
  <1> QED BY <1>1, InvariantHolds, PTL

(* A start command and its run never tell different outcomes, whichever runner wrote which. *)
THEOREM OutcomesMatch == Spec => []OutcomesAgree
  <1>1. IInv => OutcomesAgree
    BY DEF IInv
  <1> QED BY <1>1, InvariantHolds, PTL

(* A run is prompted at most once, however often its lease expires, is given back or is taken over: with at
   most one fault, and with any number of them unless a cancel command of the run is claimed twice. *)
THEOREM PromptedOnce == Spec => []PromptOnce
  <1>1. ASSUME IInv PROVE PromptOnce
    <2> SUFFICES ASSUME NEW r \in Runs, faults <= 1 \/ \A c \in Cancels : target[c] = r => ClaimedOnce(c)
                 PROVE  prompts[r] <= 1
      BY DEF PromptOnce
    <2>1. Once(r) /\ faults \in Nat
      BY <1>1 DEF IInv, IOnce, TypeOK
    <2>2. CASE faults <= 1
      <3>1. faults = 0 \/ faults = 1
        BY <2>1, <2>2
      <3> QED BY <2>1, <3>1 DEF Once, WellKept, Steady, Forward
    <2>3. CASE \A c \in Cancels : target[c] = r => ClaimedOnce(c)
      BY <2>1, <2>3 DEF Once, Forward
    <2> QED BY <2>2, <2>3
  <1> QED BY <1>1, InvariantHolds, PTL

(* Without a fault, a run that nobody works on any more has no machine, or one whose row calls for an operator. *)
THEOREM NothingLeaks == Spec => []NoLeak
  <1>1. ASSUME IInv PROVE NoLeak
    <2> SUFFICES ASSUME NEW r \in vm, Quiet(r), faults = 0, box[r].status # "unknown" PROVE FALSE
      BY DEF NoLeak
    <2>1. r \in Runs /\ r \in CommandsOf(r)
      BY <1>1, Constants DEF IInv, TypeOK, CommandsOf
    <2>2. \A k \in Tokens : Pc(r, k) = "none"
      BY <2>1 DEF Quiet, Pc
    <2> QED BY <1>1, <2>1, <2>2 DEF IInv, IClean, Clean
  <1> QED BY <1>1, InvariantHolds, PTL

(* Without a fault, a run that completed has no machine. *)
THEOREM CompletedRunsAreClean == Spec => []CompletedIsClean
  <1>1. IInv => CompletedIsClean
    BY DEF IInv, IClean, Clean, CompletedIsClean
  <1> QED BY <1>1, InvariantHolds, PTL

-----------------------------------------------------------------------------
(* A cancellation sticks, as long as one runner works and nothing fails. *)

OneRunner == \A v, w \in Runners : v = w

Over(r) == run[r] \in Ended \/ prompts[r] > 0

\* The map of executions has the one that is under way.
Entered(r) ==
    \A w \in Runners :
        /\ \A k \in Tokens : task[r][k].kind = "execute" => Pc(r, k) # "none" /\ active[task[r][k].at][r] = k
        /\ active[w][r] # 0 => task[r][active[w][r]].kind = "execute"

\* How far a run is that was not prompted, from what is done about it; prompted or ended, it does not matter.
Course(r) ==
    Over(r) \/
    /\ run[r] # "awaiting_approval"
    /\ cmd[r].status \in {"accepted", "queued"} => run[r] = "queued"
    /\ cmd[r].status = "leased" => Held(r)
    /\ \A w \in Runners : poll[w].step = "claimed" /\ poll[w].cmd = r => run[r] = "queued" /\ ~poll[w].reclaimed
    /\ \A k \in Tokens :
        /\ Pc(r, k) # "none" => task[r][k].kind # "recover" /\ task[r][k].cause # "lost"
        /\ Pc(r, k) \in {"leased", "run", "admit"} => run[r] = "queued"
        /\ Pc(r, k) \in {"check", "create"} \cup Creating \cup {"prepare", "enter"} => run[r] = "provisioning"
        /\ Pc(r, k) = "start" => run[r] = "running"
        /\ Pc(r, k) \notin {"prompt", "tidy", "complete", "settle", "leave"}
        /\ Pc(r, k) = "failing" => task[r][k].error # "lost"
        /\ Pc(r, k) = "status" => task[r][k].report.run # "queued"

\* The next step towards the prompt is refused, and the execution under way is the last.
Halted(r) == \A k \in Tokens : Pc(r, k) = "start" => Aborted(r, k)

Last(r, k) ==
    \/ Pc(r, k) \in {"admit"} \cup Early /\ Aborted(r, k)
    \/ Pc(r, k) \in {"failing", "status"}

Doomed(r) == prompts[r] > 0 \/ (Halted(r) /\ (run[r] \in Ended \/ \E k \in Tokens : Last(r, k)))

\* What a cancel command that is answered, or about to be, has made of its run.
Withdrawn(c) ==
    /\ Applied(c) => Doomed(target[c])
    /\ \A k \in Tokens :
        /\ Pc(c, k) = "settle" => Doomed(target[c])
        /\ Pc(c, k) = "status" => \A j \in Tokens : Pc(target[c], j) \notin Boxed \cup {"create"}

Sticks(r) ==
    /\ Entered(r) /\ Course(r)
    /\ run[r] \in Ended => prompts[r] > 0 \/ Halted(r)
    /\ \A c \in Cancels : target[c] = r => Withdrawn(c)

ISticks == faults = 0 => \A r \in Runs : Sticks(r)

\* The other tasks are left alone.
Still(c, k) == \A d \in Commands, j \in Tokens : d # c \/ j # k => task'[d][j] = task[d][j]

\* Task (c, k) goes on at pc, with the same errand and no less reason to stop.
Proceeds(c, k, pc) ==
    /\ Still(c, k)
    /\ Pc(c, k)' = pc /\ task'[c][k].at = task[c][k].at /\ task'[c][k].kind = task[c][k].kind
    /\ Aborted(c, k) => Aborted(c, k)'
    /\ task'[c][k].cause = "lost" => task[c][k].cause = "lost"

LEMMA PutStill ==
  ASSUME task \in Table, NEW c \in Commands, NEW k \in Tokens, NEW t, task' = [task EXCEPT ![c][k] = t]
  PROVE  Still(c, k) /\ task'[c][k] = t
  BY DEF Still, Table

LEMMA StepProceeds ==
  ASSUME TypeOK, NEW c \in Commands, NEW k \in Tokens, NEW pc, Step(c, k, pc)
  PROVE  Proceeds(c, k, pc) /\ task'[c][k].error = task[c][k].error /\ task'[c][k].report = task[c][k].report
  <1> DEFINE t == [task[c][k] EXCEPT !.pc = pc]
  <1>0. task[c][k] \in Tasks /\ task \in Table
    BY TaskFacts
  <1>1. /\ t.pc = pc /\ t.at = task[c][k].at /\ t.kind = task[c][k].kind /\ t.cause = task[c][k].cause
        /\ t.error = task[c][k].error /\ t.report = task[c][k].report
    BY <1>0 DEF Tasks
  <1>2. task' = [task EXCEPT ![c][k] = t]
    BY DEF Step
  <1> HIDE DEF t
  <1>3. Still(c, k) /\ task'[c][k] = t
    BY <1>0, <1>2, PutStill
  <1> QED BY <1>1, <1>3 DEF Proceeds, Pc, Aborted

LEMMA FailProceeds ==
  ASSUME TypeOK, NEW c \in Commands, NEW k \in Tokens, NEW error, Fails(c, k, error)
  PROVE  Proceeds(c, k, "failing") /\ task'[c][k].error = error
  <1> DEFINE t == [task[c][k] EXCEPT !.pc = "failing", !.error = error]
  <1>0. task[c][k] \in Tasks /\ task \in Table
    BY TaskFacts
  <1>1. /\ t.pc = "failing" /\ t.at = task[c][k].at /\ t.kind = task[c][k].kind /\ t.cause = task[c][k].cause
        /\ t.error = error
    BY <1>0 DEF Tasks
  <1>2. task' = [task EXCEPT ![c][k] = t]
    BY Zenon DEF Fails
  <1> HIDE DEF t
  <1>3. Still(c, k) /\ task'[c][k] = t
    BY <1>0, <1>2, PutStill
  <1> QED BY <1>1, <1>3 DEF Proceeds, Pc, Aborted

LEMMA ReportProceeds ==
  ASSUME TypeOK, NEW c \in Commands, NEW k \in Tokens, NEW report, Reports(c, k, report)
  PROVE  /\ Proceeds(c, k, IF report.run = "none" THEN "settle" ELSE "status")
         /\ task'[c][k].report = report
  <1> DEFINE t == Reporting(task[c][k], report)
  <1>0. task[c][k] \in Tasks /\ task \in Table
    BY TaskFacts
  <1>1. /\ t.pc = (IF report.run = "none" THEN "settle" ELSE "status") /\ t.at = task[c][k].at
        /\ t.kind = task[c][k].kind /\ t.cause = task[c][k].cause /\ t.report = report
    BY <1>0 DEF Tasks, Reporting
  <1>2. task' = [task EXCEPT ![c][k] = t]
    BY <1>0 DEF Reports
  <1> HIDE DEF t
  <1>3. Still(c, k) /\ task'[c][k] = t
    BY <1>0, <1>2, PutStill
  <1> QED BY <1>1, <1>3 DEF Proceeds, Pc, Aborted

LEMMA FinishProceeds ==
  ASSUME TypeOK, NEW c \in Commands, NEW k \in Tokens, At(c, k) \in Runners, Finish(c, k)
  PROVE  /\ Still(c, k) /\ task'[c][k] = NoTask
         /\ \A w \in Runners, r \in Runs :
               active'[w][r] = IF task[c][k].kind = "execute" /\ w = At(c, k) /\ r = RunOf(c) THEN 0 ELSE active[w][r]
  <1>0. task \in Table /\ RunOf(c) \in Runs
    BY TaskFacts, RunOfIsRun
  <1>1. Still(c, k) /\ task'[c][k] = NoTask
    BY <1>0, PutStill DEF Finish
  <1>2. active \in [Runners -> [Runs -> {0} \cup Tokens]]
    BY DEF TypeOK
  <1>3. active' = IF task[c][k].kind = "execute" THEN [active EXCEPT ![At(c, k)][RunOf(c)] = 0] ELSE active
    BY DEF Finish
  <1> QED BY <1>0, <1>1, <1>2, <1>3

\* Without faults, whoever works on a run holds its lease, alone.
LEMMA Calm ==
  ASSUME IInv, faults = 0, NEW r \in Runs
  PROVE  WellKept(r) /\ Steady(r) /\ draining = {}
  BY DEF IInv, IOnce, Once, Steady

LEMMA Alone ==
  ASSUME IInv, faults = 0, NEW r \in Runs, NEW k \in Tokens, Pc(r, k) # "none"
  PROVE  /\ Holds(r, k) /\ \A j \in Tokens : j # k => Pc(r, j) = "none"
         /\ \A w \in Runners : ~(poll[w].step = "claimed" /\ poll[w].cmd = r)
         /\ At(r, k) \in Runners
  <1>1. \A j \in Tokens : Pc(r, j) # "none" => Holds(r, j)
    BY Calm DEF WellKept, Kept
  <1>2. ASSUME NEW w \in Runners, poll[w].step = "claimed", poll[w].cmd = r PROVE FALSE
    <2>1. Holds(r, poll[w].token)
      BY <1>2, Calm DEF WellKept, Kept
    <2>2. Pc(r, poll[w].token) = "none"
      BY <1>2 DEF IInv, IPolled, Polled
    <2> QED BY <1>1, <2>1, <2>2 DEF Holds
  <1>3. At(r, k) \in Runners
    BY Constants DEF IInv, IShaped, Shaped, At
  <1> QED BY <1>1, <1>2, <1>3 DEF Holds

\* What the course of a run reads is as it was.
LEMMA CourseSame ==
  ASSUME NEW r \in Runs, Course(r), run'[r] = run[r], prompts'[r] = prompts[r], poll' = poll,
         cmd'[r].status = cmd[r].status, cmd'[r].attempts = cmd[r].attempts,
         \A k \in Tokens : task'[r][k] = task[r][k], cmd[r].status = "leased" => cmd[r].attempts \in Tokens
  PROVE  Course(r)'
  <1>1. Over(r)' = Over(r) 
    BY DEF Over
  <1>2. \A k \in Tokens : Pc(r, k)' = Pc(r, k)
    BY DEF Pc
  <1>3. cmd[r].status = "leased" => Held(r)' = Held(r)
    BY DEF Held
  <1> QED BY <1>1, <1>2, <1>3 DEF Course

\* Nothing happens to a run, but perhaps to its cancel commands.
LEMMA SticksSame ==
  ASSUME NEW r \in Runs, Sticks(r), run'[r] = run[r], prompts'[r] = prompts[r],
         \A k \in Tokens : task'[r][k] = task[r][k], \A w \in Runners : active'[w][r] = active[w][r],
         \A w \in Runners : active[w][r] # 0 => active[w][r] \in Tokens,
         \A k \in Tokens : Pc(r, k) # "none" => task[r][k].at \in Runners,
         target' = target, Course(r)',
         \A c \in Cancels : target[c] = r =>
            /\ Applied(c)' => Applied(c) \/ Doomed(r)
            /\ \A k \in Tokens :
                /\ Pc(c, k)' = "settle" => Pc(c, k) = "settle" \/ Doomed(r)
                /\ Pc(c, k)' = "status" => Pc(c, k) = "status" \/ \A j \in Tokens : Pc(r, j) \notin Boxed \cup {"create"}
  PROVE  Sticks(r)'
  <1>1. \A k \in Tokens : Pc(r, k)' = Pc(r, k) /\ Aborted(r, k)' = Aborted(r, k)
    BY DEF Pc, Aborted
  <1>2. Doomed(r)' = Doomed(r) /\ Halted(r)' = Halted(r)
    BY <1>1 DEF Doomed, Halted, Last
  <1>3. Entered(r)'
    <2> SUFFICES ASSUME NEW w \in Runners
                 PROVE  /\ \A k \in Tokens : task'[r][k].kind = "execute" =>
                                Pc(r, k)' # "none" /\ active'[task'[r][k].at][r] = k
                        /\ active'[w][r] # 0 => task'[r][active'[w][r]].kind = "execute"
      BY DEF Entered
    <2>1. ASSUME NEW k \in Tokens, task'[r][k].kind = "execute"
          PROVE  Pc(r, k)' # "none" /\ active'[task'[r][k].at][r] = k
      BY <1>1, <2>1 DEF Sticks, Entered
    <2>2. ASSUME active'[w][r] # 0 PROVE task'[r][active'[w][r]].kind = "execute"
      BY <2>2 DEF Sticks, Entered
    <2> QED BY <2>1, <2>2
  <1>4. ASSUME NEW c \in Cancels, target[c] = r PROVE Withdrawn(c)'
    BY <1>1, <1>2, <1>4 DEF Sticks, Withdrawn
  <1> QED BY <1>2, <1>3, <1>4 DEF Sticks

\* Nothing happens to a run or its cancel commands.
LEMMA SticksApart ==
  ASSUME IInv, NEW r \in Runs, Sticks(r), run'[r] = run[r], prompts'[r] = prompts[r],
         \A k \in Tokens : task'[r][k] = task[r][k], \A w \in Runners : active'[w][r] = active[w][r],
         target' = target, poll' = poll, cmd'[r] = cmd[r],
         \A c \in Cancels : target[c] = r => cmd'[c] = cmd[c] /\ \A k \in Tokens : task'[c][k] = task[c][k]
  PROVE  Sticks(r)'
  <1>1. Course(r)'
    BY CourseSame, Constants DEF Sticks, IInv, IRows, Rows
  <1>2. \A w \in Runners : active[w][r] # 0 => active[w][r] \in Tokens
    BY DEF IInv, TypeOK
  <1>4. \A k \in Tokens : Pc(r, k) # "none" => task[r][k].at \in Runners
    BY Constants DEF IInv, IShaped, Shaped
  <1>3. \A c \in Cancels : target[c] = r =>
            Applied(c)' = Applied(c) /\ \A k \in Tokens : Pc(c, k)' = Pc(c, k)
    BY DEF Applied, Pc
  <1> QED BY <1>1, <1>2, <1>3, <1>4, SticksSame

\* A step of the work on a run.
LEMMA SticksOwn ==
  ASSUME IInv, faults = 0, NEW r \in Runs, NEW k \in Tokens, Sticks(r), Pc(r, k) # "none", Still(r, k),
         UNCHANGED <<target, poll>>, \A d \in Cancels : cmd'[d] = cmd[d],
         Entered(r)', Course(r)', run'[r] \in Ended => prompts'[r] > 0 \/ Halted(r)', Doomed(r) => Doomed(r)',
         Pc(r, k)' \in Boxed \cup {"create"} => Pc(r, k) \in Boxed \cup {"create"} \/ ~CancelPending
  PROVE  Sticks(r)'
  <1>1. ASSUME NEW c \in Cancels, target[c] = r PROVE Withdrawn(c)'
    <2>1. Applied(c)' = Applied(c) /\ \A j \in Tokens : task'[c][j] = task[c][j] /\ Pc(c, j)' = Pc(c, j)
      BY Constants DEF Applied, Still, Pc
    <2>2. Withdrawn(c)
      BY <1>1 DEF Sticks
    <2>3. ASSUME NEW i \in Tokens, Pc(c, i) = "status", NEW j \in Tokens
          PROVE  Pc(r, j)' \notin Boxed \cup {"create"}
      <3>1. Pc(r, j) \notin Boxed \cup {"create"}
        BY <1>1, <2>2, <2>3 DEF Withdrawn
      <3>2. CancelPending
        <4>1. Kept(c)
          BY <1>1, Calm DEF Steady
        <4>2. cmd[c].status = "leased"
          BY <2>3, <4>1 DEF Kept, Holds, Live
        <4> QED BY <4>2 DEF CancelPending, Open
      <3>3. CASE j = k
        BY <1>1, <2>2, <2>3, <3>2, <3>3 DEF Withdrawn
      <3>4. CASE j # k
        BY <3>1, <3>4, Constants DEF Still, Pc
      <3> QED BY <3>3, <3>4
    <2> QED BY <1>1, <2>1, <2>2, <2>3 DEF Withdrawn
  <1> QED BY <1>1 DEF Sticks

\* A step of the work on a run that keeps to its errand.
LEMMA EnteredOnward ==
  ASSUME IInv, faults = 0, NEW r \in Runs, NEW k \in Tokens, NEW pc, Entered(r), Pc(r, k) # "none",
         Proceeds(r, k, pc), pc # "none", active' = active
  PROVE  Entered(r)'
  <1>0. r \in Commands /\ \A j \in Tokens : j # k => Pc(r, j) = "none" /\ task'[r][j] = task[r][j] /\ Pc(r, j)' = "none"
    BY Constants, Alone DEF Proceeds, Still, Pc
  <1>9. pc = Pc(r, k)' /\ Still(r, k) /\ task'[r][k].kind = task[r][k].kind /\ task'[r][k].at = task[r][k].at
    BY DEF Proceeds
  <1>1. task[r][k].at \in Runners
    BY Alone DEF At
  <1>2. ASSUME NEW j \in Tokens, task'[r][j].kind = "execute"
        PROVE  Pc(r, j)' # "none" /\ active[task'[r][j].at][r] = j
    <2>1. task[r][j].kind = "execute" /\ task'[r][j].at = task[r][j].at
      BY <1>0, <1>9, <1>2
    <2> QED BY <1>0, <1>9, <1>1, <2>1 DEF Entered
  <1>3. ASSUME NEW w \in Runners, active[w][r] # 0 PROVE task'[r][active[w][r]].kind = "execute"
    <2>1. active[w][r] \in Tokens /\ task[r][active[w][r]].kind = "execute"
      BY <1>3 DEF Entered, IInv, TypeOK
    <2> QED BY <1>0, <1>9, <2>1
  <1> QED BY <1>2, <1>3 DEF Entered

\* A step of an execution on its way, or of one that no longer matters.
LEMMA SticksOnward ==
  ASSUME IInv, faults = 0, NEW r \in Runs, NEW k \in Tokens, NEW pc, Sticks(r), Pc(r, k) # "none", Proceeds(r, k, pc),
         pc # "none", UNCHANGED <<target, poll, active, run, cmd, prompts>>,
         pc = "start" => Pc(r, k) = "start",
         pc \in Boxed \cup {"create"} => Pc(r, k) \in Boxed \cup {"create"} \/ ~CancelPending,
         Over(r) \/
           /\ pc \in {"leased", "run", "admit"} => Pc(r, k) \in {"leased", "run", "admit"}
           /\ pc \in {"check", "create"} \cup Creating \cup {"prepare", "enter"} =>
                  Pc(r, k) \in {"check", "create"} \cup Creating \cup {"prepare", "enter"}
           /\ pc \notin {"prompt", "tidy", "complete", "settle", "leave"}
           /\ pc = "failing" => task'[r][k].error # "lost"
           /\ pc = "status" => task'[r][k].report.run # "queued"
           /\ Pc(r, k) \in {"admit"} \cup Early => pc \in {"admit", "failing", "status"} \cup Early
           /\ Pc(r, k) \in {"failing", "status"} => pc \in {"failing", "status"}
  PROVE  Sticks(r)'
  <1>0. r \in Commands /\ \A j \in Tokens : j # k => Pc(r, j) = "none" /\ task'[r][j] = task[r][j] /\ Pc(r, j)' = "none"
    BY Constants, Alone DEF Proceeds, Still, Pc
  <1>1. pc = Pc(r, k)' /\ Still(r, k) /\ task'[r][k].kind = task[r][k].kind /\ task'[r][k].at = task[r][k].at
    BY DEF Proceeds
  <1>2. Entered(r)'
    BY EnteredOnward DEF Sticks
  <1>3. Over(r)' = Over(r)
    BY DEF Over
  <1>4. Course(r)'
    <2>1. CASE Over(r)
      BY <1>3, <2>1 DEF Course
    <2>2. CASE ~Over(r)
      <3>1. cmd[r].status = "leased" => Held(r)'
        <4>1. Holds(r, k)
          BY Alone
        <4> QED BY <1>0, <1>1, <4>1 DEF Held, Pc, Holds
      <3>2. ASSUME NEW j \in Tokens
            PROVE  /\ Pc(r, j)' # "none" => task'[r][j].kind # "recover" /\ task'[r][j].cause # "lost"
                   /\ Pc(r, j)' \in {"leased", "run", "admit"} => run[r] = "queued"
                   /\ Pc(r, j)' \in {"check", "create"} \cup Creating \cup {"prepare", "enter"} => run[r] = "provisioning"
                   /\ Pc(r, j)' = "start" => run[r] = "running"
                   /\ Pc(r, j)' \notin {"prompt", "tidy", "complete", "settle", "leave"}
                   /\ Pc(r, j)' = "failing" => task'[r][j].error # "lost"
                   /\ Pc(r, j)' = "status" => task'[r][j].report.run # "queued"
        <4>1. CASE j = k
          BY <1>1, <2>2, <4>1 DEF Sticks, Course, Proceeds
        <4>2. CASE j # k
          BY <1>0, <4>2 DEF Creating
        <4> QED BY <4>1, <4>2
      <3> QED BY <2>2, <3>1, <3>2 DEF Sticks, Course
    <2> QED BY <2>1, <2>2
  <1>5. Halted(r) => Halted(r)'
    BY <1>0, <1>1 DEF Halted, Proceeds
  <1>6. run'[r] \in Ended => prompts'[r] > 0 \/ Halted(r)'
    BY <1>5 DEF Sticks
  <1>7. Doomed(r) => Doomed(r)'
    <2>1. ASSUME Last(r, k), ~Over(r) PROVE Last(r, k)'
      BY <1>1, <2>1 DEF Last, Proceeds
    <2>2. ASSUME NEW j \in Tokens, Last(r, j) PROVE j = k
      BY <1>0, <2>2 DEF Last, Early, Creating, Ready
    <2> QED BY <1>5, <2>1, <2>2 DEF Doomed, Over
  <1> QED BY <1>1, <1>2, <1>4, <1>6, <1>7, SticksOwn

\* A step of task (c, k) reaches its run, its command and its errand, and no other.
Touches(c, k) ==
    /\ Still(c, k) /\ UNCHANGED <<target, poll>>
    /\ \A d \in Commands : d # c => cmd'[d] = cmd[d]
    /\ \A r \in Runs : r # RunOf(c) =>
          /\ run'[r] = run[r] /\ prompts'[r] = prompts[r]
          /\ \A w \in Runners : active'[w][r] = active[w][r]

LEMMA SticksUntouched ==
  ASSUME IInv, NEW c \in Commands, NEW k \in Tokens, Touches(c, k), NEW r \in Runs, r # RunOf(c), Sticks(r)
  PROVE  Sticks(r)'
  <1>1. r \in Commands /\ r # c
    BY Constants
  <1>2. \A d \in Cancels : target[d] = r => d \in Commands /\ d # c
    BY Constants
  <1> QED BY <1>1, <1>2, SticksApart DEF Touches, Still

Idle == UNCHANGED <<target, poll, active, run, cmd, prompts>>

LEMMA IdleTouches ==
  ASSUME NEW c \in Commands, NEW k \in Tokens, NEW pc, Proceeds(c, k, pc), Idle
  PROVE  Touches(c, k)
  BY DEF Idle, Proceeds, Touches

\* The steps of an execution that only move it.
LEMMA StartLeaseSticks ==
  ASSUME IInv, faults = 0, NEW r \in Runs, NEW k \in Tokens, Sticks(r), StartLease(r, k)
  PROVE  Touches(r, k) /\ Sticks(r)'
  <1>0. r \in Commands /\ Pc(r, k) = "leased" /\ TypeOK
    BY Constants DEF StartLease, Working, Pc, IInv
  <1>1. Holds(r, k)
    BY <1>0, Alone
  <1>2. Proceeds(r, k, task[r][k].kind) /\ Idle
    BY <1>0, <1>1, StepProceeds DEF StartLease, Idle, rowVars, mapVars
  <1>3. task[r][k].kind \in {"run", "recover"}
    BY <1>0, Constants, TaskFacts DEF IInv, IShaped, Shaped, Tasks
  <1>4. task[r][k].kind = "recover" => Over(r)
    BY <1>0 DEF Sticks, Course
  <1>5. Sticks(r)'
    BY <1>0, <1>2, <1>3, <1>4, SticksOnward DEF Idle, Boxed, Creating, Early, Ready
  <1> QED BY <1>0, <1>2, <1>5, IdleTouches

LEMMA RefuseSticks ==
  ASSUME IInv, faults = 0, NEW r \in Runs, NEW k \in Tokens, Sticks(r), Refuse(r, k)
  PROVE  Touches(r, k) /\ Sticks(r)'
  <1>0. r \in Commands /\ Pc(r, k) = "run" /\ TypeOK
    BY Constants DEF Refuse, Working, Pc, IInv
  <1>1. Proceeds(r, k, "status") /\ task'[r][k].report.run \in {"failed", "timed_out"}
    BY <1>0, ReportProceeds DEF Refuse, IsRejected, HasExpired, Report
  <1>2. Idle
    BY DEF Refuse, Idle, rowVars, mapVars
  <1>3. Sticks(r)'
    BY <1>0, <1>1, <1>2, SticksOnward DEF Idle, Boxed, Creating, Early, Ready
  <1> QED BY <1>0, <1>1, <1>2, <1>3, IdleTouches

LEMMA CheckCancelledSticks ==
  ASSUME IInv, faults = 0, NEW r \in Runs, NEW k \in Tokens, Sticks(r), CheckCancelled(r, k)
  PROVE  Touches(r, k) /\ Sticks(r)'
  <1>0. r \in Commands /\ Pc(r, k) = "check" /\ TypeOK
    BY Constants DEF CheckCancelled, Working, Pc, IInv
  <1>1. \/ Proceeds(r, k, "create") /\ ~CancelPending
        \/ Proceeds(r, k, "failing") /\ task'[r][k].error = "cancelled"
    BY <1>0, StepProceeds, FailProceeds DEF CheckCancelled
  <1>2. Idle
    BY DEF CheckCancelled, Idle, mapVars
  <1>3. Sticks(r)'
    BY <1>0, <1>1, <1>2, SticksOnward DEF Idle, Boxed, Creating, Early, Ready
  <1> QED BY <1>0, <1>1, <1>2, <1>3, IdleTouches

LEMMA CreateBoxSticks ==
  ASSUME IInv, faults = 0, NEW r \in Runs, NEW k \in Tokens, Sticks(r), CreateBox(r, k)
  PROVE  Touches(r, k) /\ Sticks(r)'
  <1>0. r \in Commands /\ Pc(r, k) = "create" /\ TypeOK
    BY Constants DEF CreateBox, Working, Pc, IInv
  <1>1. \/ Proceeds(r, k, "prepare") \/ Proceeds(r, k, "boot")
        \/ Proceeds(r, k, "failing") /\ task'[r][k].error = "transient"
    BY <1>0, StepProceeds, FailProceeds DEF CreateBox
  <1>2. Idle
    BY DEF CreateBox, Idle, rowVars, mapVars
  <1>3. Sticks(r)'
    BY <1>0, <1>1, <1>2, SticksOnward DEF Idle, Boxed, Creating, Early, Ready
  <1> QED BY <1>0, <1>1, <1>2, <1>3, IdleTouches

LEMMA BoxSticks ==
  ASSUME IInv, faults = 0, NEW r \in Runs, NEW k \in Tokens, Sticks(r),
         Boot(r, k) \/ BootFails(r, k) \/ Bind(r, k) \/ Limit(r, k) \/ Undo(r, k)
  PROVE  Touches(r, k) /\ Sticks(r)'
  <1>0. r \in Commands /\ Pc(r, k) \in Creating /\ TypeOK
    BY Constants DEF Boot, BootFails, Bind, Limit, Undo, Working, Pc, IInv, Creating
  <1>1. \/ \E pc \in {"bind", "limit", "prepare"} : Proceeds(r, k, pc)
        \/ Proceeds(r, k, "failing") /\ task'[r][k].error \in {"abort", "transient"}
    <2>1. CASE Boot(r, k) \/ Bind(r, k) \/ Limit(r, k)
      BY <1>0, <2>1, StepProceeds DEF Boot, Bind, Limit
    <2>2. CASE BootFails(r, k) \/ Undo(r, k)
      BY <1>0, <2>2, FailProceeds DEF BootFails, Undo
    <2> QED BY <2>1, <2>2
  <1>2. Idle
    BY DEF Boot, BootFails, Bind, Limit, Undo, Idle, rowVars, mapVars
  <1>3. Sticks(r)'
    BY <1>0, <1>1, <1>2, SticksOnward DEF Idle, Boxed, Creating, Early, Ready
  <1> QED BY <1>0, <1>1, <1>2, <1>3, IdleTouches

LEMMA PrepareSticks ==
  ASSUME IInv, faults = 0, NEW r \in Runs, NEW k \in Tokens, Sticks(r), Prepare(r, k)
  PROVE  Touches(r, k) /\ Sticks(r)'
  <1>0. r \in Commands /\ Pc(r, k) = "prepare" /\ TypeOK
    BY Constants DEF Prepare, Working, Pc, IInv
  <1>1. Proceeds(r, k, "enter") \/ (Proceeds(r, k, "failing") /\ task'[r][k].error = "abort")
    BY <1>0, StepProceeds, FailProceeds DEF Prepare
  <1>2. Idle
    BY DEF Prepare, Idle, rowVars, mapVars
  <1>3. Sticks(r)'
    BY <1>0, <1>1, <1>2, SticksOnward DEF Idle, Boxed, Creating, Early, Ready
  <1> QED BY <1>0, <1>1, <1>2, <1>3, IdleTouches

LEMMA PromptSticks ==
  ASSUME IInv, faults = 0, NEW r \in Runs, NEW k \in Tokens, Sticks(r),
         PromptReturns(r, k) \/ PromptRejects(r, k) \/ Tidy(r, k)
  PROVE  Touches(r, k) /\ Sticks(r)'
  <1>0. r \in Commands /\ Pc(r, k) \in {"prompt", "tidy"} /\ TypeOK
    BY Constants DEF PromptReturns, PromptRejects, Tidy, Working, Pc, IInv
  <1>1. Over(r)
    BY <1>0 DEF Sticks, Course
  <1>2. \E pc \in {"tidy", "complete", "failing"} : Proceeds(r, k, pc)
    BY <1>0, StepProceeds, FailProceeds DEF PromptReturns, PromptRejects, Tidy
  <1>3. Idle
    BY DEF PromptReturns, PromptRejects, Tidy, Idle, rowVars, mapVars
  <1>4. Sticks(r)'
    BY <1>0, <1>1, <1>2, <1>3, SticksOnward DEF Idle, Boxed, Creating
  <1> QED BY <1>0, <1>2, <1>3, <1>4, IdleTouches

LEMMA HandleFailureSticks ==
  ASSUME IInv, faults = 0, NEW r \in Runs, NEW k \in Tokens, Sticks(r), HandleFailure(r, k)
  PROVE  Touches(r, k) /\ Sticks(r)'
  <1>0. r \in Commands /\ Pc(r, k) = "failing" /\ TypeOK
    BY Constants DEF HandleFailure, Working, Pc, IInv
  <1>1. \/ Proceeds(r, k, "leave") /\ (task[r][k].cause = "lost" \/ task[r][k].error = "lost")
        \/ \E dirty \in BOOLEAN : Reports(r, k, FailureReport(r, k, dirty))
    <2>1. PICK ok \in BOOLEAN :
             LET dirty == CleanUpFails(r, k, Wanted(task[r][k].error), ok) IN
             IF task[r][k].cause = "lost" \/ (task[r][k].error = "lost" /\ ~dirty)
             THEN Step(r, k, "leave") ELSE Reports(r, k, FailureReport(r, k, dirty))
      BY DEF HandleFailure
    <2>2. CleanUpFails(r, k, Wanted(task[r][k].error), ok) \in BOOLEAN
      BY DEF CleanUpFails, DestroyFails
    <2> QED BY <1>0, <2>1, <2>2, StepProceeds
  <1>2. ASSUME NEW dirty \in BOOLEAN
        PROVE  FailureReport(r, k, dirty).run \in {"unknown", "timed_out", "cancelled", "failed"}
    <2>1. task[r][k].at \notin draining
      BY Calm
    <2>2. FailureReport(r, k, dirty) \in {IsUnknown, IsTimedOut, IsCancelled, IsRejected, IsRetried}
      BY <2>1 DEF FailureReport
    <2> QED BY <2>2 DEF IsUnknown, IsTimedOut, IsCancelled, IsRejected, IsRetried, Report
  <1>3. \/ Proceeds(r, k, "leave") /\ Over(r)
        \/ Proceeds(r, k, "status") /\ task'[r][k].report.run # "queued"
    <2>1. task[r][k].cause = "lost" \/ task[r][k].error = "lost" => Over(r)
      BY <1>0 DEF Sticks, Course
    <2> QED BY <1>0, <1>1, <1>2, <2>1, ReportProceeds
  <1>4. Idle
    BY DEF HandleFailure, Idle, rowVars
  <1>5. Sticks(r)'
    BY <1>0, <1>3, <1>4, SticksOnward DEF Idle, Boxed, Creating, Early, Ready
  <1> QED BY <1>0, <1>3, <1>4, <1>5, IdleTouches

\* A reason to stop comes, or a better one.
LEMMA CauseProceeds ==
  ASSUME TypeOK, NEW c \in Commands, NEW k \in Tokens, NEW t, task' = [task EXCEPT ![c][k] = t],
         t.pc = task[c][k].pc, t.at = task[c][k].at, t.kind = task[c][k].kind,
         Aborted(c, k) => t.cause # "none", t.cause = "lost" => task[c][k].cause = "lost"
  PROVE  Proceeds(c, k, Pc(c, k))
  <1>1. Still(c, k) /\ task'[c][k] = t
    BY TaskFacts, PutStill
  <1> QED BY <1>1 DEF Proceeds, Pc, Aborted

LEMMA RaiseFacts ==
  ASSUME NEW old \in DOMAIN Rank, NEW new \in DOMAIN Rank
  PROVE  /\ old # "none" => Raise(old, new) # "none"
         /\ Raise(old, new) \in {old, new}
  BY DEF Raise, Rank

LEMMA DisturbSticks ==
  ASSUME IInv, faults = 0, NEW r \in Runs, NEW k \in Tokens, Sticks(r),
         Renew(r, k) \/ Timeout(r, k) \/ EventFails(r, k)
  PROVE  Touches(r, k) /\ Sticks(r)'
  <1>0. r \in Commands /\ Pc(r, k) \in Timed /\ TypeOK /\ task[r][k] \in Tasks
    BY Constants, TaskFacts DEF Renew, Timeout, EventFails, Pc, IInv
  <1>1. Pc(r, k) \notin {"none", "settle", "leave", "status"} /\ Holds(r, k)
    BY <1>0, Alone DEF Timed
  <1>2. task[r][k].cause \in DOMAIN Rank /\ {"cancel", "timeout", "abort"} \subseteq DOMAIN Rank
    BY <1>0 DEF Tasks, Rank
  <1>3. Proceeds(r, k, Pc(r, k)) /\ task'[r][k].error = task[r][k].error
    <2>1. CASE Renew(r, k)
      <3> DEFINE t == [task[r][k] EXCEPT !.cause = Raise(@, "cancel")]
      <3>1. task' = [task EXCEPT ![r][k] = t]
        BY <1>1, <2>1 DEF Renew
      <3>2. /\ t.pc = task[r][k].pc /\ t.at = task[r][k].at /\ t.kind = task[r][k].kind
            /\ t.cause = Raise(task[r][k].cause, "cancel") /\ t.error = task[r][k].error
        BY <1>0 DEF Tasks
      <3> HIDE DEF t
      <3>3. task'[r][k] = t
        BY <1>0, <3>1, PutStill, TaskFacts
      <3>4. /\ Aborted(r, k) => t.cause # "none"
            /\ t.cause = "lost" => task[r][k].cause = "lost"
        BY <1>2, <3>2, RaiseFacts DEF Aborted
      <3> QED BY <1>0, <3>1, <3>2, <3>3, <3>4, CauseProceeds
    <2>2. CASE Timeout(r, k)
      <3> DEFINE t == [task[r][k] EXCEPT !.cause = "timeout"]
      <3>1. task' = [task EXCEPT ![r][k] = t]
        BY <2>2 DEF Timeout
      <3>2. /\ t.pc = task[r][k].pc /\ t.at = task[r][k].at /\ t.kind = task[r][k].kind
            /\ t.cause = "timeout" /\ t.error = task[r][k].error
        BY <1>0 DEF Tasks
      <3> HIDE DEF t
      <3>3. task'[r][k] = t
        BY <1>0, <3>1, PutStill, TaskFacts
      <3> QED BY <1>0, <1>2, <3>1, <3>2, <3>3, CauseProceeds DEF Aborted
    <2>3. CASE EventFails(r, k)
      <3> DEFINE t == [task[r][k] EXCEPT !.cause = Raise(task[r][k].cause, "abort"), !.badEvent = TRUE]
      <3>1. task' = [task EXCEPT ![r][k] = t]
        BY <2>3, Zenon DEF EventFails
      <3>2. /\ t.pc = task[r][k].pc /\ t.at = task[r][k].at /\ t.kind = task[r][k].kind
            /\ t.cause = Raise(task[r][k].cause, "abort") /\ t.error = task[r][k].error
        BY <1>0 DEF Tasks
      <3> HIDE DEF t
      <3>3. task'[r][k] = t
        BY <1>0, <3>1, PutStill, TaskFacts
      <3>4. /\ Aborted(r, k) => t.cause # "none"
            /\ t.cause = "lost" => task[r][k].cause = "lost"
        BY <1>2, <3>2, RaiseFacts DEF Aborted
      <3> QED BY <1>0, <3>1, <3>2, <3>3, <3>4, CauseProceeds
    <2> QED BY <2>1, <2>2, <2>3
  <1>4. Idle
    BY DEF Renew, Timeout, EventFails, Idle, rowVars, mapVars
  <1>5. Over(r) \/
           /\ Pc(r, k) \notin {"prompt", "tidy", "complete"}
           /\ Pc(r, k) = "failing" => task'[r][k].error # "lost"
    BY <1>3 DEF Sticks, Course
  <1>6. Sticks(r)'
    BY <1>0, <1>1, <1>3, <1>4, <1>5, SticksOnward DEF Idle
  <1> QED BY <1>0, <1>3, <1>4, <1>6, IdleTouches

LEMMA RecoverRunSticks ==
  ASSUME IInv, faults = 0, NEW r \in Runs, NEW k \in Tokens, Sticks(r), Recover(r, k)
  PROVE  Touches(r, k) /\ Sticks(r)'
  <1>0. r \in Commands /\ Pc(r, k) = "recover" /\ TypeOK
    BY Constants DEF Recover, Working, Pc, IInv
  <1>1. task[r][k].kind = "recover"
    BY <1>0 DEF IInv, IShaped, Shaped
  <1>2. Over(r)
    BY <1>0, <1>1 DEF Sticks, Course
  <1>3. \E pc \in {"status", "settle"} : Proceeds(r, k, pc)
    BY <1>0, ReportProceeds DEF Recover
  <1>4. Idle
    BY DEF Recover, Idle, rowVars, mapVars
  <1>5. Sticks(r)'
    BY <1>0, <1>2, <1>3, <1>4, SticksOnward DEF Idle, Boxed, Creating
  <1> QED BY <1>0, <1>3, <1>4, <1>5, IdleTouches

LEMMA BeginSticks ==
  ASSUME IInv, OneRunner, faults = 0, NEW r \in Runs, NEW k \in Tokens, Sticks(r), Begin(r, k)
  PROVE  Touches(r, k) /\ Sticks(r)'
  <1>0. r \in Commands /\ RunOf(r) = r /\ Pc(r, k) = "run" /\ TypeOK /\ task[r][k] \in Tasks /\ task \in Table
    BY Constants, TaskFacts DEF Begin, Working, Pc, IInv
  <1>1. /\ Holds(r, k) /\ At(r, k) \in Runners
        /\ \A j \in Tokens : j # k => Pc(r, j) = "none"
    BY <1>0, Alone
  <1>2. task[r][k].kind = "run"
    BY <1>0 DEF IInv, IShaped, Shaped
  <1> DEFINE t == [task[r][k] EXCEPT !.pc = "admit", !.kind = "execute"]
  <1>3. t.pc = "admit" /\ t.kind = "execute" /\ t.at = At(r, k) /\ t.cause = task[r][k].cause
    BY <1>0 DEF Tasks, At
  <1>4. task' = [task EXCEPT ![r][k] = t]
    BY Zenon DEF Begin
  <1> HIDE DEF t
  <1>5. Still(r, k) /\ task'[r][k] = t
    BY <1>0, <1>4, PutStill
  <1>6. UNCHANGED <<target, poll, run, cmd, prompts>>
    BY DEF Begin, rowVars
  <1>7. \A w \in Runners, q \in Runs : active'[w][q] = IF w = At(r, k) /\ q = r THEN k ELSE active[w][q]
    BY <1>1 DEF Begin, IInv, TypeOK
  <1>8. Touches(r, k)
    BY <1>0, <1>5, <1>6, <1>7 DEF Touches
  <1>9. \A j \in Tokens : j # k => task'[r][j] = task[r][j] /\ Pc(r, j)' = "none"
    BY <1>0, <1>1, <1>5 DEF Still, Pc
  <1>10. Pc(r, k)' = "admit"
    BY <1>3, <1>5 DEF Pc
  <1>11. Entered(r)'
    <2>1. ASSUME NEW j \in Tokens, task'[r][j].kind = "execute"
          PROVE  Pc(r, j)' # "none" /\ active'[task'[r][j].at][r] = j
      <3>1. CASE j = k
        BY <1>1, <1>3, <1>5, <1>7, <1>10, <3>1
      <3>2. CASE j # k
        BY <1>1, <1>9, <2>1, <3>2 DEF Sticks, Entered
      <3> QED BY <3>1, <3>2
    <2>2. ASSUME NEW w \in Runners PROVE task'[r][active'[w][r]].kind = "execute"
      BY <1>1, <1>3, <1>5, <1>7, <2>2 DEF OneRunner
    <2> QED BY <2>1, <2>2 DEF Entered
  <1>12. Course(r)'
    <2>1. CASE Over(r)
      BY <1>6, <2>1 DEF Course, Over
    <2>2. CASE ~Over(r)
      <3>1. Held(r)'
        BY <1>1, <1>6, <1>10 DEF Held, Pc, Holds
      <3>2. run[r] = "queued" /\ task[r][k].cause # "lost"
        BY <1>0, <2>2 DEF Sticks, Course
      <3>3. \A w \in Runners : ~(poll[w].step = "claimed" /\ poll[w].cmd = r)
        BY <1>0, Alone
      <3> QED BY <1>3, <1>5, <1>6, <1>9, <1>10, <2>2, <3>1, <3>2, <3>3 DEF Sticks, Course, Creating
    <2> QED BY <2>1, <2>2
  <1>13. Halted(r)'
    BY <1>9, <1>10 DEF Halted
  <1>14. Doomed(r) => Doomed(r)'
    <2>1. \A j \in Tokens : ~Last(r, j)
      BY <1>0, <1>1 DEF Last, Early, Creating, Ready
    <2> QED BY <1>6, <1>13, <2>1 DEF Doomed
  <1>15. Sticks(r)'
    BY <1>0, <1>5, <1>6, <1>10, <1>11, <1>12, <1>13, <1>14, SticksOwn DEF Boxed, Creating
  <1> QED BY <1>8, <1>15

\* Statuses of a run that is not over, which its own work may end in any way.
LEMMA OpenFacts ==
  ASSUME IInv, NEW r \in Runs, ~Over(r), Course(r), cmd[r].status # "none"
  PROVE  /\ run[r] \in {"queued", "provisioning", "running"}
         /\ {"running", "unknown", "failed", "timed_out", "cancelled"} \subseteq Allowed[run[r]]
         /\ run[r] = "queued" => "provisioning" \in Allowed[run[r]]
  <1>1. run[r] \in RunStatus /\ run[r] # "awaiting_approval"
    BY Constants DEF IInv, IRows, Known, TypeOK, Course
  <1>2. run[r] \in {"queued", "provisioning", "running"}
    BY <1>1 DEF RunStatus, Allowed, Over, Ended
  <1>3. CASE run[r] = "queued"
    BY <1>2, <1>3 DEF Allowed
  <1>4. CASE run[r] = "provisioning"
    BY <1>2, <1>4 DEF Allowed
  <1>5. CASE run[r] = "running"
    BY <1>2, <1>5 DEF Allowed
  <1> QED BY <1>2, <1>3, <1>4, <1>5

\* Once prompted, a run has nothing to lose here.
LEMMA SticksPrompted ==
  ASSUME IInv, faults = 0, NEW r \in Runs, NEW k \in Tokens, Sticks(r), Pc(r, k) # "none", Still(r, k),
         UNCHANGED <<target, poll>>, \A d \in Cancels : cmd'[d] = cmd[d],
         prompts'[r] > 0, Entered(r)',
         Pc(r, k)' \in Boxed \cup {"create"} => Pc(r, k) \in Boxed \cup {"create"} \/ ~CancelPending
  PROVE  Sticks(r)'
  <1>1. Course(r)' /\ Doomed(r)'
    BY DEF Course, Over, Doomed
  <1> QED BY <1>1, SticksOwn

\* The run moves on with its execution.
LEMMA SticksMove ==
  ASSUME IInv, faults = 0, NEW r \in Runs, NEW k \in Tokens, Sticks(r), NEW pc, NEW status, Proceeds(r, k, pc),
         Pc(r, k) \in {"admit", "enter"}, run[r] \notin Ended, Move(r, status),
         <<pc, status>> \in {<<"check", "provisioning">>, <<"start", "running">>},
         Pc(r, k) = "admit" => pc = "check",
         UNCHANGED <<target, poll, active, cmd, prompts>>
  PROVE  Touches(r, k) /\ Sticks(r)'
  <1>0. r \in Commands /\ RunOf(r) = r
    BY Constants
  <1>1. Still(r, k) /\ Pc(r, k)' = pc /\ pc # "none" /\ pc \notin Boxed \ {"start"} /\ pc # "create"
    BY DEF Proceeds, Boxed, Creating
  <1>2. run'[r] = status /\ \A q \in Runs : q # r => run'[q] = run[q]
    BY <1>0 DEF Move, IInv, TypeOK
  <1>3. Touches(r, k)
    BY <1>0, <1>1, <1>2 DEF Touches
  <1>4. Entered(r)'
    BY <1>1, EnteredOnward DEF Sticks
  <1>5. /\ \A j \in Tokens : j # k => Pc(r, j) = "none" /\ Pc(r, j)' = "none" /\ task'[r][j] = task[r][j]
        /\ Holds(r, k)
    BY <1>0, <1>1, Alone DEF Still, Pc
  <1>6. Course(r)'
    <2>1. CASE prompts[r] > 0
      BY <2>1 DEF Course, Over
    <2>2. CASE ~(prompts[r] > 0)
      <3>1. ~Over(r)
        BY <2>2 DEF Over
      <3>2. Held(r)'
        BY <1>1, <1>5 DEF Held, Pc, Holds
      <3>3. task'[r][k].kind # "recover" /\ task'[r][k].cause # "lost"
        BY <3>1 DEF Sticks, Course, Proceeds
      <3>4. \A w \in Runners : ~(poll[w].step = "claimed" /\ poll[w].cmd = r)
        BY Alone
      <3>5. cmd'[r].status = "leased"
        BY <1>5 DEF Holds, Live
      <3> QED BY <1>1, <1>2, <1>5, <3>2, <3>3, <3>4, <3>5 DEF Course, Creating
    <2> QED BY <2>1, <2>2
  <1>7. Doomed(r) => Doomed(r)'
    <2> SUFFICES ASSUME Doomed(r), ~(prompts[r] > 0) PROVE Doomed(r)'
      BY DEF Doomed
    <2>1. Last(r, k)
      <3>1. PICK j \in Tokens : Last(r, j)
        BY DEF Doomed
      <3> QED BY <1>5, <3>1 DEF Last, Early, Creating, Ready
    <2>2. Aborted(r, k)'
      BY <2>1 DEF Last, Proceeds
    <2>3. Last(r, k)' /\ Halted(r)'
      BY <1>1, <1>5, <2>2 DEF Last, Halted, Early, Ready
    <2> QED BY <2>3 DEF Doomed
  <1>8. run'[r] \notin Ended
    BY <1>2 DEF Ended
  <1>9. Pc(r, k)' \in Boxed \cup {"create"} => Pc(r, k) \in Boxed \cup {"create"}
    BY <1>1 DEF Boxed
  <1> QED BY <1>1, <1>3, <1>4, <1>6, <1>7, <1>8, <1>9, SticksOwn

LEMMA AdmitSticks ==
  ASSUME IInv, faults = 0, NEW r \in Runs, NEW k \in Tokens, Sticks(r), Admit(r, k)
  PROVE  Touches(r, k) /\ Sticks(r)'
  <1>0. r \in Commands /\ RunOf(r) = r /\ Pc(r, k) = "admit" /\ TypeOK /\ At(r, k) \notin draining
    BY Constants, Calm DEF Admit, Working, Pc, IInv
  <1>1. Holds(r, k) /\ cmd[r].status # "none"
    BY <1>0, Alone DEF Holds, Live
  <1>2. UNCHANGED <<target, poll, active, cmd, prompts>>
    BY DEF Admit, mapVars
  <1>3. CASE CanMove(r, k, "provisioning")
    <2>1. Move(r, "provisioning") /\ Proceeds(r, k, "check")
      BY <1>0, <1>3, StepProceeds DEF Admit
    <2>2. CASE run[r] \notin Ended
      BY <1>0, <1>2, <2>1, <2>2, SticksMove
    <2>3. CASE run[r] \in Ended
      BY <1>0, <1>3, <2>3 DEF CanMove, Ended, Allowed
    <2> QED BY <2>2, <2>3
  <1>4. CASE ~CanMove(r, k, "provisioning")
    <2>1. Proceeds(r, k, "failing") /\ run' = run
      BY <1>0, <1>4, FailProceeds DEF Admit
    <2>2. Over(r)
      <3>1. ~Over(r) => run[r] = "queued"
        BY <1>0 DEF Sticks, Course
      <3>2. ~Over(r) => "provisioning" \in Allowed[run[r]]
        BY <1>1, <3>1, OpenFacts DEF Sticks
      <3> QED BY <1>0, <1>1, <1>4, <3>2 DEF CanMove
    <2>3. Sticks(r)'
      BY <1>0, <1>2, <2>1, <2>2, SticksOnward DEF Boxed, Creating
    <2> QED BY <1>0, <1>2, <2>1, <2>3, IdleTouches DEF Idle
  <1> QED BY <1>3, <1>4

LEMMA EnterSticks ==
  ASSUME IInv, faults = 0, NEW r \in Runs, NEW k \in Tokens, Sticks(r), Enter(r, k)
  PROVE  Touches(r, k) /\ Sticks(r)'
  <1>0. r \in Commands /\ RunOf(r) = r /\ Pc(r, k) = "enter" /\ TypeOK
    BY Constants DEF Enter, Working, Pc, IInv
  <1>1. Holds(r, k) /\ cmd[r].status # "none"
    BY <1>0, Alone DEF Holds, Live
  <1>2. UNCHANGED <<target, poll, active, cmd, prompts>>
    BY DEF Enter, mapVars
  <1>3. CASE CanMove(r, k, "running")
    <2>1. Move(r, "running") /\ Proceeds(r, k, "start")
      BY <1>0, <1>3, StepProceeds DEF Enter
    <2>2. CASE run[r] \notin Ended
      BY <1>0, <1>2, <2>1, <2>2, SticksMove
    <2>3. CASE run[r] \in Ended
      BY <1>0, <1>3, <2>3 DEF CanMove, Ended, Allowed
    <2> QED BY <2>2, <2>3
  <1>4. CASE ~CanMove(r, k, "running")
    <2>1. Proceeds(r, k, "failing") /\ run' = run
      BY <1>0, <1>4, FailProceeds DEF Enter
    <2>2. Over(r)
      <3>1. ~Over(r) => "running" \in Allowed[run[r]]
        BY <1>1, OpenFacts DEF Sticks
      <3> QED BY <1>0, <1>1, <1>4, <3>1 DEF CanMove
    <2>3. Sticks(r)'
      BY <1>0, <1>2, <2>1, <2>2, SticksOnward DEF Boxed, Creating
    <2> QED BY <1>0, <1>2, <2>1, <2>3, IdleTouches DEF Idle
  <1> QED BY <1>3, <1>4

LEMMA StartPromptSticks ==
  ASSUME IInv, faults = 0, NEW r \in Runs, NEW k \in Tokens, Sticks(r), StartPrompt(r, k)
  PROVE  Touches(r, k) /\ Sticks(r)'
  <1>0. r \in Commands /\ RunOf(r) = r /\ Pc(r, k) = "start" /\ TypeOK /\ task[r][k] \in Tasks /\ task \in Table
    BY Constants, TaskFacts DEF StartPrompt, Working, Pc, IInv
  <1>1. Holds(r, k)
    BY <1>0, Alone
  <1>2. UNCHANGED <<run, cmd, target, poll, active>>
    BY DEF StartPrompt, mapVars
  <1> DEFINE pc == IF Aborted(r, k) THEN "failing" ELSE "prompt"
             t == [task[r][k] EXCEPT !.started = TRUE, !.pc = pc,
                                     !.error = IF Aborted(r, k) THEN "abort" ELSE task[r][k].error]
  <1>3. /\ t.pc = pc /\ t.at = task[r][k].at /\ t.kind = task[r][k].kind /\ t.cause = task[r][k].cause
        /\ Aborted(r, k) => t.error = "abort"
    BY <1>0 DEF Tasks
  <1>4. task' = [task EXCEPT ![r][k] = t]
    BY <1>1 DEF StartPrompt
  <1>5. prompts' = IF Aborted(r, k) THEN prompts ELSE [prompts EXCEPT ![r] = @ + 1]
    BY <1>1 DEF StartPrompt
  <1> HIDE DEF t
  <1>6. Still(r, k) /\ task'[r][k] = t
    BY <1>0, <1>4, PutStill
  <1>7. Proceeds(r, k, pc)
    BY <1>3, <1>6 DEF Proceeds, Pc, Aborted
  <1>8. CASE Aborted(r, k)
    <2>1. Idle
      BY <1>2, <1>5, <1>8 DEF Idle
    <2>2. Proceeds(r, k, "failing") /\ task'[r][k].error = "abort"
      BY <1>3, <1>6, <1>7, <1>8
    <2>3. Sticks(r)'
      BY <1>0, <2>1, <2>2, SticksOnward DEF Idle, Boxed, Creating, Early, Ready
    <2> QED BY <1>0, <2>1, <2>2, <2>3, IdleTouches
  <1>9. CASE ~Aborted(r, k)
    <2>1. prompts[r] \in Nat /\ prompts'[r] = prompts[r] + 1 /\ \A q \in Runs : q # r => prompts'[q] = prompts[q]
      BY <1>0, <1>5, <1>9 DEF TypeOK
    <2>2. Touches(r, k)
      BY <1>0, <1>2, <1>6, <2>1 DEF Touches
    <2>3. Entered(r)'
      BY <1>0, <1>2, <1>7, EnteredOnward DEF Sticks
    <2>4. Sticks(r)'
      BY <1>0, <1>2, <1>6, <2>1, <2>3, SticksPrompted DEF Boxed, Ready
    <2> QED BY <2>2, <2>4
  <1> QED BY <1>8, <1>9

LEMMA ApprovalSticks ==
  ASSUME IInv, faults = 0, NEW r \in Runs, NEW k \in Tokens, Sticks(r), AskApproval(r, k) \/ ResumeApproved(r, k)
  PROVE  Touches(r, k) /\ Sticks(r)'
  <1>0. r \in Commands /\ RunOf(r) = r /\ Pc(r, k) = "prompt" /\ TypeOK
    BY Constants DEF AskApproval, ResumeApproved, Working, Pc, IInv
  <1>1. UNCHANGED <<cmd, target, poll, task, active, prompts>>
    BY DEF AskApproval, ResumeApproved, mapVars
  <1>2. /\ run[r] \notin Ended
        /\ \A q \in Runs : q # r => run'[q] = run[q]
    BY <1>0 DEF AskApproval, ResumeApproved, CanMove, Move, Allowed, Ended, TypeOK
  <1>3. prompts[r] > 0
    BY <1>0, <1>2 DEF Sticks, Course, Over
  <1>4. Still(r, k) /\ Pc(r, k)' = Pc(r, k)
    BY <1>1 DEF Still, Pc
  <1>5. Touches(r, k)
    BY <1>0, <1>1, <1>2, <1>4 DEF Touches
  <1>6. Entered(r)'
    BY <1>1 DEF Sticks, Entered, Pc
  <1>7. Sticks(r)'
    BY <1>0, <1>1, <1>3, <1>4, <1>6, SticksPrompted
  <1> QED BY <1>5, <1>7

\* The work on a run that is over comes to an end.
LEMMA SticksFinish ==
  ASSUME IInv, OneRunner, faults = 0, NEW r \in Runs, NEW k \in Tokens, Sticks(r), Pc(r, k) # "none", Finish(r, k),
         UNCHANGED <<target, poll, prompts>>, \A d \in Commands : d # r => cmd'[d] = cmd[d],
         \A q \in Runs : q # r => run'[q] = run[q], Over(r)'
  PROVE  Touches(r, k) /\ Sticks(r)'
  <1>0. r \in Commands /\ RunOf(r) = r /\ TypeOK /\ NoTask.pc = "none" /\ NoTask.kind = "run"
    BY Constants, NoTaskIsTask DEF IInv, NoTask
  <1>1. At(r, k) \in Runners /\ \A j \in Tokens : j # k => Pc(r, j) = "none"
    BY Alone
  <1>2. /\ Still(r, k) /\ task'[r][k] = NoTask
        /\ \A w \in Runners, q \in Runs :
              active'[w][q] = IF task[r][k].kind = "execute" /\ w = At(r, k) /\ q = r THEN 0 ELSE active[w][q]
    BY <1>0, <1>1, FinishProceeds
  <1>3. Touches(r, k)
    BY <1>0, <1>2 DEF Touches
  <1>4. \A j \in Tokens : Pc(r, j)' = "none" /\ (j # k => task'[r][j] = task[r][j])
    BY <1>0, <1>1, <1>2 DEF Still, Pc
  <1>5. Entered(r)'
    <2>1. ASSUME NEW j \in Tokens PROVE task'[r][j].kind # "execute"
      <3>1. CASE j = k
        BY <1>0, <1>2, <3>1
      <3>2. CASE j # k
        BY <1>1, <1>4, <3>2 DEF Sticks, Entered
      <3> QED BY <3>1, <3>2
    <2>2. ASSUME NEW w \in Runners PROVE active'[w][r] = 0
      <3>1. w = At(r, k)
        BY <1>1 DEF OneRunner
      <3>2. CASE task[r][k].kind = "execute"
        BY <1>2, <3>1, <3>2
      <3>3. CASE task[r][k].kind # "execute"
        <4>1. active'[w][r] = active[w][r] /\ active[w][r] \in {0} \cup Tokens
          BY <1>0, <1>2, <3>3 DEF TypeOK
        <4>2. ASSUME active[w][r] # 0 PROVE FALSE
          <5>1. task[r][active[w][r]].kind = "execute" /\ active[w][r] \in Tokens
            BY <4>1, <4>2 DEF Sticks, Entered
          <5>2. Pc(r, active[w][r]) # "none"
            BY <5>1 DEF Sticks, Entered
          <5> QED BY <1>1, <3>3, <5>1, <5>2
        <4> QED BY <4>1, <4>2
      <3> QED BY <3>2, <3>3
    <2> QED BY <2>1, <2>2 DEF Entered
  <1>6. Course(r)' /\ Halted(r)'
    BY <1>4 DEF Course, Halted
  <1>7. Doomed(r)'
    BY <1>6 DEF Doomed, Over
  <1>8. \A d \in Cancels : cmd'[d] = cmd[d]
    BY Constants
  <1>9. Pc(r, k)' \notin Boxed \cup {"create"}
    BY <1>4 DEF Boxed, Creating
  <1>10. Sticks(r)'
    BY <1>2, <1>5, <1>6, <1>7, <1>8, <1>9, SticksOwn
  <1> QED BY <1>3, <1>10

LEMMA EndOfRunSticks ==
  ASSUME IInv, OneRunner, faults = 0, NEW r \in Runs, NEW k \in Tokens, Sticks(r),
         Settle(r, k) \/ Complete(r, k) \/ Leave(r, k)
  PROVE  Touches(r, k) /\ Sticks(r)'
  <1>0. r \in Commands /\ RunOf(r) = r /\ Pc(r, k) \in {"settle", "complete", "leave"} /\ TypeOK
    BY Constants DEF Settle, Complete, Leave, Working, Pc, IInv
  <1>1. Over(r)
    BY <1>0 DEF Sticks, Course
  <1>2. UNCHANGED <<target, poll, prompts>> /\ Finish(r, k)
    BY DEF Settle, Complete, Leave, rowVars
  <1>3. \A d \in Commands : d # r => cmd'[d] = cmd[d]
    BY <1>0 DEF Settle, Complete, Leave, rowVars, TypeOK
  <1>4. /\ run[r] \in Ended => run'[r] \in Ended
        /\ \A q \in Runs : q # r => run'[q] = run[q]
    <2>1. CASE Settle(r, k) \/ Leave(r, k)
      BY <2>1 DEF Settle, Leave, rowVars
    <2>2. CASE Complete(r, k)
      BY <1>0, <2>2 DEF Complete, Move, TypeOK, Ended
    <2> QED BY <2>1, <2>2
  <1>5. Over(r)'
    BY <1>1, <1>2, <1>4 DEF Over
  <1> QED BY <1>0, <1>2, <1>3, <1>4, <1>5, SticksFinish

LEMMA ReportOfRunSticks ==
  ASSUME IInv, OneRunner, faults = 0, NEW r \in Runs, NEW k \in Tokens, Sticks(r), ReportRun(r, k)
  PROVE  Touches(r, k) /\ Sticks(r)'
  <1>0. r \in Commands /\ RunOf(r) = r /\ Pc(r, k) = "status" /\ TypeOK
    BY Constants DEF ReportRun, Working, Pc, IInv
  <1>1. /\ Holds(r, k) /\ cmd[r].status # "none"
        /\ \A j \in Tokens : j # k => Pc(r, j) = "none"
    BY <1>0, Alone DEF Holds, Live
  <1> DEFINE status == task[r][k].report.run
  <1>2. UNCHANGED <<cmd, target, poll, prompts>>
    BY DEF ReportRun
  <1>3. ~Over(r) => status \in {"unknown", "failed", "timed_out", "cancelled"}
    <2>1. ~Over(r) => status # "queued"
      BY <1>0 DEF Sticks, Course
    <2>2. task[r][k].report \in ReportSet
      BY <1>0 DEF IInv, IShaped, Shaped
    <2>3. status \in {"unknown", "failed", "timed_out", "cancelled", "queued"}
      BY <2>2 DEF ReportSet, IsUnknown, GoesBack, IsRetried, IsTimedOut, IsCancelled, IsRejected, HasExpired, Report
    <2> QED BY <2>1, <2>3
  <1>4. CASE CanMove(r, k, status)
    <2>1. Move(r, status) /\ Step(r, k, "settle") /\ UNCHANGED mapVars
      BY <1>4 DEF ReportRun
    <2>2. Proceeds(r, k, "settle") /\ active' = active
      BY <1>0, <2>1, StepProceeds DEF mapVars
    <2>3. run'[r] = status /\ \A q \in Runs : q # r => run'[q] = run[q]
      BY <1>0, <2>1 DEF Move, TypeOK
    <2>4. Over(r)'
      <3>1. CASE Over(r)
        <4>1. run[r] \in Ended => status = run[r]
          BY <1>0, <1>4 DEF CanMove, Ended, Allowed
        <4> QED BY <1>2, <2>3, <3>1, <4>1 DEF Over
      <3>2. CASE ~Over(r)
        BY <1>3, <2>3, <3>2 DEF Over, Ended
      <3> QED BY <3>1, <3>2
    <2>5. Still(r, k) /\ Pc(r, k)' = "settle" /\ \A j \in Tokens : j # k => Pc(r, j)' = "none"
      BY <1>0, <1>1, <2>2 DEF Proceeds, Still, Pc
    <2>6. Touches(r, k)
      BY <1>0, <1>2, <2>2, <2>3, <2>5 DEF Touches
    <2>7. Entered(r)'
      BY <1>0, <2>2, EnteredOnward DEF Sticks
    <2>8. Course(r)' /\ Halted(r)'
      BY <2>4, <2>5 DEF Course, Halted
    <2>9. Doomed(r)'
      BY <2>4, <2>8 DEF Doomed, Over
    <2>10. Sticks(r)'
      BY <1>0, <1>2, <2>5, <2>7, <2>8, <2>9, SticksOwn DEF Boxed, Creating
    <2> QED BY <2>6, <2>10
  <1>5. CASE ~CanMove(r, k, status)
    <2>1. Finish(r, k) /\ run' = run
      BY <1>5 DEF ReportRun
    <2>2. Over(r)
      <3>1. ~Over(r) => status \in Allowed[run[r]]
        BY <1>1, <1>3, OpenFacts DEF Sticks
      <3> QED BY <1>0, <1>1, <1>5, <3>1 DEF CanMove
    <2>3. Over(r)'
      BY <1>2, <2>1, <2>2 DEF Over
    <2> QED BY <1>0, <1>2, <2>1, <2>3, SticksFinish
  <1> QED BY <1>4, <1>5

\* A step of a cancel task that leaves the run and the map of executions alone.
LEMMA SticksCancel ==
  ASSUME IInv, NEW c \in Cancels, NEW k \in Tokens, NEW r \in Runs, r = target[c], Sticks(r), Touches(c, k),
         UNCHANGED <<run, prompts>>, \A w \in Runners : active'[w][r] = active[w][r],
         Applied(c)' => Applied(c) \/ Doomed(r),
         Pc(c, k)' = "settle" => Pc(c, k) = "settle" \/ Doomed(r),
         Pc(c, k)' = "status" => Pc(c, k) = "status" \/ \A j \in Tokens : Pc(r, j) \notin Boxed \cup {"create"}
  PROVE  Sticks(r)'
  <1>0. c \in Commands /\ r \in Commands /\ r # c /\ \A d \in Cancels : d \in Commands
    BY Constants
  <1>1. /\ \A d \in Commands, j \in Tokens : d # c \/ j # k => task'[d][j] = task[d][j] /\ Pc(d, j)' = Pc(d, j)
        /\ \A d \in Commands : d # c => cmd'[d] = cmd[d] /\ Applied(d)' = Applied(d)
    BY DEF Touches, Still, Pc, Applied
  <1>2. UNCHANGED <<target, poll>>
    BY DEF Touches
  <1>3. Course(r)'
    BY <1>0, <1>1, <1>2, CourseSame DEF Sticks, IInv, IRows, Rows
  <1>4. \A w \in Runners : active[w][r] # 0 => active[w][r] \in Tokens
    BY DEF IInv, TypeOK
  <1>5. \A j \in Tokens : Pc(r, j) # "none" => task[r][j].at \in Runners
    BY <1>0 DEF IInv, IShaped, Shaped
  <1>6. ASSUME NEW d \in Cancels
        PROVE  /\ Applied(d)' => Applied(d) \/ Doomed(r)
               /\ \A j \in Tokens :
                   /\ Pc(d, j)' = "settle" => Pc(d, j) = "settle" \/ Doomed(r)
                   /\ Pc(d, j)' = "status" => Pc(d, j) = "status" \/ \A i \in Tokens : Pc(r, i) \notin Boxed \cup {"create"}
    BY <1>0, <1>1
  <1> QED BY <1>0, <1>1, <1>2, <1>3, <1>4, <1>5, <1>6, SticksSame

\* What a cancel task is, without faults.
LEMMA CancelTask ==
  ASSUME IInv, faults = 0, NEW c \in Cancels, NEW k \in Tokens, Pc(c, k) # "none"
  PROVE  /\ c \in Commands /\ RunOf(c) = target[c] /\ target[c] \in Runs /\ TypeOK
         /\ Holds(c, k) /\ At(c, k) \in Runners /\ task[c][k].kind # "execute"
         /\ task[c][k].kind = "recover" => run[target[c]] \in Ended
  <1>0. c \in Commands /\ RunOf(c) = target[c] /\ target[c] \in Runs /\ TypeOK
    BY Constants DEF IInv, TypeOK
  <1>1. Kept(c) /\ Answered(c)
    BY <1>0, Calm DEF Steady
  <1>2. Shaped(c, k)
    BY <1>0 DEF IInv, IShaped
  <1> QED BY <1>0, <1>1, <1>2 DEF Kept, Answered, Shaped, At

\* An ended run is prompted, or will not be.
LEMMA EndedIsDoomed ==
  ASSUME NEW r \in Runs, Sticks(r), run[r] \in Ended
  PROVE  Doomed(r)
  BY DEF Sticks, Doomed

LEMMA StartCancelSticks ==
  ASSUME IInv, faults = 0, NEW c \in Cancels, NEW k \in Tokens, Sticks(target[c]), StartLease(c, k)
  PROVE  Touches(c, k) /\ Sticks(target[c])'
  <1>0. Pc(c, k) = "leased"
    BY DEF StartLease, Working, Pc
  <1>1. /\ c \in Commands /\ RunOf(c) = target[c] /\ target[c] \in Runs /\ TypeOK /\ Holds(c, k)
        /\ task[c][k].kind \in {"recover", "cancel"}
    BY <1>0, CancelTask DEF IInv, IShaped, Shaped
  <1>2. Proceeds(c, k, task[c][k].kind) /\ Idle
    BY <1>1, StepProceeds DEF StartLease, Idle, rowVars, mapVars
  <1>3. Touches(c, k)
    BY <1>1, <1>2, IdleTouches
  <1>4. Pc(c, k)' \in {"recover", "cancel"} /\ Applied(c)' = Applied(c)
    BY <1>1, <1>2 DEF Proceeds, Idle, Applied
  <1> QED BY <1>1, <1>2, <1>3, <1>4, SticksCancel DEF Idle

LEMMA SettleCancelSticks ==
  ASSUME IInv, faults = 0, NEW c \in Cancels, NEW k \in Tokens, Sticks(target[c]), Settle(c, k)
  PROVE  Touches(c, k) /\ Sticks(target[c])'
  <1>0. Pc(c, k) = "settle"
    BY DEF Settle, Working, Pc
  <1>1. /\ c \in Commands /\ RunOf(c) = target[c] /\ target[c] \in Runs /\ TypeOK
        /\ At(c, k) \in Runners /\ task[c][k].kind # "execute"
    BY <1>0, CancelTask
  <1>2. /\ Still(c, k) /\ Pc(c, k)' = "none"
        /\ \A w \in Runners, q \in Runs : active'[w][q] = active[w][q]
    BY <1>1, FinishProceeds, NoTaskIsTask DEF Settle, Pc
  <1>3. UNCHANGED <<run, target, poll, prompts>> /\ \A d \in Commands : d # c => cmd'[d] = cmd[d]
    BY <1>1 DEF Settle, TypeOK
  <1>4. Touches(c, k)
    BY <1>2, <1>3 DEF Touches
  <1>5. Doomed(target[c])
    BY <1>0 DEF Sticks, Withdrawn
  <1> QED BY <1>1, <1>2, <1>3, <1>4, <1>5, SticksCancel

LEMMA RecoverCancelSticks ==
  ASSUME IInv, faults = 0, NEW c \in Cancels, NEW k \in Tokens, Sticks(target[c]), Recover(c, k)
  PROVE  Touches(c, k) /\ Sticks(target[c])'
  <1>0. Pc(c, k) = "recover"
    BY DEF Recover, Working, Pc
  <1>1. /\ c \in Commands /\ RunOf(c) = target[c] /\ target[c] \in Runs /\ TypeOK
        /\ task[c][k].kind = "recover" /\ run[target[c]] \in Ended
    BY <1>0, CancelTask DEF IInv, IShaped, Shaped
  <1>2. \E recovered \in BOOLEAN : Reports(c, k, RecoverReport(target[c], recovered))
    BY <1>1 DEF Recover, Gone
  <1>3. ASSUME NEW recovered \in BOOLEAN PROVE RecoverReport(target[c], recovered).run = "none"
    <2>1. RecoverReport(target[c], recovered) \in
              {OnlySettle("acknowledged"), OnlySettle("dead_lettered"), OnlySettle(run[target[c]])}
      BY <1>1 DEF RecoverReport, Ended
    <2> QED BY <2>1 DEF OnlySettle
  <1>4. Proceeds(c, k, "settle") /\ Idle
    BY <1>1, <1>2, <1>3, ReportProceeds DEF Recover, Idle, rowVars, mapVars
  <1>5. Touches(c, k)
    BY <1>1, <1>4, IdleTouches
  <1>6. Pc(c, k)' = "settle" /\ Applied(c)' = Applied(c) /\ Doomed(target[c])
    BY <1>1, <1>4, EndedIsDoomed DEF Proceeds, Idle, Applied
  <1> QED BY <1>1, <1>4, <1>5, <1>6, SticksCancel DEF Idle

LEMMA CancelElsewhereSticks ==
  ASSUME IInv, OneRunner, faults = 0, NEW c \in Cancels, NEW k \in Tokens, Sticks(target[c]), CancelElsewhere(c, k)
  PROVE  Touches(c, k) /\ Sticks(target[c])'
  <1>0. Pc(c, k) = "cancel" /\ active[At(c, k)][target[c]] = 0
    BY DEF CancelElsewhere, Working, Pc
  <1>1. c \in Commands /\ RunOf(c) = target[c] /\ target[c] \in Runs /\ TypeOK /\ At(c, k) \in Runners
    BY <1>0, CancelTask
  <1> DEFINE r == target[c]
  <1>2. ASSUME NEW j \in Tokens PROVE Pc(r, j) \notin Boxed \cup {"create"}
    <2>1. r \in Commands /\ Shaped(r, j)
      BY <1>1, Constants DEF IInv, IShaped
    <2>2. ASSUME Pc(r, j) \in Boxed \cup {"create"} PROVE FALSE
      <3>1. Pc(r, j) \in Executing /\ Pc(r, j) # "none"
        BY <2>2 DEF Boxed, Creating, Executing, Timed
      <3>2. task[r][j].kind = "execute" /\ task[r][j].at \in Runners
        BY <2>1, <3>1 DEF Shaped
      <3>3. active[task[r][j].at][r] = j
        BY <1>1, <3>2 DEF Sticks, Entered
      <3> QED BY <1>0, <1>1, <3>2, <3>3, Constants DEF OneRunner, Tokens
    <2> QED BY <2>2
  <1>3. Reports(c, k, CancelReport(r)) /\ Idle
    BY DEF CancelElsewhere, Idle, rowVars, mapVars
  <1>4. CancelReport(r).run = "none" => run[r] \in Ended
    BY DEF CancelReport, IsUnknown, IsCancelled, Report, OnlySettle, Ended
  <1>5. PICK pc \in {"settle", "status"} : Proceeds(c, k, pc) /\ (pc = "settle" => run[r] \in Ended)
    BY <1>1, <1>3, <1>4, ReportProceeds
  <1>6. Touches(c, k)
    BY <1>1, <1>3, <1>5, IdleTouches
  <1>7. /\ Pc(c, k)' = pc /\ Applied(c)' = Applied(c)
        /\ Pc(c, k)' = "settle" => Doomed(r)
    BY <1>1, <1>3, <1>5, EndedIsDoomed DEF Proceeds, Idle, Applied
  <1> QED BY <1>1, <1>2, <1>3, <1>6, <1>7, SticksCancel DEF Idle

LEMMA ReportOfCancelSticks ==
  ASSUME IInv, faults = 0, NEW c \in Cancels, NEW k \in Tokens, Sticks(target[c]), ReportRun(c, k)
  PROVE  Touches(c, k) /\ Sticks(target[c])'
  <1>0. Pc(c, k) = "status"
    BY DEF ReportRun, Working, Pc
  <1>1. /\ c \in Commands /\ RunOf(c) = target[c] /\ target[c] \in Runs /\ TypeOK
        /\ At(c, k) \in Runners /\ task[c][k].kind # "execute"
        /\ task[c][k].kind = "recover" => run[target[c]] \in Ended
    BY <1>0, CancelTask
  <1>r. PICK r \in Runs : r = target[c]
    BY <1>1
  <1> DEFINE status == task[c][k].report.run
  <1>2. UNCHANGED <<cmd, target, poll, prompts>>
    BY DEF ReportRun
  <1>3. CASE CanMove(c, k, status)
    <2>1. Move(c, status) /\ Step(c, k, "settle") /\ UNCHANGED mapVars
      BY <1>3 DEF ReportRun
    <2>2. Proceeds(c, k, "settle") /\ active' = active
      BY <1>1, <2>1, StepProceeds DEF mapVars
    <2>3. run'[r] = status /\ \A q \in Runs : q # r => run'[q] = run[q]
      BY <1>1, <1>r, <2>1 DEF Move, TypeOK
    <2>4. status \in Ended
      <3>1. /\ task[c][k].report \in {IsUnknown, IsCancelled, GoesBack}
            /\ task[c][k].report = GoesBack => task[c][k].kind = "recover"
        BY <1>0, <1>1 DEF IInv, IShaped, Shaped
      <3>2. status \in {"unknown", "cancelled", "queued"}
        BY <3>1 DEF IsUnknown, IsCancelled, GoesBack, Report
      <3>3. status = "queued" => run[r] \in Ended
        BY <1>1, <1>r, <3>1 DEF IsUnknown, IsCancelled, GoesBack, Report
      <3>4. run[r] \in Ended => "queued" \notin Allowed[run[r]]
        BY DEF Ended, Allowed
      <3> QED BY <1>1, <1>r, <1>3, <3>2, <3>3, <3>4 DEF CanMove, Ended
    <2>5. /\ \A d \in Commands, j \in Tokens : d # c \/ j # k => task'[d][j] = task[d][j] /\ Pc(d, j)' = Pc(d, j)
          /\ Pc(c, k)' = "settle" /\ Still(c, k)
      BY <2>2 DEF Proceeds, Still, Pc
    <2>6. Touches(c, k)
      BY <1>1, <1>r, <1>2, <2>2, <2>3, <2>5 DEF Touches
    <2>7. r \in Commands /\ r # c /\ \A j \in Tokens : task'[r][j] = task[r][j] /\ Pc(r, j)' = Pc(r, j)
      BY <1>1, <1>r, <2>5, Constants
    <2>8. Entered(r)'
      <3>1. \A w \in Runners : active[w][r] # 0 => active[w][r] \in Tokens
        BY <1>1 DEF TypeOK
      <3> QED BY <1>r, <2>2, <2>7, <3>1 DEF Sticks, Entered
    <2>9. Course(r)' /\ Halted(r)' /\ Doomed(r)'
      <3>1. \A j \in Tokens : Pc(r, j)' # "start"
        BY <1>0, <1>1, <1>r, <2>7 DEF Sticks, Withdrawn, Boxed
      <3> QED BY <2>3, <2>4, <3>1 DEF Course, Over, Halted, Doomed
    <2>10. ASSUME NEW d \in Cancels, target[d] = r PROVE Withdrawn(d)'
      <3>1. \A j \in Tokens : Pc(d, j)' = "status" => Pc(d, j) = "status"
        BY <2>5, Constants
      <3>2. Withdrawn(d) /\ target' = target
        BY <1>r, <1>2, <2>10 DEF Sticks
      <3> QED BY <2>7, <2>9, <2>10, <3>1, <3>2 DEF Withdrawn
    <2>11. target'[c] = r /\ target' = target
      BY <1>r, <1>2
    <2>12. Sticks(r)'
      BY <2>8, <2>9, <2>10, <2>11 DEF Sticks
    <2> QED BY <2>6, <2>11, <2>12
  <1>4. CASE ~CanMove(c, k, status)
    <2>1. Finish(c, k) /\ run' = run
      BY <1>4 DEF ReportRun
    <2>2. /\ Still(c, k) /\ Pc(c, k)' = "none"
          /\ \A w \in Runners, q \in Runs : active'[w][q] = active[w][q]
      BY <1>1, <2>1, FinishProceeds, NoTaskIsTask DEF Pc
    <2>3. Touches(c, k)
      BY <1>1, <1>2, <2>1, <2>2 DEF Touches
    <2>4. Applied(c)' = Applied(c)
      BY <1>2 DEF Applied
    <2> QED BY <1>1, <1>r, <1>2, <2>1, <2>2, <2>3, <2>4, SticksCancel
  <1> QED BY <1>3, <1>4

\* The execution that a cancel task finds is told to stop, and the command is answered.
LEMMA CancelHereFacts ==
  ASSUME IInv, NEW c \in Cancels, NEW k \in Tokens, CancelHere(c, k), At(c, k) \in Runners
  PROVE  \E v \in Tokens :
           /\ v = active[At(c, k)][target[c]]
           /\ Pc(c, k)' = "settle"
           /\ task'[target[c]][v] = [task[target[c]][v] EXCEPT !.cause = Raise(@, "abort")]
           /\ \A d \in Commands, j \in Tokens :
                 ~(d = c /\ j = k) /\ ~(d = target[c] /\ j = v) => task'[d][j] = task[d][j]
  <1>0. /\ c \in Commands /\ target[c] \in Runs /\ target[c] \in Commands /\ target[c] # c
        /\ task \in Table /\ task[c][k] \in Tasks
    BY Constants, TaskFacts DEF IInv, TypeOK
  <1>a. PICK v \in Tokens : v = active[At(c, k)][target[c]] /\ \E aborted :
           /\ aborted = [task EXCEPT ![target[c]][v].cause = Raise(@, "abort")]
           /\ task' = [aborted EXCEPT ![c][k] = Reporting(@, OnlySettle("cancelled"))]
    <2>1. active[At(c, k)][target[c]] \in {0} \cup Tokens
      BY <1>0 DEF IInv, TypeOK
    <2> QED BY <2>1, Zenon DEF CancelHere
  <1>1. PICK aborted :
           /\ aborted = [task EXCEPT ![target[c]][v].cause = Raise(@, "abort")]
           /\ task' = [aborted EXCEPT ![c][k] = Reporting(@, OnlySettle("cancelled"))]
    BY <1>a
  <1> DEFINE u == [task[target[c]][v] EXCEPT !.cause = Raise(@, "abort")]
  <1>2. aborted = [task EXCEPT ![target[c]][v] = u]
    BY <1>1
  <1> HIDE DEF u
  <1>3. /\ \A d \in Commands, j \in Tokens : aborted[d][j] = IF d = target[c] /\ j = v THEN u ELSE task[d][j]
        /\ aborted[c][k] = task[c][k]
        /\ \A d \in Commands : DOMAIN aborted[d] = Tokens
        /\ DOMAIN aborted = Commands
    BY <1>0, <1>2 DEF Table
  <1> DEFINE t == Reporting(task[c][k], OnlySettle("cancelled"))
  <1>4. task' = [aborted EXCEPT ![c][k] = t]
    BY <1>1, <1>3, Zenon
  <1>5. t.pc = "settle"
    BY <1>0 DEF Reporting, OnlySettle, Tasks
  <1> HIDE DEF t
  <1>6. \A d \in Commands, j \in Tokens : task'[d][j] = IF d = c /\ j = k THEN t ELSE aborted[d][j]
    BY <1>0, <1>3, <1>4
  <1>7. task'[c][k] = t /\ task'[target[c]][v] = u
    BY <1>0, <1>3, <1>6
  <1>8. Pc(c, k)' = "settle"
    BY <1>5, <1>7 DEF Pc
  <1>9. \A d \in Commands, j \in Tokens :
           ~(d = c /\ j = k) /\ ~(d = target[c] /\ j = v) => task'[d][j] = task[d][j]
    BY <1>3, <1>6
  <1> QED BY <1>a, <1>7, <1>8, <1>9 DEF u

LEMMA CancelHereSticks ==
  ASSUME IInv, faults = 0, NEW c \in Cancels, NEW k \in Tokens, \A q \in Runs : Sticks(q), CancelHere(c, k)
  PROVE  \A q \in Runs : Sticks(q)'
  <1>0. Pc(c, k) = "cancel"
    BY DEF CancelHere, Working, Pc
  <1>1. c \in Commands /\ target[c] \in Runs /\ TypeOK /\ At(c, k) \in Runners
    BY <1>0, CancelTask
  <1>2. PICK r \in Runs : r = target[c]
    BY <1>1
  <1>3. PICK v \in Tokens :
           /\ v = active[At(c, k)][r]
           /\ Pc(c, k)' = "settle"
           /\ task'[r][v] = [task[r][v] EXCEPT !.cause = Raise(@, "abort")]
           /\ \A d \in Commands, j \in Tokens : ~(d = c /\ j = k) /\ ~(d = r /\ j = v) => task'[d][j] = task[d][j]
    BY <1>1, <1>2, CancelHereFacts
  <1>4. r \in Commands /\ r # c /\ task[r][v] \in Tasks /\ v # 0 /\ Sticks(r)
    BY <1>2, Constants, TaskFacts DEF IInv, Tokens
  <1>5. /\ task'[r][v].pc = task[r][v].pc /\ task'[r][v].at = task[r][v].at /\ task'[r][v].kind = task[r][v].kind
        /\ task'[r][v].error = task[r][v].error /\ task'[r][v].report = task[r][v].report
        /\ Aborted(r, v)'
        /\ task'[r][v].cause = "lost" => task[r][v].cause = "lost"
    <2>1. task[r][v].cause \in DOMAIN Rank /\ "abort" \in DOMAIN Rank
      BY <1>4 DEF Tasks, Rank
    <2>2. /\ Raise(task[r][v].cause, "abort") \in {task[r][v].cause, "abort"}
          /\ Raise(task[r][v].cause, "abort") # "none"
      BY <2>1 DEF Raise, Rank
    <2> DEFINE raised == Raise(task[r][v].cause, "abort")
    <2>3. task'[r][v] = [task[r][v] EXCEPT !.cause = raised]
      BY <1>3
    <2> HIDE DEF raised
    <2>4. task'[r][v].cause = raised
      BY <1>4, <2>3 DEF Tasks
    <2> QED BY <1>4, <2>2, <2>3, <2>4 DEF Tasks, Aborted, raised
  <1>6. UNCHANGED <<run, cmd, target, poll, active, prompts>>
    BY DEF CancelHere, rowVars, mapVars
  <1>7. task[r][v].kind = "execute" /\ Pc(r, v) # "none"
    BY <1>1, <1>3, <1>4 DEF Sticks, Entered
  <1>8. \A j \in Tokens : j # v => Pc(r, j) = "none" /\ task'[r][j] = task[r][j]
    BY <1>3, <1>4, <1>7, Alone
  <1>9. /\ \A j \in Tokens : /\ Pc(r, j)' = Pc(r, j) /\ task'[r][j].kind = task[r][j].kind
                             /\ task'[r][j].at = task[r][j].at
        /\ Over(r)' = Over(r)
    BY <1>5, <1>6, <1>8 DEF Pc, Over
  <1>10. Entered(r)'
    <2>1. \A w \in Runners : active[w][r] # 0 => active[w][r] \in Tokens
      BY <1>1 DEF TypeOK
    <2> QED BY <1>4, <1>6, <1>9, <2>1 DEF Sticks, Entered
  <1>11. Course(r)'
    <2>1. CASE Over(r)
      BY <1>9, <2>1 DEF Course
    <2>2. CASE ~Over(r)
      <3>1. cmd[r].status = "leased" => Held(r)'
        <4>1. Holds(r, v)
          BY <1>7, Alone
        <4> QED BY <1>6, <1>7, <1>9, <4>1 DEF Held, Pc, Holds
      <3>2. \A j \in Tokens : /\ task'[r][j].cause = "lost" => task[r][j].cause = "lost"
                              /\ task'[r][j].error = task[r][j].error /\ task'[r][j].report = task[r][j].report
        BY <1>5, <1>8
      <3> QED BY <1>4, <1>6, <1>9, <2>2, <3>1, <3>2 DEF Sticks, Course
    <2> QED BY <2>1, <2>2
  <1>12. Halted(r)'
    BY <1>5, <1>8, <1>9 DEF Halted
  <1>13. Doomed(r)'
    <2>1. CASE Over(r)
      BY <1>6, <1>12, <2>1 DEF Doomed, Over
    <2>2. CASE ~Over(r)
      <3>1. Pc(r, v) \in Steps
        BY <1>4 DEF Tasks, Pc
      <3>2. Pc(r, v) \notin {"prompt", "tidy", "complete", "settle", "leave"}
        BY <1>4, <2>2 DEF Sticks, Course
      <3>3. Pc(r, v) \notin {"leased", "recover", "cancel", "run"}
        BY <1>4, <1>7 DEF IInv, IShaped, Shaped
      <3>4. Pc(r, v) \in {"admit", "failing", "status"} \cup Early
        BY <1>7, <3>1, <3>2, <3>3 DEF Steps, Outside, Timed, Early, Creating, Ready
      <3>5. Last(r, v)'
        BY <1>5, <1>9, <3>4 DEF Last
      <3> QED BY <1>12, <3>5 DEF Doomed
    <2> QED BY <2>1, <2>2
  <1>14. ASSUME NEW d \in Cancels, target[d] = r PROVE Withdrawn(d)'
    <2>1. \A j \in Tokens : Pc(d, j)' = "status" => Pc(d, j) = "status"
      BY <1>3, <1>4, Constants DEF Pc
    <2> QED BY <1>4, <1>6, <1>9, <1>13, <1>14, <2>1 DEF Sticks, Withdrawn
  <1>15. Sticks(r)'
    BY <1>6, <1>10, <1>11, <1>12, <1>14 DEF Sticks
  <1>16. ASSUME NEW q \in Runs, q # r PROVE Sticks(q)'
    <2>1. q \in Commands /\ q # c
      BY Constants
    <2>2. \A d \in Cancels : target[d] = q => d \in Commands /\ d # c /\ d # r
      BY <1>2, <1>16, Constants
    <2>3. (\A j \in Tokens : task'[q][j] = task[q][j])
          /\ \A d \in Cancels : target[d] = q => cmd'[d] = cmd[d] /\ \A j \in Tokens : task'[d][j] = task[d][j]
      BY <1>3, <1>6, <1>16, <2>1, <2>2
    <2> QED BY <1>6, <2>3, SticksApart
  <1> QED BY <1>15, <1>16

\* Requests, claims and leases that run out leave the work as it is.
LEMMA SticksRows ==
  ASSUME IInv, NEW r \in Runs, Sticks(r), UNCHANGED <<task, active, target, prompts>>, run'[r] = run[r], Course(r)',
         \A c \in Cancels : target[c] = r => (Applied(c)' => Applied(c))
  PROVE  Sticks(r)'
  <1>1. \A c \in Commands, k \in Tokens : task'[c][k] = task[c][k] /\ Pc(c, k)' = Pc(c, k)
    BY DEF Pc
  <1>2. \A w \in Runners : active[w][r] # 0 => active[w][r] \in Tokens
    BY DEF IInv, TypeOK
  <1>3. \A k \in Tokens : Pc(r, k) # "none" => task[r][k].at \in Runners
    BY Constants DEF IInv, IShaped, Shaped
  <1> QED BY <1>1, <1>2, <1>3, Constants, SticksSame

\* The polls that concern a run are as they were.
LEMMA CoursePolls ==
  ASSUME IInv, NEW r \in Runs, Course(r), run'[r] = run[r], UNCHANGED prompts, cmd'[r] = cmd[r],
         \A k \in Tokens : task'[r][k] = task[r][k],
         \A w \in Runners : poll'[w] = poll[w] \/ (~(poll[w].step = "claimed" /\ poll[w].cmd = r)
                                                   /\ ~(poll'[w].step = "claimed" /\ poll'[w].cmd = r))
  PROVE  Course(r)'
  <1>1. Over(r)' = Over(r) /\ \A k \in Tokens : Pc(r, k)' = Pc(r, k)
    BY DEF Over, Pc
  <1>2. cmd[r].status = "leased" /\ Held(r) => Held(r)'
    <2>1. cmd[r].status = "leased" => cmd[r].attempts \in Tokens
      BY Constants DEF IInv, IRows, Rows
    <2>2. CASE task[r][cmd[r].attempts].pc # "none"
      BY <2>1, <2>2 DEF Held
    <2>3. CASE \E w \in Runners : poll[w].step = "claimed" /\ poll[w].cmd = r /\ poll[w].token = cmd[r].attempts
      BY <2>3 DEF Held
    <2> QED BY <2>2, <2>3 DEF Held
  <1> QED BY <1>1, <1>2 DEF Course

LEMMA SendMessageSticks ==
  ASSUME IInv, NEW c \in Runs, \A r \in Runs : Sticks(r), SendMessage(c), NEW r \in Runs
  PROVE  Sticks(r)'
  <1>0. c \in Commands /\ c \notin Cancels /\ cmd[c].status = "none" /\ run[c] = "none"
    BY Constants DEF SendMessage, IInv, IRows, Rows, Known
  <1>1. UNCHANGED <<task, active, target, poll, prompts>>
    BY DEF SendMessage, mapVars
  <1>2. /\ run'[c] = "queued" /\ \A q \in Runs : q # c => run'[q] = run[q]
        /\ cmd'[c].status = "accepted" /\ \A d \in Commands : d # c => cmd'[d] = cmd[d]
    BY <1>0 DEF SendMessage, IInv, TypeOK
  <1>3. CASE r # c
    <2>1. r \in Commands /\ cmd'[r] = cmd[r] /\ \A d \in Cancels : cmd'[d] = cmd[d]
      BY <1>0, <1>2, <1>3, Constants
    <2> QED BY <1>1, <1>2, <1>3, <2>1, SticksApart
  <1>4. CASE r = c
    <2>1. /\ \A k \in Tokens : Pc(c, k) = "none"
          /\ \A w \in Runners : ~(poll[w].step = "claimed" /\ poll[w].cmd = c)
      BY <1>0, NeverClaimed
    <2>2. \A d \in Commands, k \in Tokens : Pc(d, k)' = Pc(d, k)
      BY <1>1 DEF Pc
    <2>3. Course(c)'
      <3>1. \A w \in Runners : ~(poll'[w].step = "claimed" /\ poll'[w].cmd = c)
        BY <1>1, <2>1
      <3>2. \A k \in Tokens : Pc(c, k)' = "none"
        BY <2>1, <2>2, <1>0
      <3>3. run'[c] = "queued" /\ cmd'[c].status = "accepted"
        BY <1>2
      <3> QED BY <3>1, <3>2, <3>3 DEF Course, Creating
    <2>4. Entered(c)'
      <3>1. \A w \in Runners : active[w][c] # 0 => active[w][c] \in Tokens
        BY DEF IInv, TypeOK
      <3> QED BY <1>1, <1>4, <2>2, <3>1, <1>0 DEF Sticks, Entered
    <2>5. run'[c] \notin Ended /\ run[c] \notin Ended
      BY <1>0, <1>2 DEF Ended
    <2>6. Doomed(c) => Doomed(c)'
      <3>1. \A k \in Tokens : ~Last(c, k)
        BY <2>1 DEF Last, Early, Creating, Ready
      <3> QED BY <1>1, <2>5, <3>1 DEF Doomed
    <2>7. ASSUME NEW d \in Cancels, target[d] = c PROVE Withdrawn(d)'
      <3>1. d \in Commands /\ Applied(d)' = Applied(d) /\ target' = target
        BY <1>0, <1>1, <1>2, Constants DEF Applied
      <3>2. Withdrawn(d)
        BY <2>7 DEF Sticks
      <3> QED BY <1>0, <2>2, <2>6, <2>7, <3>1, <3>2 DEF Withdrawn
    <2> QED BY <1>1, <1>4, <2>3, <2>4, <2>5, <2>7 DEF Sticks
  <1> QED BY <1>3, <1>4

LEMMA RequestSticks ==
  ASSUME IInv, NEW r \in Runs, Sticks(r),
         (\E c \in Cancels : AskCancel(c) \/ RequestCancel(c)) \/ \E c \in Commands : WriteSession(c)
  PROVE  Sticks(r)'
  <1>1. UNCHANGED <<run, task, active, target, poll, prompts>>
    BY DEF AskCancel, RequestCancel, WriteSession, rowVars, mapVars
  <1>2. r \in Commands /\ \A c \in Cancels : c \in Commands /\ r # c
    BY Constants
  <1>3. cmd'[r] = cmd[r] /\ \A d \in Cancels : Applied(d)' => Applied(d)
    <2>1. CASE cmd' = cmd
      BY <2>1 DEF Applied
    <2>2. ASSUME NEW c \in Cancels, RequestCancel(c) PROVE cmd'[r] = cmd[r] /\ \A d \in Cancels : Applied(d)' => Applied(d)
      BY <1>2, <2>2, AcceptedIsTyped DEF RequestCancel, Applied, IInv
    <2> QED BY <2>1, <2>2 DEF AskCancel, WriteSession, rowVars
  <1>4. Course(r)'
    BY <1>1, <1>2, <1>3, CourseSame DEF Sticks, IInv, IRows, Rows
  <1> QED BY <1>1, <1>3, <1>4, SticksRows

LEMMA ExpireSticks ==
  ASSUME IInv, NEW r \in Runs, Sticks(r), NEW c \in Commands, Expire(c)
  PROVE  Sticks(r)'
  <1>1. UNCHANGED <<run, task, active, target, poll, prompts>>
    BY DEF Expire, mapVars
  <1>2. \A d \in Commands : cmd'[d].status = cmd[d].status /\ cmd'[d].attempts = cmd[d].attempts
    BY DEF Expire, IInv, TypeOK
  <1>3. r \in Commands /\ \A d \in Cancels : Applied(d)' = Applied(d)
    BY <1>2, Constants DEF Applied
  <1>4. Course(r)'
    BY <1>1, <1>2, <1>3, CourseSame DEF Sticks, IInv, IRows, Rows
  <1> QED BY <1>1, <1>3, <1>4, SticksRows

LEMMA PollSticks ==
  ASSUME IInv, NEW r \in Runs, Sticks(r), NEW w \in Runners, StartClaim(w) \/ NothingToClaim(w)
  PROVE  Sticks(r)'
  <1>1. UNCHANGED <<run, cmd, task, active, target, prompts>>
    BY DEF StartClaim, NothingToClaim, rowVars, mapVars
  <1>2. \A v \in Runners : v # w => poll'[v] = poll[v]
    BY DEF StartClaim, NothingToClaim, IInv, TypeOK
  <1>3. poll[w].step # "claimed" /\ poll'[w].step # "claimed"
    BY DEF StartClaim, NothingToClaim, IInv, TypeOK, NoPoll
  <1>4. Course(r)'
    BY <1>1, <1>2, <1>3, CoursePolls DEF Sticks
  <1>5. \A d \in Cancels : Applied(d)' = Applied(d)
    BY <1>1 DEF Applied
  <1> QED BY <1>1, <1>4, <1>5, SticksRows

\* A claim finds a run that was not prompted in the queue, and not worked on.
LEMMA ClaimRowSticks ==
  ASSUME IInv, faults = 0, NEW r \in Runs, Sticks(r), NEW w \in Runners, NEW c \in Commands, ClaimRow(w, c)
  PROVE  Sticks(r)'
  <1>1. UNCHANGED <<run, task, active, target, prompts>>
    BY DEF ClaimRow, mapVars
  <1>2. /\ cmd'[c].status = "leased" /\ cmd'[c].attempts = cmd[c].attempts + 1
        /\ \A d \in Commands : d # c => cmd'[d] = cmd[d]
    BY DEF ClaimRow, IInv, TypeOK
  <1>3. /\ poll[w].step = "claiming" /\ \A v \in Runners : v # w => poll'[v] = poll[v]
        /\ poll'[w] = [step |-> "claimed", cmd |-> c, token |-> cmd[c].attempts + 1,
                       reclaimed |-> cmd[c].status = "leased"]
    BY DEF ClaimRow, IInv, TypeOK
  <1>4. poll'[w].step = "claimed" /\ poll'[w].cmd = c /\ poll'[w].token = cmd'[c].attempts
        /\ poll'[w].reclaimed = (cmd[c].status = "leased")
    BY <1>2, <1>3
  <1>5. r \in Commands /\ \A d \in Cancels : Applied(d)' => Applied(d)
    BY <1>2, Constants DEF Applied
  <1>6. CASE r # c
    <2>1. Course(r)'
      BY <1>1, <1>2, <1>3, <1>4, <1>5, <1>6, CoursePolls DEF Sticks
    <2> QED BY <1>1, <1>5, <2>1, SticksRows
  <1>7. CASE r = c
    <2>1. CASE Over(r)
      <3>1. Course(r)'
        BY <1>1, <2>1 DEF Course, Over
      <3> QED BY <1>1, <1>5, <3>1, SticksRows
    <2>2. CASE ~Over(r)
      <3>1. Course(r) /\ WellKept(r) /\ r \in Commands
        BY <2>2, <1>5, Calm DEF Sticks
      <3>2. cmd[r].status \in {"accepted", "queued"}
        <4>1. ASSUME cmd[r].status = "leased", ~cmd[r].live PROVE FALSE
          <5>1. Held(r) /\ cmd[r].attempts \in Tokens
            BY <2>2, <3>1, <4>1 DEF Course, IInv, IRows, Rows
          <5> QED BY <3>1, <4>1, <5>1 DEF Held, WellKept, Kept, Holds, Live, Pc
        <4> QED BY <1>7, <4>1 DEF ClaimRow, Claimable
      <3>3. run[r] = "queued"
        BY <2>2, <3>1, <3>2 DEF Course
      <3>4. /\ \A k \in Tokens : Pc(r, k) = "none" /\ Pc(r, k)' = "none"
            /\ \A v \in Runners : ~(poll[v].step = "claimed" /\ poll[v].cmd = r)
        BY <1>1, <3>1, <3>2 DEF WellKept, Kept, Holds, Live, Pc
      <3>5. \A v \in Runners : poll'[v].step = "claimed" /\ poll'[v].cmd = r => ~poll'[v].reclaimed
        BY <1>3, <1>4, <1>7, <3>2, <3>4
      <3>6. Held(r)'
        BY <1>4, <1>7 DEF Held
      <3>7. cmd'[r].status = "leased" /\ run'[r] = "queued"
        BY <1>1, <1>2, <1>7, <3>3
      <3>8. Course(r)'
        BY <3>4, <3>5, <3>6, <3>7 DEF Course, Creating
      <3> QED BY <1>1, <1>5, <3>8, SticksRows
    <2> QED BY <2>1, <2>2
  <1> QED BY <1>6, <1>7

\* A lease becomes a task, which has not done anything.
LEMMA TrackSticks ==
  ASSUME IInv, faults = 0, NEW r \in Runs, Sticks(r), NEW w \in Runners, Track(w)
  PROVE  Sticks(r)'
  <1>1. poll[w].step = "claimed" /\ Polled(w)
    BY DEF Track, IInv, IPolled
  <1>2. PICK c \in Commands, k \in Tokens : c = poll[w].cmd /\ k = poll[w].token
    BY <1>1, ClaimedIsTyped DEF IInv
  <1> DEFINE kind == IF poll[w].reclaimed THEN "recover" ELSE IF c \in Cancels THEN "cancel" ELSE "run"
             t == [NoTask EXCEPT !.pc = "leased", !.at = w, !.kind = kind]
  <1>3. t.pc = "leased" /\ t.at = w /\ t.kind = kind /\ t.cause = "none"
    BY DEF NoTask
  <1>4. task' = [task EXCEPT ![c][k] = t]
    BY <1>2 DEF Track
  <1> HIDE DEF t
  <1>5. Still(c, k) /\ task'[c][k] = t
    BY <1>4, PutStill, TaskFacts DEF IInv
  <1>6. UNCHANGED <<run, cmd, active, target, prompts>>
    BY DEF Track, rowVars
  <1>7. poll'[w].step # "claimed" /\ \A v \in Runners : v # w => poll'[v] = poll[v]
    BY DEF Track, IInv, TypeOK, NoPoll
  <1>8. Pc(c, k) = "none" /\ Pc(c, k)' = "leased"
    BY <1>1, <1>2, <1>3, <1>5 DEF Polled, Pc
  <1>9. r \in Commands /\ \A d \in Cancels : d \in Commands /\ d # r
    BY Constants
  <1>10. \A d \in Commands, j \in Tokens : d # c \/ j # k => task'[d][j] = task[d][j] /\ Pc(d, j)' = Pc(d, j)
    BY <1>5 DEF Still, Pc
  <1>11. \A d \in Cancels : Applied(d)' = Applied(d)
    BY <1>6 DEF Applied
  <1>12. CASE r # c
    <2>1. \A j \in Tokens : task'[r][j] = task[r][j]
      BY <1>9, <1>10, <1>12
    <2>2. Course(r)'
      BY <1>2, <1>6, <1>7, <1>12, <2>1, CoursePolls DEF Sticks
    <2>3. \A v \in Runners : active[v][r] # 0 => active[v][r] \in Tokens
      BY DEF IInv, TypeOK
    <2>4. \A j \in Tokens : Pc(r, j) # "none" => task[r][j].at \in Runners
      BY <1>9 DEF IInv, IShaped, Shaped
    <2>5. \A d \in Cancels, j \in Tokens : Pc(d, j)' \in {"settle", "status"} => Pc(d, j)' = Pc(d, j)
      BY <1>8, <1>9, <1>10
    <2> QED BY <1>6, <1>11, <2>1, <2>2, <2>3, <2>4, <2>5, SticksSame
  <1>13. CASE r = c
    <2>1. WellKept(r) /\ Holds(r, k)
      BY <1>1, <1>2, <1>13, Calm DEF WellKept, Kept
    <2>2. \A j \in Tokens : Pc(r, j) = "none"
      BY <1>8, <1>13, <2>1 DEF WellKept, Kept, Holds
    <2>3. \A j \in Tokens : (j # k => Pc(r, j)' = "none") /\ Pc(r, j)' \in {"none", "leased"}
      BY <1>8, <1>9, <1>10, <1>13, <2>2
    <2>4. /\ kind \notin {"execute"}
          /\ \A j \in Tokens : task[r][j].kind # "execute"
          /\ \A v \in Runners : active[v][r] = 0
      <3>1. \A j \in Tokens : task[r][j].kind # "execute"
        BY <2>2 DEF Sticks, Entered
      <3>2. \A v \in Runners : active[v][r] # 0 => active[v][r] \in Tokens
        BY DEF IInv, TypeOK
      <3> QED BY <3>1, <3>2 DEF Sticks, Entered
    <2>5. \A j \in Tokens : task'[r][j].kind # "execute"
      BY <1>3, <1>5, <1>9, <1>10, <1>13, <2>4
    <2>6. Entered(r)'
      BY <1>6, <2>4, <2>5 DEF Entered
    <2>7. Course(r)'
      <3>1. CASE Over(r)
        BY <1>6, <3>1 DEF Course, Over
      <3>2. CASE ~Over(r)
        <4>1. run[r] = "queued" /\ ~poll[w].reclaimed
          BY <1>1, <1>2, <1>13, <3>2 DEF Sticks, Course
        <4>2. task'[r][k].kind # "recover" /\ task'[r][k].cause # "lost"
          BY <1>3, <1>5, <1>13, <4>1
        <4>3. Held(r)' /\ cmd'[r].status = "leased"
          BY <1>6, <1>8, <1>13, <2>1 DEF Held, Holds, Live, Pc
        <4>4. \A v \in Runners : poll'[v].step = "claimed" /\ poll'[v].cmd = r => ~poll'[v].reclaimed
          BY <1>7, <3>2 DEF Sticks, Course
        <4> QED BY <1>6, <2>3, <4>1, <4>2, <4>3, <4>4 DEF Course, Creating
      <3> QED BY <3>1, <3>2
    <2>8. Halted(r)'
      BY <2>3 DEF Halted
    <2>9. Doomed(r) => Doomed(r)'
      <3>1. \A j \in Tokens : ~Last(r, j)
        BY <2>2 DEF Last, Early, Creating, Ready
      <3> QED BY <1>6, <2>8, <3>1 DEF Doomed
    <2>10. ASSUME NEW d \in Cancels, target[d] = r PROVE Withdrawn(d)'
      <3>1. \A j \in Tokens : Pc(d, j)' = Pc(d, j)
        BY <1>9, <1>10, <1>13
      <3>2. \A j \in Tokens : Pc(r, j)' \notin Boxed \cup {"create"}
        BY <2>3 DEF Boxed, Creating
      <3>3. Withdrawn(d)
        BY <2>10 DEF Sticks
      <3> QED BY <1>6, <1>11, <2>9, <2>10, <3>1, <3>2, <3>3 DEF Withdrawn
    <2> QED BY <1>6, <2>6, <2>7, <2>8, <2>10 DEF Sticks
  <1> QED BY <1>12, <1>13

-----------------------------------------------------------------------------
(* The steps together. *)

LEMMA RunStepSticks ==
  ASSUME IInv, OneRunner, faults = 0, faults' = 0, NEW r \in Runs, NEW k \in Tokens, Sticks(r), RunStep(r, k)
  PROVE  Touches(r, k) /\ Sticks(r)'
  <1>1. CASE Refuse(r, k) \/ Begin(r, k) \/ Admit(r, k) \/ CheckCancelled(r, k) \/ CreateBox(r, k)
    BY <1>1, RefuseSticks, BeginSticks, AdmitSticks, CheckCancelledSticks, CreateBoxSticks
  <1>2. CASE Boot(r, k) \/ BootFails(r, k) \/ Bind(r, k) \/ Limit(r, k) \/ Undo(r, k)
    BY <1>2, BoxSticks
  <1>3. CASE Prepare(r, k) \/ PrepareIsRefused(r, k) \/ Enter(r, k) \/ StartPrompt(r, k)
    BY <1>3, PrepareSticks, EnterSticks, StartPromptSticks DEF PrepareIsRefused, Fault
  <1>4. CASE PromptReturns(r, k) \/ PromptRejects(r, k) \/ Tidy(r, k)
    BY <1>4, PromptSticks
  <1>5. CASE Complete(r, k) \/ HandleFailure(r, k) \/ Leave(r, k)
    BY <1>5, EndOfRunSticks, HandleFailureSticks
  <1> QED BY <1>1, <1>2, <1>3, <1>4, <1>5 DEF RunStep

LEMMA LeaseStepSticks ==
  ASSUME IInv, OneRunner, faults = 0, NEW c \in Commands, NEW k \in Tokens, \A q \in Runs : Sticks(q), LeaseStep(c, k)
  PROVE  \A q \in Runs : Sticks(q)'
  <1>1. CASE c \in Cancels /\ CancelHere(c, k)
    BY <1>1, CancelHereSticks
  <1>2. CASE c \in Cancels /\ ~CancelHere(c, k)
    <2>1. c \notin Runs /\ RunOf(c) = target[c] /\ target[c] \in Runs
      BY <1>2, Constants DEF IInv, TypeOK
    <2>2. Touches(c, k) /\ Sticks(target[c])'
      BY <1>2, <2>1, StartCancelSticks, ReportOfCancelSticks, SettleCancelSticks, RecoverCancelSticks, CancelElsewhereSticks
         DEF LeaseStep
    <2>3. target' = target
      BY <2>2 DEF Touches
    <2> QED BY <2>1, <2>2, <2>3, SticksUntouched
  <1>3. CASE c \in Runs
    <2>1. c \notin Cancels /\ RunOf(c) = c
      BY <1>3, Constants
    <2>2. Touches(c, k) /\ Sticks(c)'
      BY <1>3, <2>1, StartLeaseSticks, ReportOfRunSticks, EndOfRunSticks, RecoverRunSticks DEF LeaseStep
    <2> QED BY <2>1, <2>2, SticksUntouched
  <1> QED BY <1>1, <1>2, <1>3 DEF Commands

LEMMA DisturbedSticks ==
  ASSUME IInv, faults = 0, faults' = 0, NEW c \in Commands, NEW k \in Tokens, \A q \in Runs : Sticks(q), Disturb(c, k)
  PROVE  \A q \in Runs : Sticks(q)'
  <1>1. c \in Runs /\ (Renew(c, k) \/ Timeout(c, k) \/ EventFails(c, k) \/ AskApproval(c, k) \/ ResumeApproved(c, k))
    BY DEF Disturb, CallFails, Throw, Fault
  <1>2. RunOf(c) = c
    BY <1>1, Constants
  <1>3. Touches(c, k) /\ Sticks(c)'
    BY <1>1, DisturbSticks, ApprovalSticks
  <1> QED BY <1>2, <1>3, SticksUntouched

\* Faults are counted, never forgotten.
LEMMA FaultsGrow ==
  ASSUME IInv, [Next]_vars
  PROVE  faults' \in {faults, faults + 1}
  <1> USE DEF Fault, MayFail
  <1>1. ASSUME NEW c \in Commands, WebStep(c) \/ Expire(c) PROVE faults' \in {faults, faults + 1}
    BY <1>1 DEF WebStep, SendMessage, AskCancel, RequestCancel, WriteSession, Expire
  <1>2. ASSUME NEW w \in Runners, PollStep(w) \/ BeginDrain(w) \/ Exit(w) \/ Crash(w) PROVE faults' \in {faults, faults + 1}
    BY <1>2 DEF PollStep, StartClaim, NothingToClaim, Track, GiveBack, ClaimRow, BeginDrain, Exit, Crash
  <1>3. ASSUME NEW c \in Commands, NEW k \in Tokens, LeaseStep(c, k) PROVE faults' \in {faults, faults + 1}
    BY <1>3 DEF LeaseStep, StartLease, ReportRun, Settle, Recover, CancelHere, CancelElsewhere
  <1>4. ASSUME NEW r \in Runs, NEW k \in Tokens, RunStep(r, k) PROVE faults' \in {faults, faults + 1}
    <2>1. CASE Refuse(r, k) \/ Begin(r, k) \/ Admit(r, k) \/ CheckCancelled(r, k) \/ CreateBox(r, k) \/ Enter(r, k)
               \/ StartPrompt(r, k) \/ Prepare(r, k) \/ PrepareIsRefused(r, k)
      BY <2>1 DEF Refuse, Begin, Admit, CheckCancelled, CreateBox, Enter, StartPrompt, Prepare, PrepareIsRefused
    <2>2. CASE Boot(r, k) \/ BootFails(r, k) \/ Bind(r, k) \/ Limit(r, k) \/ Undo(r, k)
      BY <2>2 DEF Boot, BootFails, Bind, Limit, Undo
    <2>3. CASE PromptReturns(r, k) \/ PromptRejects(r, k) \/ Complete(r, k) \/ Leave(r, k)
      BY <2>3 DEF PromptReturns, PromptRejects, Complete, Leave
    <2>4. CASE Tidy(r, k) \/ HandleFailure(r, k)
      BY <2>4 DEF Tidy, HandleFailure, CleanUp, Destroy
    <2> QED BY <1>4, <2>1, <2>2, <2>3, <2>4 DEF RunStep
  <1>5. ASSUME NEW c \in Commands, NEW k \in Tokens, Disturb(c, k) PROVE faults' \in {faults, faults + 1}
    BY <1>5 DEF Disturb, Renew, Timeout, EventFails, CallFails, AskApproval, ResumeApproved, Throw
  <1>6. CASE UNCHANGED vars
    BY <1>6 DEF vars
  <1> QED BY <1>1, <1>2, <1>3, <1>4, <1>5, <1>6 DEF Next

LEMMA SticksInductive ==
  ASSUME IInv, OneRunner, ISticks, [Next]_vars
  PROVE  ISticks'
  <1> SUFFICES ASSUME faults' = 0 PROVE \A q \in Runs : Sticks(q)'
    BY DEF ISticks
  <1>0. faults = 0 /\ \A q \in Runs : Sticks(q)
    BY FaultsGrow DEF ISticks, IInv, TypeOK
  <1>1. ASSUME NEW c \in Commands, WebStep(c) PROVE \A q \in Runs : Sticks(q)'
    BY <1>0, <1>1, SendMessageSticks, RequestSticks DEF WebStep
  <1>2. ASSUME NEW c \in Commands, Expire(c) PROVE \A q \in Runs : Sticks(q)'
    BY <1>0, <1>2, ExpireSticks
  <1>3. ASSUME NEW w \in Runners, PollStep(w) PROVE \A q \in Runs : Sticks(q)'
    <2> TAKE q \in Runs
    <2>1. ~GiveBack(w)
      BY <1>0, Calm DEF GiveBack
    <2> QED BY <1>0, <1>3, <2>1, PollSticks, TrackSticks, ClaimRowSticks DEF PollStep
  <1>4. ASSUME NEW w \in Runners, BeginDrain(w) \/ Exit(w) \/ Crash(w) PROVE \A q \in Runs : Sticks(q)'
    <2> TAKE q \in Runs
    <2> QED BY <1>0, <1>4, Calm DEF BeginDrain, Exit, Crash, Fault
  <1>5. ASSUME NEW c \in Commands, NEW k \in Tokens, LeaseStep(c, k) PROVE \A q \in Runs : Sticks(q)'
    BY <1>0, <1>5, LeaseStepSticks
  <1>6. ASSUME NEW r \in Runs, NEW k \in Tokens, RunStep(r, k) PROVE \A q \in Runs : Sticks(q)'
    <2>1. Touches(r, k) /\ Sticks(r)' /\ r \in Commands /\ RunOf(r) = r
      BY <1>0, <1>6, RunStepSticks, Constants
    <2> QED BY <1>0, <2>1, SticksUntouched
  <1>7. ASSUME NEW c \in Commands, NEW k \in Tokens, Disturb(c, k) PROVE \A q \in Runs : Sticks(q)'
    BY <1>0, <1>7, DisturbedSticks
  <1>8. CASE UNCHANGED vars
    <2> TAKE q \in Runs
    <2>1. UNCHANGED <<run, cmd, target, poll, task, active, prompts>>
      BY <1>8 DEF vars, rowVars, mapVars
    <2> QED BY <1>0, <2>1, SticksApart
  <1> QED BY <1>1, <1>2, <1>3, <1>4, <1>5, <1>6, <1>7, <1>8 DEF Next

LEMMA InitSticks ==
  ASSUME Init
  PROVE  ISticks
  <1> SUFFICES ASSUME NEW r \in Runs PROVE Sticks(r)
    BY DEF ISticks
  <1>1. /\ r \in Commands /\ run[r] = "none" /\ target \in [Cancels -> Runs]
        /\ \A c \in Commands : cmd[c].status = "none" /\ \A k \in Tokens : task[c][k] = NoTask
        /\ \A w \in Runners : poll[w].step = "idle" /\ active[w][r] = 0
    BY Constants DEF Init, NoPoll
  <1>2. \A c \in Commands, k \in Tokens : Pc(c, k) = "none" /\ task[c][k].kind = "run"
    BY <1>1 DEF NoTask, Pc
  <1>3. Entered(r)
    BY <1>1, <1>2 DEF Entered
  <1>4. Course(r)
    BY <1>1, <1>2 DEF Course, Creating
  <1>5. \A c \in Cancels : Withdrawn(c)
    BY <1>1, <1>2, Constants DEF Withdrawn, Applied
  <1> QED BY <1>1, <1>3, <1>4, <1>5 DEF Sticks, Ended

\* Only the start of a prompt counts as one.
LEMMA PromptsGrow ==
  ASSUME IInv, [Next]_vars, NEW r \in Runs, prompts'[r] # prompts[r]
  PROVE  \E k \in Tokens : StartPrompt(r, k)
  <1>1. ASSUME NEW c \in Commands, WebStep(c) \/ Expire(c) PROVE prompts' = prompts
    BY <1>1 DEF WebStep, SendMessage, AskCancel, RequestCancel, WriteSession, Expire
  <1>2. ASSUME NEW w \in Runners, PollStep(w) \/ BeginDrain(w) \/ Exit(w) \/ Crash(w) PROVE prompts' = prompts
    BY <1>2 DEF PollStep, StartClaim, NothingToClaim, Track, GiveBack, ClaimRow, BeginDrain, Exit, Crash, Ends
  <1>3. ASSUME NEW c \in Commands, NEW k \in Tokens, LeaseStep(c, k) PROVE prompts' = prompts
    BY <1>3 DEF LeaseStep, StartLease, ReportRun, Settle, Recover, CancelHere, CancelElsewhere
  <1>4. ASSUME NEW c \in Runs, NEW k \in Tokens, RunStep(c, k) PROVE prompts' = prompts \/ StartPrompt(c, k)
    <2>1. CASE Refuse(c, k) \/ Begin(c, k) \/ Admit(c, k) \/ CheckCancelled(c, k) \/ CreateBox(c, k) \/ Enter(c, k)
               \/ StartPrompt(c, k) \/ Prepare(c, k) \/ PrepareIsRefused(c, k)
      BY <2>1 DEF Refuse, Begin, Admit, CheckCancelled, CreateBox, Enter, Prepare, PrepareIsRefused
    <2>2. CASE Boot(c, k) \/ BootFails(c, k) \/ Bind(c, k) \/ Limit(c, k) \/ Undo(c, k)
      BY <2>2 DEF Boot, BootFails, Bind, Limit, Undo
    <2>3. CASE PromptReturns(c, k) \/ PromptRejects(c, k) \/ Complete(c, k) \/ Leave(c, k) \/ Tidy(c, k)
               \/ HandleFailure(c, k)
      BY <2>3 DEF PromptReturns, PromptRejects, Complete, Leave, Tidy, HandleFailure
    <2> QED BY <1>4, <2>1, <2>2, <2>3 DEF RunStep
  <1>5. ASSUME NEW c \in Commands, NEW k \in Tokens, Disturb(c, k) PROVE prompts' = prompts
    BY <1>5 DEF Disturb, Renew, Timeout, EventFails, CallFails, AskApproval, ResumeApproved, Throw
  <1>6. CASE UNCHANGED vars
    BY <1>6 DEF vars
  <1>7. PICK c \in Runs, k \in Tokens : StartPrompt(c, k)
    BY <1>1, <1>2, <1>3, <1>4, <1>5, <1>6 DEF Next
  <1>8. CASE c = r
    BY <1>7, <1>8
  <1>9. CASE c # r
    BY <1>7, <1>9 DEF StartPrompt, IInv, TypeOK
  <1> QED BY <1>8, <1>9

LEMMA CancelHolds ==
  ASSUME IInv, ISticks, [Next]_vars
  PROVE  \A c \in Cancels : Applied(c) /\ faults = 0 => prompts'[target[c]] = prompts[target[c]]
  <1> SUFFICES ASSUME NEW c \in Cancels, Applied(c), faults = 0, prompts'[target[c]] # prompts[target[c]]
               PROVE  FALSE
    OBVIOUS
  <1>1. PICK r \in Runs : r = target[c]
    BY DEF IInv, TypeOK
  <1>2. PICK k \in Tokens : StartPrompt(r, k)
    BY <1>1, PromptsGrow
  <1>3. Pc(r, k) = "start"
    BY <1>2 DEF StartPrompt, Working, Pc
  <1>4. prompts[r] = 0
    BY <1>3, Calm DEF WellKept, Ready
  <1>5. Doomed(r)
    BY <1>1 DEF ISticks, Sticks, Withdrawn
  <1>6. Aborted(r, k)
    BY <1>3, <1>4, <1>5 DEF Doomed, Halted
  <1>7. prompts' = prompts
    BY <1>2, <1>6 DEF StartPrompt
  <1> QED BY <1>1, <1>7

(* With one runner and without a fault, a run is not prompted any more once a command that cancels it is
   settled, whichever of the two the runner was working on first.  With two runners it may be: what one of
   them executes the other does not see. *)
THEOREM CancelsStick == ASSUME OneRunner PROVE Spec => CancelSticks
  <1>1. Init => ISticks
    BY InitSticks
  <1>2. IInv /\ ISticks /\ [Next]_vars => ISticks'
    BY SticksInductive
  <1>3. IInv /\ ISticks /\ [Next]_vars =>
           [\A c \in Cancels : Applied(c) /\ faults = 0 => prompts'[target[c]] = prompts[target[c]]]_vars
    BY CancelHolds
  <1> QED BY <1>1, <1>2, <1>3, InvariantHolds, PTL DEF Spec, CancelSticks

=============================================================================
