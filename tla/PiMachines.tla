----------------------------- MODULE PiMachines -----------------------------
(***************************************************************************)
(* The microVM supervisor: the process on a sandbox host that starts a     *)
(* Firecracker process for a run and takes it down again.                  *)
(*                                                                         *)
(* A sandbox is made of parts the supervisor creates one after the other:  *)
(* a directory, a directory for sockets, a cgroup, a process, the          *)
(* runtime.json with which another supervisor can find them again, and the *)
(* binding that lets callers name the sandbox.  Any of the calls may fail, *)
(* the process may exit whenever it likes, and the supervisor may die and  *)
(* be started again while its children run on.                             *)
(*                                                                         *)
(* Deployed as it is, the supervisor has no network controller.            *)
(***************************************************************************)
EXTENDS Naturals

CONSTANTS
    Sandboxes,      \* fresh ids: no id is given twice
    NoSandbox,      \* what an idle request is about
    Requests,       \* HTTP requests under way at a time
    MaxFaults       \* bound: failed calls and deaths of the supervisor

ASSUME SandboxAssumption == NoSandbox \notin Sandboxes
ASSUME FaultAssumption == MaxFaults \in Nat

VARIABLES
    used,           \* ids that were given
    left,           \* the parts of each sandbox on the host
    noted,          \* the sandboxes with a runtime.json
    process,        \* the Firecracker process of each sandbox
    inside,         \* the processes that were put in their cgroup
    killed,         \* the processes that were sent SIGKILL
    held,           \* FirecrackerSandboxBackend.states
    binding,        \* the binding store
    req,            \* what each request is doing
    vouched,        \* history: the sandboxes some caller was told are destroyed
    excuse,         \* history: what went wrong with each sandbox
    faults

hostVars == <<left, noted, process, inside, killed>>
historyVars == <<vouched, excuse>>
vars == <<used, hostVars, held, binding, req, historyVars, faults>>

-----------------------------------------------------------------------------
Part == {"directory", "sockets", "cgroup"}
Creating == {"directory", "sockets", "cgroup", "spawn", "attach", "metadata", "start", "look", "bind"}
Undoing == {"abort", "reap", "clean"}
Destroying == {"release", "remove", "unlink", "unbind"}
Stopping == {"state", "adopt", "stop", "asked", "dying"}
Op == {"create", "destroy", "terminate", "use"}

(* "slow": the process outlived the wait after SIGKILL; "failed": a call    *)
(* that takes something down failed; "unread": the binding store could not  *)
(* be read; "crash": the supervisor died; "lost": the process was dead      *)
(* before a supervisor that did not start it came to look for it.           *)
Excuse == {"slow", "failed", "unread", "crash", "lost"}

Idle == [op |-> "use", pc |-> "idle", box |-> NoSandbox]
Serving(s) == {r \in Requests : req[r].box = s}
Running(s) == process[s] = "running"

Init ==
    /\ used = {} /\ noted = {} /\ inside = {} /\ killed = {}
    /\ left = [s \in Sandboxes |-> {}]
    /\ process = [s \in Sandboxes |-> "none"]
    /\ held = {} /\ binding = {}
    /\ req = [r \in Requests |-> Idle]
    /\ vouched = {} /\ excuse = [s \in Sandboxes |-> {}]
    /\ faults = 0

Goto(r, pc) == req' = [req EXCEPT ![r].pc = pc]
Done(r) == req' = [req EXCEPT ![r] = Idle]
Blame(s, why) == excuse' = [excuse EXCEPT ![s] = @ \cup why]
Without(s, part) == left' = [left EXCEPT ![s] = @ \ {part}]

-----------------------------------------------------------------------------
(* POST v1/sandboxes/create *)

Create(r, s) ==
    /\ req[r].pc = "idle" /\ s \notin used
    /\ used' = used \cup {s}
    /\ req' = [req EXCEPT ![r] = [op |-> "create", pc |-> "directory", box |-> s]]
    /\ UNCHANGED <<hostVars, held, binding, historyVars, faults>>

MakePart(r, part, next) ==
    /\ req[r].pc = part
    /\ left' = [left EXCEPT ![req[r].box] = @ \cup {part}]
    /\ Goto(r, next)
    /\ UNCHANGED <<used, noted, process, inside, killed, held, binding, historyVars, faults>>

MakeDirectory(r) == MakePart(r, "directory", "sockets")
MakeSockets(r) == MakePart(r, "sockets", "cgroup")
MakeCgroup(r) == MakePart(r, "cgroup", "spawn")

Spawn(r) ==
    /\ req[r].pc = "spawn"
    /\ process' = [process EXCEPT ![req[r].box] = "running"]
    /\ Goto(r, "attach")
    /\ UNCHANGED <<used, left, noted, inside, killed, held, binding, historyVars, faults>>

Attach(r) ==
    /\ req[r].pc = "attach" /\ Running(req[r].box)
    /\ inside' = inside \cup {req[r].box}
    /\ Goto(r, "metadata")
    /\ UNCHANGED <<used, left, noted, process, killed, held, binding, historyVars, faults>>

(* The process is configured before the file is written. *)
WriteMetadata(r) ==
    /\ req[r].pc = "metadata" /\ Running(req[r].box)
    /\ noted' = noted \cup {req[r].box}
    /\ Goto(r, "start")
    /\ UNCHANGED <<used, left, process, inside, killed, held, binding, historyVars, faults>>

(* The machine is started and its agent has answered. *)
Start(r) ==
    /\ req[r].pc = "start" /\ Running(req[r].box)
    /\ held' = held \cup {req[r].box}
    /\ Goto(r, "look")
    /\ UNCHANGED <<used, hostVars, binding, historyVars, faults>>

(* No binding has a fresh id. *)
LookForDuplicate(r) ==
    /\ req[r].pc = "look"
    /\ Goto(r, "bind")
    /\ UNCHANGED <<used, hostVars, held, binding, historyVars, faults>>

Bind(r) ==
    /\ req[r].pc = "bind"
    /\ binding' = binding \cup {req[r].box}
    /\ Done(r)
    /\ UNCHANGED <<used, hostVars, held, historyVars, faults>>

-----------------------------------------------------------------------------
(* The catch block of FirecrackerSandboxBackend.create *)

Abort(r) ==
    /\ req[r].pc = "abort"
    /\ IF Running(req[r].box)
       THEN killed' = killed \cup {req[r].box} /\ Goto(r, "reap")
       ELSE killed' = killed /\ Goto(r, "clean")
    /\ UNCHANGED <<used, left, noted, process, inside, held, binding, historyVars, faults>>

(* The wait ends with the process or after a second. *)
Reap(r) ==
    /\ req[r].pc = "reap"
    /\ Blame(req[r].box, IF Running(req[r].box) THEN {"slow"} ELSE {})
    /\ Goto(r, "clean")
    /\ UNCHANGED <<used, hostVars, held, binding, vouched, faults>>

(* A cgroup with a process in it cannot be removed, and one that FailCgroup *)
(* left, which alone has failed so far, is not known here.                  *)
Stuck(s) == left[s] \cap (IF (Running(s) /\ s \in inside) \/ "failed" \in excuse[s] THEN {"cgroup"} ELSE {})

(* An error here is nobody's business: what it leaves has no name any more. *)
CleanUp(r) ==
    LET s == req[r].box IN
    /\ req[r].pc = "clean"
    /\ \E kept \in SUBSET left[s] :
        /\ Stuck(s) \subseteq kept
        /\ kept # Stuck(s) => faults < MaxFaults
        /\ left' = [left EXCEPT ![s] = kept]
        /\ noted' = IF "directory" \in kept THEN noted ELSE noted \ {s}
        /\ faults' = IF kept # Stuck(s) THEN faults + 1 ELSE faults
        /\ Blame(s, IF kept # Stuck(s) THEN {"failed"} ELSE {})
    /\ Done(r)
    /\ UNCHANGED <<used, process, inside, killed, held, binding, vouched>>

-----------------------------------------------------------------------------
(* The other requests.  A sandbox without a binding is answered 404. *)

Call(r, op, s) ==
    /\ req[r].pc = "idle" /\ op # "create" /\ s \in binding
    /\ req' = [req EXCEPT ![r] = [op |-> op, pc |-> "state", box |-> s]]
    /\ UNCHANGED <<used, hostVars, held, binding, historyVars, faults>>

(* recover: the process must be the one in runtime.json, alive and in its cgroup. *)
Recoverable(s) == "directory" \in left[s] /\ s \in noted /\ Running(s) /\ "cgroup" \in left[s] /\ s \in inside

AfterState(r) == IF req[r].op = "use" THEN Done(r) ELSE Goto(r, "stop")

State(r) ==
    LET s == req[r].box IN
    /\ req[r].pc = "state"
    /\ IF s \in held THEN AfterState(r) /\ excuse' = excuse
       ELSE IF Recoverable(s) THEN Goto(r, "adopt") /\ excuse' = excuse
       ELSE Done(r) /\ Blame(s, IF process[s] = "dead" /\ req[r].op # "use" THEN {"lost"} ELSE {})
    /\ UNCHANGED <<used, hostVars, held, binding, vouched, faults>>

(* The sandbox may have been destroyed since recover looked: the handle of  *)
(* a dead process then stays in the map for good.                           *)
Adopt(r) ==
    /\ req[r].pc = "adopt"
    /\ held' = held \cup {req[r].box}
    /\ AfterState(r)
    /\ UNCHANGED <<used, hostVars, binding, historyVars, faults>>

AfterStop(r) == IF req[r].op = "terminate" THEN Done(r) ELSE Goto(r, "release")

(* Slip: destroy returns, like terminate, when the process is dead. *)
StopReturnsEarly(r) ==
    /\ req[r].pc = "stop"
    /\ IF Running(req[r].box) THEN Goto(r, "asked") ELSE Done(r)
    /\ UNCHANGED <<used, hostVars, held, binding, historyVars, faults>>

(* terminate: Ctrl+Alt+Del, and SIGTERM after three seconds. *)
Stop(r) ==
    /\ req[r].pc = "stop"
    /\ IF Running(req[r].box) THEN Goto(r, "asked") ELSE AfterStop(r)
    /\ UNCHANGED <<used, hostVars, held, binding, historyVars, faults>>

(* SIGKILL, a second after SIGTERM *)
Kill(r) ==
    LET s == req[r].box IN
    /\ req[r].pc = "asked"
    /\ IF Running(s) THEN killed' = killed \cup {s} /\ Goto(r, "dying")
                     ELSE killed' = killed /\ AfterStop(r)
    /\ UNCHANGED <<used, left, noted, process, inside, held, binding, historyVars, faults>>

(* Another second later: terminate returns whatever became of the process,  *)
(* destroy does not go on beside one that runs.                             *)
EndOfWait(r) ==
    LET s == req[r].box IN
    /\ req[r].pc = "dying"
    /\ IF Running(s) /\ req[r].op # "terminate" THEN Done(r) /\ Blame(s, {"slow"})
                                               ELSE AfterStop(r) /\ excuse' = excuse
    /\ UNCHANGED <<used, hostVars, held, binding, vouched, faults>>

-----------------------------------------------------------------------------
(* destroy, after terminate.  A part that is already gone is an error, so a *)
(* destroy that failed half-way cannot be repeated.                         *)

Remove(r, pc, part, next) ==
    LET s == req[r].box IN
    /\ req[r].pc = pc
    /\ IF part \in left[s] THEN Goto(r, next) ELSE Done(r)
    /\ Without(s, part)

ReleaseCgroup(r) ==
    /\ Remove(r, "release", "cgroup", "remove")
    /\ UNCHANGED <<used, noted, process, inside, killed, held, binding, historyVars, faults>>

RemoveDirectory(r) ==
    /\ Remove(r, "remove", "directory", "unlink")
    /\ noted' = noted \ {req[r].box}
    /\ UNCHANGED <<used, process, inside, killed, held, binding, historyVars, faults>>

RemoveSockets(r) ==
    /\ Remove(r, "unlink", "sockets", "unbind")
    /\ held' = IF "sockets" \in left[req[r].box] THEN held \ {req[r].box} ELSE held
    /\ UNCHANGED <<used, noted, process, inside, killed, binding, historyVars, faults>>

(* Slip: the sockets and the cgroup are not looked at. *)
DestroyedDirectory(s) == ~(s \in held /\ Running(s)) /\ "directory" \notin left[s]

\* verifyDestroyed
Destroyed(s) == ~(s \in held /\ Running(s)) /\ left[s] = {}

(* A creation whose binding could not be written destroys what it made, and *)
(* has no binding to delete.                                                *)
Unbind(r) ==
    LET s == req[r].box IN
    /\ req[r].pc = "unbind"
    /\ IF req[r].op = "destroy" /\ Destroyed(s)
       THEN binding' = binding \ {s} /\ vouched' = vouched \cup {s}
       ELSE UNCHANGED <<binding, vouched>>
    /\ Done(r)
    /\ UNCHANGED <<used, hostVars, held, excuse, faults>>

(* GET status.  A sandbox without a binding is answered by a 404 with a     *)
(* code, and HttpSandboxSupervisorClient takes only a 404 without one to    *)
(* mean destroyed: after a destroy that went well it throws.                *)
Status(s) ==
    /\ s \in binding
    /\ vouched' = IF Destroyed(s) THEN vouched \cup {s} ELSE vouched
    /\ UNCHANGED <<used, hostVars, held, binding, req, excuse, faults>>

-----------------------------------------------------------------------------
(* Faults *)

\* A step of create cannot go on with a dead process.
Broken(r) == req[r].pc \in {"attach", "metadata", "start"} /\ process[req[r].box] = "dead"

FailCreate(r) ==
    /\ req[r].pc \in Creating \ {"look", "bind"}
    /\ IF Broken(r) THEN faults' = faults ELSE faults < MaxFaults /\ faults' = faults + 1
    /\ Goto(r, "abort")
    /\ UNCHANGED <<used, hostVars, held, binding, historyVars>>

(* The limits of a new cgroup cannot be written, and neither can it be      *)
(* removed again: that error is swallowed, and create has no cgroup to undo.*)
FailCgroup(r) ==
    LET s == req[r].box IN
    /\ req[r].pc = "cgroup" /\ faults + 1 < MaxFaults
    /\ left' = [left EXCEPT ![s] = @ \cup {"cgroup"}]
    /\ Blame(s, {"failed"})
    /\ Goto(r, "abort")
    /\ faults' = faults + 2
    /\ UNCHANGED <<used, noted, process, inside, killed, held, binding, vouched>>

(* Slip: nothing is done about a machine whose binding cannot be written. *)
FailBindOnly(r) ==
    /\ req[r].pc \in {"look", "bind"} /\ faults < MaxFaults
    /\ Done(r)
    /\ Blame(req[r].box, IF req[r].pc = "look" THEN {"unread"} ELSE {})
    /\ faults' = faults + 1
    /\ UNCHANGED <<used, hostVars, held, binding, vouched>>

(* The look for a duplicate is outside of every try: when it fails the      *)
(* machine runs on without a name.  A binding that cannot be written is followed by *)
(* terminate and by destroy, which terminates again.                        *)
FailBind(r) ==
    /\ req[r].pc \in {"look", "bind"} /\ faults < MaxFaults
    /\ IF req[r].pc = "look" THEN Done(r) /\ Blame(req[r].box, {"unread"})
                             ELSE Goto(r, "state") /\ excuse' = excuse
    /\ faults' = faults + 1
    /\ UNCHANGED <<used, hostVars, held, binding, vouched>>

(* Recovering the handle, the rmdir, either rm, or the deletion of the binding *)
FailOther(r) ==
    /\ req[r].pc \in {"adopt"} \cup Destroying /\ faults < MaxFaults
    /\ Blame(req[r].box, IF req[r].op = "use" THEN {} ELSE {"failed"})
    /\ Done(r)
    /\ faults' = faults + 1
    /\ UNCHANGED <<used, hostVars, held, binding, vouched>>

Exit(s) ==
    /\ Running(s)
    /\ process' = [process EXCEPT ![s] = "dead"]
    /\ UNCHANGED <<used, left, noted, inside, killed, held, binding, req, historyVars, faults>>

Crash ==
    /\ faults < MaxFaults
    /\ faults' = faults + 1
    /\ held' = {}
    /\ req' = [r \in Requests |-> Idle]
    /\ excuse' = [s \in Sandboxes |->
                    IF \E r \in Serving(s) : req[r].op # "use" THEN excuse[s] \cup {"crash"} ELSE excuse[s]]
    /\ UNCHANGED <<used, hostVars, binding, vouched>>

-----------------------------------------------------------------------------
Provision(r) == MakeDirectory(r) \/ MakeSockets(r) \/ MakeCgroup(r) \/ Spawn(r) \/ Attach(r)
                \/ WriteMetadata(r) \/ Start(r) \/ LookForDuplicate(r) \/ Bind(r)
Undo(r) == Abort(r) \/ Reap(r) \/ CleanUp(r)
Reach(r) == State(r) \/ Adopt(r) \/ Stop(r) \/ Kill(r) \/ EndOfWait(r)
Destroy(r) == ReleaseCgroup(r) \/ RemoveDirectory(r) \/ RemoveSockets(r) \/ Unbind(r)

\* Whatever a request is at, it goes on.
Proceed(r) == Provision(r) \/ Undo(r) \/ Reach(r) \/ Destroy(r) \/ FailCreate(r)

Next ==
    \/ \E r \in Requests, s \in Sandboxes : Create(r, s) \/ \E op \in Op : Call(r, op, s)
    \/ \E r \in Requests : Proceed(r) \/ FailCgroup(r) \/ FailBind(r) \/ FailOther(r)
    \/ \E s \in Sandboxes : Status(s) \/ Exit(s)
    \/ Crash

Spec == Init /\ [][Next]_vars

(* Every wait of a request is bounded by a timer, and a killed process exits. *)
FairSpec ==
    /\ Spec
    /\ \A r \in Requests : WF_vars(Proceed(r))
    /\ \A s \in Sandboxes : WF_vars(s \in killed /\ Exit(s))

-----------------------------------------------------------------------------
Request == {Idle} \cup [op : Op, pc : Creating \cup Undoing \cup Stopping \cup Destroying, box : Sandboxes]

TypeOK ==
    /\ {used, noted, inside, killed, held, binding, vouched} \subseteq SUBSET Sandboxes
    /\ left \in [Sandboxes -> SUBSET Part]
    /\ process \in [Sandboxes -> {"none", "running", "dead"}]
    /\ req \in [Requests -> Request]
    /\ excuse \in [Sandboxes -> SUBSET Excuse]
    /\ faults \in 0..MaxFaults

(* Who is told that a sandbox is destroyed can rely on it: no process, no   *)
(* cgroup and no directory is left, however requests overlapped and         *)
(* whichever supervisor, before or after a crash, gave the answer.          *)
DestroyedIsGone == \A s \in vouched : ~Running(s) /\ left[s] = {}

\* Nobody can name the sandbox, and nobody is about to.
Unowned(s) == s \in used \ binding /\ \A r \in Serving(s) : req[r].op # "create"

(* What has no name does not stay: a creation that failed leaves nothing,   *)
(* unless taking it down failed or took too long, and it leaves a process   *)
(* without having killed it only if the supervisor died or could not read   *)
(* the binding store.                                                       *)
NothingUnowned ==
    \A s \in Sandboxes : Unowned(s) =>
        /\ left[s] # {} => excuse[s] # {}
        /\ Running(s) => s \in killed \/ excuse[s] \cap {"crash", "unread"} # {}

(* A sandbox somebody destroys is destroyed, by whichever of the requests   *)
(* gets there, after a restart of the supervisor too, unless something went *)
(* wrong that keeps it from being destroyed.                                *)
EveryDestroyEnds ==
    \A s \in Sandboxes :
        (\E r \in Serving(s) : req[r].op = "destroy") ~> (s \notin binding \/ excuse[s] # {})
=============================================================================
