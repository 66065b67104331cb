-------------------------- MODULE WorkerSupervisor --------------------------
(***************************************************************************)
(* One worker process: the supervisor's polling loop, its heartbeat loop   *)
(* and its shutdown.                                                       *)
(*                                                                         *)
(* Each cycle the main loop sends a heartbeat if one is due, lists the     *)
(* active tenants and lets every role process them one after the other,    *)
(* beginning one tenant further on than in the cycle before.  A second     *)
(* loop sends heartbeats meanwhile; the two share heartbeatInFlight.  A    *)
(* role may detach the work it claims, and keeps a map of it by run, with  *)
(* the latest work of a run only.  SIGTERM closes every role's claim       *)
(* boundary at once, interrupts both loops' sleep, and lets the main loop  *)
(* announce the shutdown, wait for the work in the map and return.         *)
(*                                                                         *)
(* A step runs from one await to the next.                                 *)
(***************************************************************************)
EXTENDS Naturals

CONSTANTS
    NRoles,         \* roles 1 .. NRoles, in the order of WORKER_ROLES
    Detached,       \* roles with processTenantDetached
    Waited,         \* other roles whose drain() waits for the tenant being processed
    NTenants,       \* tenants 0 .. NTenants - 1, as the directory lists them
    Broken,         \* tenants whose processing always throws
    Runs,           \* runs of a tenant
    Leases,         \* leases on commands of runs: on starts, on cancellations, reclaimed ones
    RunOf,          \* the role, the tenant and the run of each
    Budget,         \* maxItemsPerRolePerCycle
    MaxFaults       \* bound: failed heartbeats, and failed cycles

Roles == 1 .. NRoles
Tenants == 0 .. NTenants - 1
Loops == {"main", "heartbeat"}
Faults == {"heartbeat", "cycle"}

ASSUME SizeAssumption == {NRoles, NTenants, Budget} \subseteq Nat \ {0} /\ MaxFaults \in Nat
ASSUME MemberAssumption ==
    /\ Detached \subseteq Roles /\ Waited \subseteq Roles \ Detached
    /\ Broken \subseteq Tenants
    /\ "none" \notin Leases
    /\ RunOf \in [Leases -> Detached \X Tenants \X Runs]

Keys == Detached \X Tenants \X Runs

VARIABLES
    aborted,    \* the signal; beginDrain closes the claims in the same step
    pc,         \* what each loop awaits
    beat,       \* the heartbeat() call of each loop
    inFlight,   \* heartbeatInFlight: the loop whose heartbeat is being written
    row,        \* worker_heartbeats of this process, per role
    at,         \* the role, the tenant and the items handled in this cycle
    cursor,     \* where each role begins its next cycle
    tracked,    \* detached work in progress, by its lease
    entry,      \* the role's own inFlight: by run, the lease whose work is in the map
    displaced,  \* history: work in progress whose entry another took
    drain,      \* how far drain() of each role is
    joined,     \* the detached work that drain() waits for
    drainFailed,
    faults

workVars == <<tracked, entry, displaced>>
drainVars == <<drain, joined>>
cycleVars == <<at, cursor, workVars, drainVars, drainFailed>>
beatVars == <<beat, inFlight, row>>
vars == <<aborted, pc, beatVars, cycleVars, faults>>

NoBeat == [step |-> "none", role |-> 1, draining |-> FALSE]
Begun(draining) == [step |-> "writing", role |-> 1, draining |-> draining]
Waits(draining) == [step |-> "waiting", role |-> 1, draining |-> draining]
FirstOf(role) == [role |-> role, offset |-> 0, handled |-> 0]

Init ==
    /\ aborted = FALSE
    /\ pc = [l \in Loops |-> "sleep"]
    /\ beat = [l \in Loops |-> NoBeat]
    /\ inFlight = "none"
    /\ row = [r \in Roles |-> "none"]
    /\ at = FirstOf(1)
    /\ cursor = [r \in Roles |-> 0]
    /\ tracked = {}
    /\ entry = [k \in Keys |-> "none"]
    /\ displaced = {}
    /\ drain = [r \in Detached |-> "open"]
    /\ joined = {}
    /\ drainFailed = FALSE
    /\ faults = [k \in Faults |-> 0]

Fault(k) == faults[k] < MaxFaults /\ faults' = [faults EXCEPT ![k] = @ + 1]

(* SIGTERM: every role's drain() begins and aborts what its runs execute.   *)
Abort ==
    /\ ~ aborted
    /\ aborted' = TRUE
    /\ drain' = [r \in Detached |-> "aborting"]
    /\ UNCHANGED <<pc, beatVars, at, cursor, workVars, joined, drainFailed, faults>>

-----------------------------------------------------------------------------
(* Heartbeats *)

(* Slip: a call that waits forgets what it has to say. *)
CallsForgetful(l, draining) ==
    /\ beat' = [beat EXCEPT ![l] = IF inFlight = "none" THEN Begun(draining) ELSE Waits(FALSE)]
    /\ inFlight' = IF inFlight = "none" THEN l ELSE inFlight

(* heartbeat() waits for the one in flight, if any, before it writes.       *)
Calls(l, draining) ==
    /\ beat' = [beat EXCEPT ![l] = IF inFlight = "none" THEN Begun(draining) ELSE Waits(draining)]
    /\ inFlight' = IF inFlight = "none" THEN l ELSE inFlight

(* Where a loop goes on when its heartbeat is written, or has failed.       *)
After(l, written) ==
    IF l = "heartbeat" THEN "sleep"
    ELSE IF pc[l] = "announce" THEN "join"
    ELSE IF written THEN "tenants" ELSE "sleep"

Other(l) == IF l = "main" THEN "heartbeat" ELSE "main"

(* The call of l is over; the other loop, if it has been waiting, writes    *)
(* its own heartbeat or finds that none is due.                             *)
Resolves(l) ==
    LET o == Other(l) IN
    \/ /\ beat[o].step = "waiting"
       /\ inFlight' = o
       /\ beat' = [beat EXCEPT ![l] = NoBeat, ![o] = Begun(beat[o].draining)]
       /\ pc' = [pc EXCEPT ![l] = After(l, TRUE)]
    \/ /\ beat[o].step = "waiting" => ~ beat[o].draining
       /\ inFlight' = "none"
       /\ beat' = [k \in Loops |-> NoBeat]
       /\ pc' = [k \in Loops |-> IF k = l \/ beat[k].step = "waiting" THEN After(k, TRUE) ELSE pc[k]]

Write(l) ==
    LET b == beat[l] IN
    /\ b.step = "writing"
    /\ row' = [row EXCEPT ![b.role] = IF b.draining THEN "draining" ELSE "alive"]
    /\ IF b.role < NRoles
       THEN beat' = [beat EXCEPT ![l].role = b.role + 1] /\ UNCHANGED <<pc, inFlight>>
       ELSE Resolves(l)
    /\ UNCHANGED <<aborted, cycleVars, faults>>

(* Slip: the loop that waits is never told. *)
WriteFailsQuietly(l) ==
    /\ beat[l].step = "writing"
    /\ Fault("heartbeat")
    /\ inFlight' = "none"
    /\ beat' = [beat EXCEPT ![l] = NoBeat]
    /\ pc' = [pc EXCEPT ![l] = After(l, FALSE)]
    /\ UNCHANGED <<aborted, row, cycleVars>>

(* The error reaches the loop that writes and the loop that waits for it.   *)
WriteFails(l) ==
    /\ beat[l].step = "writing"
    /\ Fault("heartbeat")
    /\ inFlight' = "none"
    /\ beat' = [k \in Loops |-> NoBeat]
    /\ pc' = [k \in Loops |-> IF beat[k].step # "none" THEN After(k, FALSE) ELSE pc[k]]
    /\ UNCHANGED <<aborted, row, cycleVars>>

HeartbeatLoopWakes ==
    /\ pc["heartbeat"] = "sleep"
    /\ IF aborted THEN pc' = [pc EXCEPT !["heartbeat"] = "stopped"] /\ UNCHANGED <<beat, inFlight>>
       ELSE pc' = [pc EXCEPT !["heartbeat"] = "beat"] /\ Calls("heartbeat", FALSE)
    /\ UNCHANGED <<aborted, row, cycleVars, faults>>

-----------------------------------------------------------------------------
(* A cycle *)

MainIs(state) == pc["main"] = state
MainGoes(state) == pc' = [pc EXCEPT !["main"] = state]

StartCycle ==
    /\ MainIs("sleep")
    /\ ~ aborted
    /\ \/ MainGoes("beat") /\ Calls("main", FALSE)
       \/ inFlight = "none" /\ MainGoes("tenants") /\ UNCHANGED <<beat, inFlight>>
    /\ UNCHANGED <<aborted, row, cycleVars, faults>>

ListTenants ==
    /\ MainIs("tenants")
    /\ MainGoes("poll")
    /\ at' = FirstOf(1)
    /\ UNCHANGED <<aborted, beatVars, cursor, workVars, drainVars, drainFailed, faults>>

ListFails ==
    /\ MainIs("tenants")
    /\ Fault("cycle")
    /\ MainGoes("sleep")
    /\ UNCHANGED <<aborted, beatVars, cycleVars>>

RoleIsDone == aborted \/ at.offset = NTenants \/ at.handled >= Budget

Tenant == (cursor[at.role] + at.offset) % NTenants

PollTenant ==
    /\ MainIs("poll")
    /\ ~ RoleIsDone
    /\ MainGoes("processing")
    /\ UNCHANGED <<aborted, beatVars, cycleVars, faults>>

(* Slip: every cycle begins with the same tenant. *)
NextRoleUnrotated ==
    /\ MainIs("poll")
    /\ RoleIsDone
    /\ IF at.role < NRoles THEN at' = FirstOf(at.role + 1) /\ UNCHANGED pc
       ELSE MainGoes("sleep") /\ UNCHANGED at
    /\ UNCHANGED <<aborted, beatVars, cursor, workVars, drainVars, drainFailed, faults>>

NextRole ==
    /\ MainIs("poll")
    /\ RoleIsDone
    /\ cursor' = [cursor EXCEPT ![at.role] = (@ + 1) % NTenants]
    /\ IF at.role < NRoles THEN at' = FirstOf(at.role + 1) /\ UNCHANGED pc
       ELSE MainGoes("sleep") /\ UNCHANGED at
    /\ UNCHANGED <<aborted, beatVars, workVars, drainVars, drainFailed, faults>>

Processing == MainIs("processing") /\ Tenant \notin Broken
Advances(handled) == at' = [at EXCEPT !.offset = @ + 1, !.handled = @ + handled] /\ MainGoes("poll")

FindsNothing ==
    /\ Processing
    /\ Advances(0)
    /\ UNCHANGED <<aborted, beatVars, cursor, workVars, drainVars, drainFailed, faults>>

(* The role works on an item of the tenant and the loop waits for it.       *)
FinishesItem ==
    /\ Processing
    /\ at.role \notin Detached
    /\ Advances(1)
    /\ UNCHANGED <<aborted, beatVars, cursor, workVars, drainVars, drainFailed, faults>>

(* The work on a lease takes the entry of its run, whoever has it.          *)
Track(lease) ==
    LET run == RunOf[lease] IN
    /\ lease \notin tracked
    /\ tracked' = tracked \cup {lease}
    /\ displaced' = displaced \cup (tracked \cap {entry[run]})
    /\ entry' = [entry EXCEPT ![run] = lease]

Claimable == {l \in Leases : RunOf[l][1] = at.role /\ RunOf[l][2] = Tenant}

(* Slip: the claim does not look at the shutdown again. *)
ReturnsDetachedUnchecked ==
    /\ Processing
    /\ at.role \in Detached
    /\ \E lease \in Claimable : Track(lease)
    /\ Advances(1)
    /\ UNCHANGED <<aborted, beatVars, cursor, drainVars, drainFailed, faults>>

(* A detached claim returns: its work begins, or, when the shutdown has     *)
(* come while the claim was under way, the lease is given back.             *)
ReturnsDetached ==
    /\ Processing
    /\ at.role \in Detached
    /\ IF aborted THEN UNCHANGED workVars /\ Advances(0)
       ELSE /\ \E lease \in Claimable : Track(lease)
            /\ Advances(1)
    /\ UNCHANGED <<aborted, beatVars, cursor, drainVars, drainFailed, faults>>

(* Processing a tenant throws: the role is done for this cycle, and a       *)
(* drain() that waits for the tenant too has failed.                        *)
Throws ==
    /\ MainIs("processing")
    /\ IF Tenant \in Broken THEN UNCHANGED faults ELSE Fault("cycle")
    /\ at' = [at EXCEPT !.offset = NTenants]
    /\ MainGoes("poll")
    /\ drainFailed' = (drainFailed \/ (aborted /\ at.role \in Waited))
    /\ UNCHANGED <<aborted, beatVars, cursor, workVars, drainVars>>

(* Slip: whatever the entry of the run holds is deleted. *)
LeavesUnchecked(lease) ==
    /\ tracked' = tracked \ {lease}
    /\ displaced' = displaced \ {lease}
    /\ entry' = [entry EXCEPT ![RunOf[lease]] = "none"]

(* Work that is over takes its entry out of the map, if it is still its own.*)
Leaves(lease) ==
    /\ tracked' = tracked \ {lease}
    /\ displaced' = displaced \ {lease}
    /\ entry' = [entry EXCEPT ![RunOf[lease]] = IF @ = lease THEN "none" ELSE @]

WorkEnds(lease) ==
    /\ Leaves(lease)
    /\ UNCHANGED <<aborted, pc, beatVars, at, cursor, drainVars, drainFailed, faults>>

(* Detached work whose promise rejects makes a drain that waits for it fail.*)
WorkFails(lease) ==
    /\ Leaves(lease)
    /\ drainFailed' = (drainFailed \/ lease \in joined)
    /\ UNCHANGED <<aborted, pc, beatVars, at, cursor, drainVars, faults>>

-----------------------------------------------------------------------------
(* Shutdown *)

Announce ==
    /\ MainIs("sleep")
    /\ aborted
    /\ MainGoes("announce")
    /\ Calls("main", TRUE)
    /\ UNCHANGED <<aborted, row, cycleVars, faults>>

(* The aborts have settled: drain() goes on to wait for what is in the map. *)
JoinInFlight(r) ==
    /\ drain[r] = "aborting"
    /\ drain' = [drain EXCEPT ![r] = "joining"]
    /\ joined' = joined \cup {l \in Leases : RunOf[l][1] = r /\ entry[RunOf[l]] = l}
    /\ UNCHANGED <<aborted, pc, beatVars, at, cursor, workVars, drainFailed, faults>>

(* run() returns when every drain() and the heartbeat loop have, or throws  *)
(* as soon as a drain() does.                                               *)
Stop ==
    /\ MainIs("join")
    /\ \/ drainFailed
       \/ /\ \A r \in Detached : drain[r] = "joining"
          /\ joined \cap tracked = {}
          /\ pc["heartbeat"] = "stopped"
    /\ MainGoes("stopped")
    /\ UNCHANGED <<aborted, beatVars, cycleVars, faults>>

-----------------------------------------------------------------------------
HeartbeatStep == \E l \in Loops : Write(l)
CycleStep == ListTenants \/ PollTenant \/ NextRole \/ FindsNothing \/ FinishesItem \/ ReturnsDetached \/ Throws

Next ==
    \/ Abort
    \/ HeartbeatStep
    \/ HeartbeatLoopWakes
    \/ StartCycle
    \/ CycleStep
    \/ ListFails
    \/ Announce
    \/ Stop
    \/ \E r \in Detached : JoinInFlight(r)
    \/ \E l \in Loops : WriteFails(l)
    \/ \E lease \in tracked : WorkEnds(lease) \/ WorkFails(lease)

(* Promises settle: the database answers or fails, processing a tenant and  *)
(* detached work end (they have time-outs), so does an abort, timers fire.  *)
(* Nothing makes a signal arrive.                                           *)
Fairness ==
    /\ WF_vars(HeartbeatStep)
    /\ WF_vars(HeartbeatLoopWakes)
    /\ WF_vars(StartCycle)
    /\ WF_vars(CycleStep)
    /\ WF_vars(Announce)
    /\ WF_vars(Stop)
    /\ \A r \in Detached : WF_vars(JoinInFlight(r))
    /\ \A lease \in Leases : WF_vars(lease \in tracked /\ WorkEnds(lease))

Spec == Init /\ [][Next]_vars /\ Fairness

-----------------------------------------------------------------------------
(* Properties *)

(* The loops are at one of their awaits, and the rest has its type.         *)
TypeOK ==
    /\ aborted \in BOOLEAN
    /\ pc \in [Loops -> {"sleep", "beat", "tenants", "poll", "processing", "announce", "join", "stopped"}]
    /\ beat \in [Loops -> [step : {"none", "waiting", "writing"}, role : Roles, draining : BOOLEAN]]
    /\ inFlight \in Loops \cup {"none"}
    /\ row \in [Roles -> {"none", "alive", "draining"}]
    /\ at \in [role : Roles, offset : 0 .. NTenants, handled : 0 .. Budget]
    /\ cursor \in [Roles -> Tenants]
    /\ tracked \subseteq Leases
    /\ entry \in [Keys -> Leases \cup {"none"}]
    /\ displaced \subseteq tracked
    /\ drain \in [Detached -> {"open", "aborting", "joining"}]
    /\ joined \subseteq Leases
    /\ drainFailed \in BOOLEAN
    /\ faults \in [Faults -> 0 .. MaxFaults]

(* A process that has announced its shutdown is never reported alive again: *)
(* no heartbeat that was under way, or waiting, when the signal came can    *)
(* overwrite the announcement, so readiness stops counting on it.           *)
StaysDraining == \A r \in Roles : row[r] = "draining" => row'[r] = "draining"
DrainingIsFinal == [][StaysDraining]_vars

(* A process that stops has announced it for every role, unless writing a   *)
(* heartbeat, its own or the one it waited for, has failed.                 *)
StopIsAnnounced ==
    pc["main"] = "stopped" /\ faults["heartbeat"] = 0 => \A r \in Roles : row[r] = "draining"

(* run() does not return, and the caller does not close the database, while *)
(* detached work goes on, unless some of it has thrown, except for work     *)
(* that a later lease of the same run put out of the map.                   *)
OnlyDisplacedIsLeft == pc["main"] = "stopped" /\ ~ drainFailed => tracked \subseteq displaced

(* The same without the exception, which is what DR-013 and the comment on  *)
(* processTenantDetached promise.  The code does not keep it.               *)
NothingLeftRunning == pc["main"] = "stopped" /\ ~ drainFailed => tracked = {}

(* No tenant is starved by busy tenants before it, by the role's budget or  *)
(* by a tenant whose processing always throws (DR-014).                     *)
EveryTenantGetsATurn ==
    \A r \in Roles, t \in Tenants :
        []<>(pc["main"] = "processing" /\ at.role = r /\ Tenant = t) \/ <>aborted

(* A shutdown ends, whatever was under way when the signal came.            *)
ShutdownEnds == aborted ~> pc["main"] = "stopped"
=============================================================================
