---------------------------- MODULE TaskCommands ----------------------------
(***************************************************************************)
(* Task packages: published to be claimed or assigned to a person, worked  *)
(* on, handed over, kept as templates.                                     *)
(*                                                                         *)
(* Every operation reads the package in one transaction, the handoffs or   *)
(* the people in others, decides, and writes in a last one that compares   *)
(* the package's version.  Any number of operations run at once.           *)
(*                                                                         *)
(* A client names the version it has seen, and an operation is refused     *)
(* unless it reads that very version: that is why none is an input here.   *)
(* Who may call an operation is left out: it depends on nothing an         *)
(* operation changes but the assignee it has read.                         *)
(***************************************************************************)
EXTENDS Naturals, Sequences, FiniteSets

CONSTANTS
    Packages,
    People,         \* the active members of the tenant
    NoOne,
    Runs,           \* runs of the agent; a retry has the run of the first try
    NoRun,          \* of an operation a person does himself
    Callers,        \* operations under way
    MaxVersion,     \* bound: versions of a package
    MaxHandoffs     \* bound: rows of work_task_handoffs

ASSUME NobodyAssumption == NoOne \notin People /\ NoRun \notin Runs
ASSUME BoundAssumption == {MaxVersion, MaxHandoffs} \subseteq Nat

VARIABLES
    package,    \* work_packages
    handoffs,   \* work_task_handoffs, by created_at
    request

vars == <<package, handoffs, request>>

Held == {"claimed", "assigned", "in_progress", "blocked"}
Over == {"completed", "cancelled"}
Statuses == {"absent", "published", "in_review"} \cup Held \cup Over
PackageRows == [mode : {"direct", "open_claim"}, status : Statuses, assignee : People \cup {NoOne},
                evidence : BOOLEAN, template : BOOLEAN, version : Nat]
Handoffs == [package : Packages, version : Nat, from : People, to : People,
             status : {"pending", "accepted", "rejected"}, run : Runs \cup {NoRun},
             responseRun : Runs \cup {NoRun}]
Requests == [pc : {"idle", "claim", "template", "listHandoffs", "transition", "checkPending",
                   "insertHandoff", "respond"},
             package : Packages, seen : PackageRows, handoff : Nat]

(* The constraints of the table work_packages.                             *)
RowIsLegal(v) ==
    /\ v.mode = "direct" => v.assignee # NoOne /\ v.status # "published"
    /\ v.status = "published" => v.mode = "open_claim" /\ v.assignee = NoOne
    /\ v.status = "completed" => v.evidence

NoPackage == [mode |-> "open_claim", status |-> "absent", assignee |-> NoOne,
              evidence |-> FALSE, template |-> FALSE, version |-> 0]
NoRequest == [pc |-> "idle", package |-> CHOOSE p \in Packages : TRUE,
              seen |-> NoPackage, handoff |-> 0]

Init ==
    /\ package = [p \in Packages |-> NoPackage]
    /\ handoffs = <<>>
    /\ request = [c \in Callers |-> NoRequest]

At(c, pc) == request[c].pc = pc
Becomes(c, r) == request' = [request EXCEPT ![c] = r]
Goes(c, pc) == request' = [request EXCEPT ![c].pc = pc]
Ends(c) == Becomes(c, NoRequest)
Refused(c) == Ends(c) /\ UNCHANGED <<package, handoffs>>
Pending(p) == {i \in DOMAIN handoffs : handoffs[i].package = p /\ handoffs[i].status = "pending"}

-----------------------------------------------------------------------------
(* publishMission(), createTaskTemplate(): one transaction.  A run that    *)
(* has published is answered with what it published.                       *)
Publish(p) ==
    /\ package[p].status = "absent"
    /\ \E a \in People \cup {NoOne}, t \in BOOLEAN :
          package' = [package EXCEPT ![p] =
              [mode |-> IF a = NoOne THEN "open_claim" ELSE "direct",
               status |-> IF a = NoOne THEN "published" ELSE "assigned",
               assignee |-> a, evidence |-> FALSE, template |-> t, version |-> 1]]
    /\ UNCHANGED <<handoffs, request>>

(* Every operation starts by reading its package.  What else the caller    *)
(* wants is chosen below where it is first written.                        *)
Reads(c, pc, p) ==
    /\ At(c, "idle")
    /\ package[p].version \in 1..(MaxVersion - 1)
    /\ Becomes(c, [NoRequest EXCEPT !.pc = pc, !.package = p, !.seen = package[p]])
    /\ UNCHANGED <<package, handoffs>>
Seen(c) == request[c].seen

(* Slip: the row is replaced by its key.                                   *)
ReplacesByKey(c, next) ==
    /\ IF RowIsLegal(next)
       THEN package' = [package EXCEPT ![request[c].package] =
                            [next EXCEPT !.version = Seen(c).version + 1]]
       ELSE UNCHANGED package
    /\ Ends(c)
    /\ UNCHANGED handoffs

(* updatePackage(): the row is replaced if it still is the one that was    *)
(* read and the table accepts the new one.                                 *)
Replaces(c, next) ==
    LET p == request[c].package IN
    /\ IF package[p].version = Seen(c).version /\ RowIsLegal(next)
       THEN package' = [package EXCEPT ![p] = [next EXCEPT !.version = Seen(c).version + 1]]
       ELSE UNCHANGED package
    /\ Ends(c)
    /\ UNCHANGED handoffs

(* claimPackage(): whoever belongs to the scope of the package.            *)
Claimable(v) == v.mode = "open_claim" /\ v.status = "published" /\ v.assignee = NoOne
ReadToClaim(c) == \E p \in Packages : Claimable(package[p]) /\ Reads(c, "claim", p)
Claim(c) ==
    /\ At(c, "claim")
    /\ \E a \in People :
          IF Claimable(package[request[c].package])
          THEN Replaces(c, [Seen(c) EXCEPT !.assignee = a, !.status = "claimed"])
          ELSE Refused(c)

(* updateTaskTemplate(): any field, but never the status.  The mission's   *)
(* version, compared as well, moves whenever the package's does here.      *)
ReadTemplate(c) == \E p \in Packages : package[p].template /\ Reads(c, "template", p)
UpdateTemplate(c) ==
    /\ At(c, "template")
    /\ \E a \in People \cup {NoOne} :
          Replaces(c, [Seen(c) EXCEPT !.mode = IF a = NoOne THEN "open_claim" ELSE "direct",
                                      !.assignee = a])

(* transitionPackage().  Evidence is kept, or replaced by what is given,   *)
(* which may be nothing.                                                   *)
Transitions(s) ==
    CASE s = "published" -> {"claimed", "cancelled"}
      [] s \in {"assigned", "claimed", "blocked"} -> {"in_progress", "cancelled"}
      [] s = "in_progress" -> {"blocked", "in_review", "completed", "cancelled"}
      [] s = "in_review" -> {"in_progress", "completed", "cancelled"}
      [] OTHER -> {}

ReadToTransition(c) ==
    \E p \in Packages : Transitions(package[p].status) # {} /\ Reads(c, "listHandoffs", p)

ListHandoffs(c) ==
    /\ At(c, "listHandoffs")
    /\ IF Pending(request[c].package) # {} THEN Ends(c) ELSE Goes(c, "transition")
    /\ UNCHANGED <<package, handoffs>>

Transition(c) ==
    /\ At(c, "transition")
    /\ \E s \in Transitions(Seen(c).status), e \in BOOLEAN :
          /\ s \in {"in_review", "completed"} => Seen(c).evidence \/ e
          /\ Replaces(c, [Seen(c) EXCEPT !.status = s, !.evidence = e])

-----------------------------------------------------------------------------
(* initiateTaskHandoff(): the package is read, then the handoffs, and a    *)
(* row with a snapshot of the package is inserted.                         *)
Transferable(v) == v.status \in Held /\ v.assignee # NoOne
ReadToHandOff(c) == \E p \in Packages : Transferable(package[p]) /\ Reads(c, "checkPending", p)

CheckPending(c) ==
    /\ At(c, "checkPending")
    /\ IF Pending(request[c].package) # {} THEN Ends(c) ELSE Goes(c, "insertHandoff")
    /\ UNCHANGED <<package, handoffs>>

(* One pending row for a package, one row for a run; a run that has one is *)
(* answered with that row, whatever package it is about.                   *)
Conflicts(p, run) ==
    Pending(p) # {} \/ (run # NoRun /\ \E i \in DOMAIN handoffs : handoffs[i].run = run)

InsertHandoff(c) ==
    /\ At(c, "insertHandoff")
    /\ LET p == request[c].package IN
       \E b \in People \ {Seen(c).assignee}, run \in Runs \cup {NoRun} :
          IF Conflicts(p, run) THEN UNCHANGED handoffs
          ELSE /\ Len(handoffs) < MaxHandoffs
               /\ handoffs' = Append(handoffs,
                      [package |-> p, version |-> Seen(c).version, from |-> Seen(c).assignee,
                       to |-> b, status |-> "pending", run |-> run, responseRun |-> NoRun])
    /\ Ends(c)
    /\ UNCHANGED package

(* respondToTaskHandoff(): a pending handoff is read, then the package.    *)
(* Whoever the handoff is not for is refused at once; that the handoff has *)
(* been answered before the package is read is found at the end.           *)
AsFrozen(h, v) == v.version = h.version /\ v.assignee = h.from

ReadHandoff(c) ==
    /\ At(c, "idle")
    /\ \E i \in DOMAIN handoffs :
          LET v == package[handoffs[i].package] IN
          /\ handoffs[i].status = "pending"
          /\ AsFrozen(handoffs[i], v) /\ v.version < MaxVersion
          /\ Becomes(c, [pc |-> "respond", package |-> handoffs[i].package, seen |-> v, handoff |-> i])
    /\ UNCHANGED <<package, handoffs>>

Answers(i, d, run) == handoffs' = [handoffs EXCEPT ![i].status = d, ![i].responseRun = run]

(* Slip: the package is compared before the transaction only.              *)
MayAnswerLate(c, run) ==
    /\ AsFrozen(handoffs[request[c].handoff], Seen(c))
    /\ run # NoRun => \A i \in DOMAIN handoffs : handoffs[i].responseRun # run

(* A run answers one handoff only; the row must not have moved.            *)
MayAnswer(c, run) ==
    /\ AsFrozen(handoffs[request[c].handoff], Seen(c))
    /\ package[request[c].package].version = Seen(c).version
    /\ run # NoRun => \A i \in DOMAIN handoffs : handoffs[i].responseRun # run

HandedOver(v, a) == [v EXCEPT !.assignee = a, !.version = @ + 1]

(* One transaction: the answer, by the one who finds the row pending, and  *)
(* with an acceptance the new assignee.                                    *)
Respond(c) ==
    /\ At(c, "respond")
    /\ LET i == request[c].handoff  p == request[c].package IN
       \E d \in {"accepted", "rejected"}, run \in Runs \cup {NoRun} :
          IF handoffs[i].status = "pending" /\ MayAnswer(c, run)
          THEN /\ Answers(i, d, run)
               /\ IF d = "accepted"
                  THEN package' = [package EXCEPT ![p] = HandedOver(Seen(c), handoffs[i].to)]
                  ELSE UNCHANGED package
          ELSE UNCHANGED <<package, handoffs>>
    /\ Ends(c)

(* The caller's process dies, or the caller gives up: nothing of a         *)
(* transaction that has not committed remains.                             *)
Crash(c) == ~At(c, "idle") /\ Refused(c)

-----------------------------------------------------------------------------
Next ==
    \/ \E p \in Packages : Publish(p)
    \/ \E c \in Callers :
          \/ ReadToClaim(c) \/ Claim(c) \/ ReadTemplate(c) \/ UpdateTemplate(c)
          \/ ReadToTransition(c) \/ ListHandoffs(c) \/ Transition(c)
          \/ ReadToHandOff(c) \/ CheckPending(c) \/ InsertHandoff(c)
          \/ ReadHandoff(c) \/ Respond(c) \/ Crash(c)

Spec == Init /\ [][Next]_vars

-----------------------------------------------------------------------------
(* The rows are rows of their tables, and the constraints of work_packages *)
(* hold: a published package is open and nobody's, an assigned one         *)
(* somebody's, a completed one has evidence.                               *)
TypeOK ==
    /\ package \in [Packages -> {v \in PackageRows : RowIsLegal(v)}]
    /\ handoffs \in Seq(Handoffs)
    /\ request \in [Callers -> Requests \cup {NoRequest}]

(* The accepted handoffs of a task are a chain: each starts with the one   *)
(* whom the one before ended with, at a later version, and the last ended  *)
(* with the assignee; at most one more is pending.  Responsibility has no  *)
(* gap and no fork, whoever claims, works on or hands over the task at the *)
(* same time.                                                              *)
Accepted(p) == {i \in DOMAIN handoffs : handoffs[i].package = p /\ handoffs[i].status = "accepted"}
Continues(i, j) == handoffs[i].to = handoffs[j].from /\ handoffs[i].version < handoffs[j].version
ChainUnbroken ==
    \A p \in Packages :
        /\ \A i, j \in Pending(p) : i = j
        /\ ~package[p].template => \A i \in Accepted(p) :
              /\ \A j \in Accepted(p) :
                    i < j /\ (\A k \in Accepted(p) : ~(i < k /\ k < j)) => Continues(i, j)
              /\ (\A j \in Accepted(p) : j <= i) => handoffs[i].to = package[p].assignee

(* A handoff is accepted only of the package as it was frozen, and the     *)
(* acceptance changes the assignee with it, although the package was read  *)
(* before and is compared again afterwards.                                *)
AcceptsAsFrozen(i) ==
    (i \in DOMAIN handoffs /\ handoffs[i].status = "pending" /\ handoffs'[i].status = "accepted") =>
        /\ AsFrozen(handoffs[i], package[handoffs[i].package])
        /\ package'[handoffs[i].package] =
              HandedOver(package[handoffs[i].package], handoffs[i].to)
AcceptedAsFrozen == [][\A i \in 1..MaxHandoffs : AcceptsAsFrozen(i)]_vars

(* Tasks pass from hand to hand as TaskCustody says.  Templates are not    *)
(* tasks.                                                                  *)
IsTask(p) == package[p].status # "absent" /\ ~package[p].template
PhaseOf(p) ==
    CASE ~IsTask(p) -> "absent"
      [] IsTask(p) /\ package[p].status = "published" -> "open"
      [] IsTask(p) /\ package[p].status \in Over -> "over"
      [] OTHER -> "taken"
HolderOf(p) == IF IsTask(p) THEN package[p].assignee ELSE NoOne
OfferOf(p) ==
    IF IsTask(p) /\ Pending(p) # {}
    THEN LET i == CHOOSE i \in Pending(p) : TRUE IN [from |-> handoffs[i].from, to |-> handoffs[i].to]
    ELSE [from |-> NoOne, to |-> NoOne]
Custody == INSTANCE TaskCustody WITH
    Tasks <- Packages,
    phase <- [p \in Packages |-> PhaseOf(p)],
    holder <- [p \in Packages |-> HolderOf(p)],
    offer <- [p \in Packages |-> OfferOf(p)]
ImplementsCustody == Custody!Spec

-----------------------------------------------------------------------------
(* Departures: what the documentation says of tasks and the code does not  *)
(* ensure.                                                                 *)

(* While a handoff is pending, the version and the status of its task are  *)
(* frozen (docs/18-work-command-center.md, 2.1 and 6).  The operation that *)
(* moves the task looks for a pending handoff first and writes later: in   *)
(* between the handoff is inserted.  It can then neither be accepted nor   *)
(* rejected, and while it is pending the task cannot move.                 *)
PendingIsFrozen ==
    \A i \in DOMAIN handoffs : handoffs[i].status = "pending" =>
        AsFrozen(handoffs[i], package[handoffs[i].package])

(* A template is never claimed nor worked on (docs/18, 1).                 *)
TemplatesRest ==
    \A p \in Packages : package[p].template => package[p].status \in {"published", "assigned"}

(* A package that is claimed is somebody's.                                *)
ClaimedIsSomebodys ==
    \A p \in Packages : package[p].status = "claimed" => package[p].assignee # NoOne
=============================================================================
