---------------------------- MODULE PiWorkspaces ----------------------------
(***************************************************************************)
(* The workspace supervisor: the process that holds the credentials of the *)
(* Git host and the object store, and keeps checkouts, credential leases,  *)
(* artifacts and download grants on behalf of the platform.                *)
(*                                                                         *)
(* An instance works on what it has in memory and, after every change,     *)
(* writes the changed tenant's part of it to that tenant's row.  A row has *)
(* an owner for as long as a lease on it lasts, and a version; a write     *)
(* compares both.  Requests overlap: each looks at the memory, waits for   *)
(* Git or the object store, changes the memory, and waits for its write in *)
(* the instance's queue.                                                   *)
(***************************************************************************)
EXTENDS Naturals, Sequences

CONSTANTS
    Tenants,
    Instances,      \* processes with one state id; they share the root directory
    Named,          \* the instances whose owner id is configured and survives a restart
    Slots,          \* requests under way
    Leases, Workspaces, Objects, Grants,
    TenantOf,       \* the tenant in the scope of an item
    LeaseOf,        \* the credential lease that a workspace is prepared and used under
    ObjectOf,       \* the artifact that a download grant is for
    MaxCalls,       \* bound: requests
    MaxStarts,      \* bound: starts of a process
    MaxMishaps       \* bound: crashes and failed calls of Git, the object store or the database

Items == Leases \cup Workspaces \cup Objects \cup Grants

ASSUME ItemAssumption ==
    /\ Leases \cap (Workspaces \cup Objects \cup Grants) = {}
    /\ Workspaces \cap (Objects \cup Grants) = {} /\ Objects \cap Grants = {} /\ "none" \notin Items
    /\ TenantOf \in [Items -> Tenants]
    /\ LeaseOf \in [Workspaces -> Leases] /\ \A w \in Workspaces : TenantOf[LeaseOf[w]] = TenantOf[w]
    /\ ObjectOf \in [Grants -> Objects] /\ \A g \in Grants : TenantOf[ObjectOf[g]] = TenantOf[g]
ASSUME OwnerAssumption == Named \subseteq Instances /\ {"none", "gone"} \cap Instances = {}
ASSUME BoundAssumption == {MaxCalls, MaxStarts, MaxMishaps} \subseteq Nat

VARIABLES
    record, version, owner, live,   \* pi_workspace_supervisor_states, by tenant; version 0 without a row
    listed,                         \* the tenants there are
    disk,                           \* the checkouts under the root directory
    phase, mem, failed,             \* an instance: its maps, and whether it has given up (stateFailure)
    owned, seen,                    \* its state store: ownedTenants and versions
    queue, snap, todo,              \* its writes: waiting, the state being written, tenants yet to write
    job,
    expired, ids, known,           \* leases and grants whose time is over; ids taken; ids callers have heard of
    owed, withdrawn, forfeited,     \* history, see the properties
    calls, starts, mishaps

rowVars == <<record, version, owner, live>>
storeVars == <<owned, seen>>
saveVars == <<queue, snap, todo>>
instanceVars == <<phase, mem, failed, storeVars, saveVars>>
worldVars == <<listed, disk, expired, ids, known>>
wsHistoryVars == <<owed, withdrawn, forfeited>>
countVars == <<calls, starts, mishaps>>
wsVars == <<rowVars, instanceVars, worldVars, job, wsHistoryVars, countVars>>

Adding == {"issue", "prepare", "put", "grant"}
Removing == {"revoke", "cleanup", "delete", "ungrant"}
NoJob == [pc |-> "idle", at |-> "none", op |-> "none", item |-> "none", taken |-> {}, clash |-> FALSE]

WsInit ==
    /\ record = [t \in Tenants |-> {}] /\ version = [t \in Tenants |-> 0]
    /\ owner = [t \in Tenants |-> "none"] /\ live = [t \in Tenants |-> FALSE]
    /\ listed \in SUBSET Tenants /\ disk = {}
    /\ phase = [i \in Instances |-> "down"] /\ mem = [i \in Instances |-> {}]
    /\ failed = [i \in Instances |-> FALSE]
    /\ owned = [i \in Instances |-> {}] /\ seen = [i \in Instances |-> [t \in Tenants |-> 0]]
    /\ queue = [i \in Instances |-> <<>>] /\ snap = [i \in Instances |-> {}]
    /\ todo = [i \in Instances |-> {}]
    /\ job = [q \in Slots |-> NoJob]
    /\ expired = {} /\ ids = {} /\ known = {}
    /\ owed = {} /\ withdrawn = {} /\ forfeited = {}
    /\ calls = 0 /\ starts = 0 /\ mishaps = 0

Mishap == mishaps < MaxMishaps /\ mishaps' = mishaps + 1

(* What any start would find.                                              *)
Recorded == UNION {record[t] : t \in Tenants}

-----------------------------------------------------------------------------
(* The state store.                                                        *)

Held(i, t) == owner[t] = i /\ live[t]
Claimable(i, t) == (owner[t] \in {"none", i} \/ ~live[t]) /\ phase[i] # "closing"

(* claimTenant(): the row's version is taken over with its owner.          *)
Claim(i, t) ==
    /\ Claimable(i, t)
    /\ owner' = [owner EXCEPT ![t] = i] /\ live' = [live EXCEPT ![t] = TRUE]
    /\ version' = [version EXCEPT ![t] = IF @ = 0 THEN 1 ELSE @]
    /\ owned' = [owned EXCEPT ![i] = @ \cup {t}]
    /\ seen' = [seen EXCEPT ![i][t] = version'[t]]
    /\ UNCHANGED record

(* stateForTenant(): a grant goes with its object.                         *)
Slice(S, t) == {x \in S : TenantOf[x] = t /\ (x \in Grants => ObjectOf[x] \in S)}

\* Slip: the version and the owner are not compared.
MayWriteStale(i, t) == phase[i] # "closing"
MayWrite(i, t) == Held(i, t) /\ version[t] = seen[i][t] /\ phase[i] # "closing"

(* What the UPDATE of save() does, and whether the instance hears of it.   *)
Write(i, t) ==
    /\ record' = [record EXCEPT ![t] = Slice(snap[i], t)]
    /\ version' = [version EXCEPT ![t] = @ + 1]
    /\ UNCHANGED <<owner, live>>

-----------------------------------------------------------------------------
(* Starting and stopping.                                                  *)

Listening(i) == phase[i] \in {"up", "closing"}

(* A process that ends takes its requests and, unless it is configured,    *)
(* the only owner id that its rows would yield to with it.                 *)
Down(i) ==
    /\ phase' = [phase EXCEPT ![i] = "down"]
    /\ mem' = [mem EXCEPT ![i] = {}] /\ failed' = [failed EXCEPT ![i] = FALSE]
    /\ owned' = [owned EXCEPT ![i] = {}] /\ seen' = [seen EXCEPT ![i] = [t \in Tenants |-> 0]]
    /\ queue' = [queue EXCEPT ![i] = <<>>] /\ snap' = [snap EXCEPT ![i] = {}]
    /\ todo' = [todo EXCEPT ![i] = {}]
    /\ job' = [q \in Slots |-> IF job[q].at = i THEN NoJob ELSE job[q]]
    /\ owner' = [t \in Tenants |-> IF owner[t] = i /\ i \notin Named THEN "gone" ELSE owner[t]]
    /\ UNCHANGED <<record, version, live, worldVars, wsHistoryVars, calls, starts>>

StartInstance(i) ==
    /\ phase[i] = "down" /\ starts < MaxStarts
    /\ phase' = [phase EXCEPT ![i] = "loading"]
    /\ todo' = [todo EXCEPT ![i] = listed]
    /\ starts' = starts + 1
    /\ UNCHANGED <<rowVars, mem, failed, storeVars, queue, snap, worldVars, job, wsHistoryVars, calls, mishaps>>

(* load(): one tenant after the other.                                     *)
Load(i, t) ==
    /\ phase[i] = "loading" /\ t \in todo[i]
    /\ Claim(i, t)
    /\ mem' = [mem EXCEPT ![i] = @ \cup record[t]]
    /\ todo' = [todo EXCEPT ![i] = @ \ {t}]
    /\ UNCHANGED <<phase, failed, queue, snap, worldVars, job, wsHistoryVars, countVars>>

LoadRefused(i, t) ==
    /\ phase[i] = "loading" /\ t \in todo[i] /\ ~Claimable(i, t)
    /\ Down(i) /\ UNCHANGED mishaps

(* restoreState(): leases and grants that are over are dropped, and        *)
(* checkouts that are gone or that Git does not answer for; then every row *)
(* is written.                                                             *)
Restore(i, doubtful) ==
    /\ phase[i] = "loading" /\ todo[i] = {}
    /\ doubtful \subseteq mem[i] \cap disk
    /\ IF doubtful = {} THEN UNCHANGED mishaps ELSE Mishap
    /\ mem' = [mem EXCEPT ![i] = @ \ (expired \cup (Workspaces \ disk) \cup doubtful)]
    /\ snap' = [snap EXCEPT ![i] = mem'[i]]
    /\ todo' = [todo EXCEPT ![i] = owned[i]]
    /\ phase' = [phase EXCEPT ![i] = "restoring"]
    /\ forfeited' = forfeited \cup doubtful
    /\ UNCHANGED <<rowVars, failed, storeVars, queue, worldVars, job, owed, withdrawn, calls, starts>>

(* renew(): every row must still be this instance's.                       *)
AllHeld(i) == \A t \in owned[i] : Held(i, t)

Listen(i) ==
    /\ phase[i] = "restoring" /\ todo[i] = {} /\ AllHeld(i)
    /\ phase' = [phase EXCEPT ![i] = "up"]
    /\ UNCHANGED <<rowVars, mem, failed, storeVars, saveVars, worldVars, job, wsHistoryVars, countVars>>

GiveUpStart(i) ==
    /\ phase[i] = "restoring"
    /\ ~AllHeld(i)
    /\ Down(i) /\ UNCHANGED mishaps

(* A signal: close() releases the rows, and the database is closed.  The   *)
(* server stops only then: requests still come in, and ready(), with no    *)
(* row left to renew, lets them pass.                                      *)
Close(i) ==
    /\ phase[i] = "up"
    /\ phase' = [phase EXCEPT ![i] = "closing"]
    /\ owner' = [t \in Tenants |-> IF t \in owned[i] /\ owner[t] = i THEN "none" ELSE owner[t]]
    /\ live' = [t \in Tenants |-> IF t \in owned[i] /\ owner[t] = i THEN FALSE ELSE live[t]]
    /\ owned' = [owned EXCEPT ![i] = {}] /\ seen' = [seen EXCEPT ![i] = [t \in Tenants |-> 0]]
    /\ UNCHANGED <<record, version, mem, failed, saveVars, worldVars, job, wsHistoryVars, countVars>>

ExitInstance(i) ==
    /\ phase[i] = "closing" /\ \A q \in Slots : job[q].at # i
    /\ Down(i) /\ UNCHANGED mishaps

CrashInstance(i) == phase[i] # "down" /\ Down(i) /\ Mishap

-----------------------------------------------------------------------------
(* Requests.                                                               *)

At(q) == job[q].at
OpOf(q) == job[q].op
Item(q) == job[q].item
Goes(q, pc) == job' = [job EXCEPT ![q].pc = pc]
Answer(q) == job' = [job EXCEPT ![q] = NoJob]

(* What an operation takes away, besides what it is about.                 *)
Gone(op, x) ==
    CASE op = "cleanup" -> {x, LeaseOf[x]}
      [] op = "delete" -> {x} \cup {g \in Grants : ObjectOf[g] = x}
      [] op \in {"revoke", "ungrant"} -> {x}
      [] OTHER -> {}
GoneIn(r) == Gone(r.op, r.item)
Leaving == UNION {GoneIn(job[p]) : p \in Slots}

Calls ==
    [op : {"issue", "revoke"}, item : Leases] \cup [op : {"prepare", "use", "cleanup"}, item : Workspaces] \cup
    [op : {"put", "delete"}, item : Objects] \cup [op : {"grant", "ungrant", "download"}, item : Grants]
Jobs ==
    {NoJob} \cup [pc : {"called", "out", "back", "queued", "saving", "undo"}, at : Instances,
                op : Adding \cup Removing \cup {"use", "download"}, item : Items,
                taken : SUBSET Items, clash : BOOLEAN]
GivesId(op) == op \in {"issue", "prepare", "grant"}

(* A request arrives and ready() lets it pass.  Ids are random, but those  *)
(* of objects, which the caller names.                                     *)
Arrive(q, i, c) ==
    /\ job[q].pc = "idle" /\ Listening(i) /\ calls < MaxCalls
    /\ ~failed[i] /\ AllHeld(i)
    /\ TenantOf[c.item] \in listed
    /\ IF GivesId(c.op) THEN c.item \notin ids ELSE c.op = "put" \/ c.item \in known
    /\ job' = [p \in Slots |->
                  IF p = q THEN [pc |-> "called", at |-> i, op |-> c.op, item |-> c.item, taken |-> {},
                                 clash |-> c.item \in Leaving]
                  ELSE [job[p] EXCEPT !.clash = @ \/ Item(p) \in Gone(c.op, c.item)]]
    /\ c.op = "prepare" => LeaseOf[c.item] \in known
    /\ ids' = ids \cup {c.item}
    /\ owed' = owed \ Gone(c.op, c.item)
    /\ calls' = calls + 1
    /\ UNCHANGED <<rowVars, instanceVars, listed, disk, expired, known, withdrawn, forfeited, starts, mishaps>>

(* ready() finds a row that is no longer this instance's, and remembers.   *)
RenewFails(i) ==
    /\ Listening(i) /\ ~failed[i] /\ ~AllHeld(i)
    /\ failed' = [failed EXCEPT ![i] = TRUE]
    /\ UNCHANGED <<rowVars, phase, mem, storeVars, saveVars, worldVars, job, wsHistoryVars, countVars>>

Usable(i, l) == l \in mem[i] /\ l \notin expired

(* The request finds what it needs: getting a workspace, a lease, an       *)
(* object or a grant.                                                      *)
Finds(q) ==
    LET i == At(q) x == Item(q) IN
    CASE OpOf(q) = "prepare" -> Usable(i, LeaseOf[x])
      [] OpOf(q) = "use" -> x \in mem[i] /\ Usable(i, LeaseOf[x])
      [] OpOf(q) = "grant" -> ObjectOf[x] \in mem[i]
      [] OpOf(q) = "download" -> Usable(i, x)
      [] OpOf(q) \in Removing -> x \in mem[i]
      [] OTHER -> TRUE

(* These wait for Git or for the object store.                             *)
GoesOut(q) ==
    \/ OpOf(q) \in {"prepare", "use", "cleanup", "delete", "download"}
    \/ OpOf(q) = "put" /\ Item(q) \notin mem[At(q)]

(* The request changes the maps and queues its write.                      *)
Apply(q) ==
    LET i == At(q) away == GoneIn(job[q]) IN
    /\ mem' = [mem EXCEPT ![i] = (@ \ away) \cup (IF OpOf(q) \in Adding THEN {Item(q)} ELSE {})]
    /\ job' = [job EXCEPT ![q].pc = "queued", ![q].taken = mem[i] \cap away]
    /\ queue' = [queue EXCEPT ![i] = Append(@, q)]

(* What is not found is refused; a credential that is not found is taken   *)
(* for revoked.  A grant that is over is forgotten.  An object that is     *)
(* there already is refused unless it is the same.                         *)
Refuse(q) ==
    /\ job[q].pc = "called" /\ (Finds(q) => OpOf(q) = "put" /\ Item(q) \in mem[At(q)])
    /\ mem' = [mem EXCEPT ![At(q)] = IF OpOf(q) = "download" THEN @ \ {Item(q)} ELSE @]
    /\ Answer(q)
    /\ UNCHANGED <<rowVars, phase, failed, storeVars, saveVars, worldVars, wsHistoryVars, countVars>>

GoOut(q) ==
    /\ job[q].pc = "called" /\ Finds(q) /\ GoesOut(q)
    /\ Goes(q, "out")
    /\ UNCHANGED <<rowVars, instanceVars, worldVars, wsHistoryVars, countVars>>

Touch(q) ==
    /\ job[q].pc = "called" /\ Finds(q) /\ ~GoesOut(q)
    /\ Apply(q)
    /\ UNCHANGED <<rowVars, phase, failed, storeVars, snap, todo, worldVars, wsHistoryVars, countVars>>

(* Git clones, works in, or removes the checkout; the object store obeys.  *)
Outside(q) ==
    /\ job[q].pc = "out" /\ (OpOf(q) = "use" => Item(q) \in disk)
    /\ disk' = CASE OpOf(q) = "prepare" -> disk \cup {Item(q)}
                 [] OpOf(q) = "cleanup" -> disk \ {Item(q)}
                 [] OTHER -> disk
    /\ Goes(q, "back")
    /\ UNCHANGED <<rowVars, instanceVars, listed, expired, ids, known, wsHistoryVars, countVars>>

(* The call fails; a checkout that a clone has left behind is removed.     *)
OutsideFails(q) ==
    /\ job[q].pc = "out"
    /\ IF OpOf(q) = "use" /\ Item(q) \notin disk THEN UNCHANGED mishaps ELSE Mishap
    /\ Answer(q)
    /\ UNCHANGED <<rowVars, instanceVars, worldVars, wsHistoryVars, calls, starts>>

Land(q) ==
    /\ job[q].pc = "back"
    /\ Apply(q)
    /\ UNCHANGED <<rowVars, phase, failed, storeVars, snap, todo, worldVars, wsHistoryVars, countVars>>

-----------------------------------------------------------------------------
(* The queue of writes.                                                    *)

First(q) == queue[At(q)] # <<>> /\ Head(queue[At(q)]) = q
Pop(q) == queue' = [queue EXCEPT ![At(q)] = Tail(@)]

(* persistState(): the state is taken when the write's turn comes.  A      *)
(* download names no tenant: all rows are written.                         *)
BeginSave(q) ==
    LET i == At(q) IN
    /\ job[q].pc = "queued" /\ First(q)
    /\ snap' = [snap EXCEPT ![i] = mem[i]]
    /\ todo' = [todo EXCEPT ![i] = IF OpOf(q) = "download" THEN owned[i] ELSE {TenantOf[Item(q)]}]
    /\ Goes(q, "saving")
    /\ UNCHANGED <<rowVars, phase, mem, failed, storeVars, queue, worldVars, wsHistoryVars, countVars>>

(* The tenant is not among those loaded: save() claims its row, whose      *)
(* state it does not look at.                                              *)
ClaimLate(q, t) ==
    LET i == At(q) IN
    /\ job[q].pc = "saving" /\ t \in todo[i] \ owned[i]
    /\ Claim(i, t)
    /\ forfeited' = forfeited \cup (record[t] \ snap[i])
    /\ UNCHANGED <<phase, mem, failed, saveVars, worldVars, job, owed, withdrawn, countVars>>

(* The UPDATE of save(), also of the one that ends a restore.              *)
Saving(i) == phase[i] = "restoring" \/ \E q \in Slots : At(q) = i /\ job[q].pc = "saving"

Save(i, t) ==
    /\ Saving(i) /\ t \in todo[i] \cap owned[i] /\ MayWrite(i, t)
    /\ Write(i, t)
    /\ seen' = [seen EXCEPT ![i][t] = @ + 1]
    /\ todo' = [todo EXCEPT ![i] = @ \ {t}]
    /\ UNCHANGED <<phase, mem, failed, owned, queue, snap, worldVars, job, wsHistoryVars, countVars>>

(* The write is done and the request answered.                             *)
EndSave(q) ==
    /\ job[q].pc = "saving" /\ todo[At(q)] = {}
    /\ Answer(q) /\ Pop(q)
    /\ owed' = owed \cup (IF OpOf(q) \in Adding /\ ~job[q].clash THEN {Item(q)} ELSE {})
    /\ withdrawn' = withdrawn \cup (job[q].taken \ Objects)
    /\ known' = known \cup {Item(q)}
    /\ UNCHANGED <<rowVars, phase, mem, failed, storeVars, snap, todo, listed, disk, expired, ids, forfeited, countVars>>

(* The row is not to be had, or the database fails, perhaps after the      *)
(* write.  The next write is not held up.                                  *)
Refused(i, t) == IF t \in owned[i] THEN ~MayWrite(i, t) ELSE ~Claimable(i, t)

FailSave(q, t, written) ==
    LET i == At(q) IN
    /\ job[q].pc = "saving" /\ t \in todo[i]
    /\ IF Refused(i, t) THEN UNCHANGED mishaps ELSE Mishap
    /\ IF written THEN t \in owned[i] /\ MayWrite(i, t) /\ Write(i, t) ELSE UNCHANGED rowVars
    /\ failed' = [failed EXCEPT ![i] = TRUE]
    /\ IF OpOf(q) \in {"issue", "revoke", "prepare"} THEN Goes(q, "undo") ELSE Answer(q)
    /\ Pop(q)
    /\ todo' = [todo EXCEPT ![i] = {}]
    /\ UNCHANGED <<phase, mem, storeVars, snap, worldVars, wsHistoryVars, calls, starts>>

\* Slip: the memory is set back to what was to be written, with all that came in since.
TakeBackAll(q) ==
    /\ job[q].pc = "undo"
    /\ mem' = [mem EXCEPT ![At(q)] = snap[At(q)] \ {Item(q)}]
    /\ Answer(q)
    /\ UNCHANGED <<rowVars, phase, failed, storeVars, saveVars, worldVars, wsHistoryVars, countVars>>

(* The request takes its change back; a new checkout only if its lease is  *)
(* good for it.                                                            *)
TakeBack(q) ==
    LET x == Item(q)
        undoes == OpOf(q) = "prepare" => LeaseOf[x] \notin expired
        new == IF OpOf(q) \in Adding /\ undoes THEN {x} ELSE {}
    IN
    /\ job[q].pc = "undo"
    /\ mem' = [mem EXCEPT ![At(q)] = (@ \ new) \cup job[q].taken]
    /\ disk' = disk \ new
    /\ Answer(q)
    /\ UNCHANGED <<rowVars, phase, failed, storeVars, saveVars, listed, expired, ids, known, wsHistoryVars, countVars>>

-----------------------------------------------------------------------------
(* Time, and new tenants.                                                  *)

OwnerExpires(t) ==
    /\ live[t]
    /\ live' = [live EXCEPT ![t] = FALSE]
    /\ UNCHANGED <<record, version, owner, instanceVars, worldVars, job, wsHistoryVars, countVars>>

ItemExpires(x) ==
    /\ x \in (ids \cap (Leases \cup Grants)) \ expired
    /\ expired' = expired \cup {x}
    /\ UNCHANGED <<rowVars, instanceVars, listed, disk, ids, known, job, wsHistoryVars, countVars>>

OpenTenant(t) ==
    /\ t \notin listed
    /\ listed' = listed \cup {t}
    /\ UNCHANGED <<rowVars, instanceVars, disk, expired, ids, known, job, wsHistoryVars, countVars>>

-----------------------------------------------------------------------------
StartStep(i) ==
    \/ Listen(i) \/ GiveUpStart(i)
    \/ \E t \in Tenants : Load(i, t) \/ LoadRefused(i, t)
    \/ \E doubtful \in SUBSET Workspaces : Restore(i, doubtful)

InstanceStep(i) ==
    \/ StartInstance(i) \/ StartStep(i) \/ Close(i) \/ ExitInstance(i) \/ CrashInstance(i) \/ RenewFails(i)
    \/ \E t \in Tenants : Save(i, t)

RequestStep(q) ==
    \/ Refuse(q) \/ GoOut(q) \/ Touch(q) \/ Outside(q) \/ OutsideFails(q) \/ Land(q)
    \/ BeginSave(q) \/ EndSave(q) \/ TakeBack(q)
    \/ \E t \in Tenants : ClaimLate(q, t) \/ \E written \in BOOLEAN : FailSave(q, t, written)

WsNext ==
    \/ \E i \in Instances : InstanceStep(i)
    \/ \E q \in Slots : RequestStep(q) \/ \E i \in Instances, c \in Calls : Arrive(q, i, c)
    \/ \E t \in Tenants : OwnerExpires(t) \/ OpenTenant(t)
    \/ \E x \in Items : ItemExpires(x)

WsSpec == WsInit /\ [][WsNext]_wsVars

-----------------------------------------------------------------------------
(* Properties.                                                             *)

WsTypeOK ==
    /\ record \in [Tenants -> SUBSET Items] /\ version \in [Tenants -> Nat]
    /\ owner \in [Tenants -> Instances \cup {"none", "gone"}] /\ live \in [Tenants -> BOOLEAN]
    /\ listed \subseteq Tenants /\ disk \subseteq Workspaces
    /\ phase \in [Instances -> {"down", "loading", "restoring", "up", "closing"}]
    /\ mem \in [Instances -> SUBSET Items] /\ failed \in [Instances -> BOOLEAN]
    /\ owned \in [Instances -> SUBSET Tenants] /\ seen \in [Instances -> [Tenants -> Nat]]
    /\ queue \in [Instances -> Seq(Slots)] /\ snap \in [Instances -> SUBSET Items]
    /\ todo \in [Instances -> SUBSET Tenants]
    /\ job \in [Slots -> Jobs]
    /\ expired \subseteq Items /\ ids \subseteq Items /\ known \subseteq Items
    /\ owed \subseteq Items /\ withdrawn \subseteq Items /\ forfeited \subseteq Items
    /\ calls \in Nat /\ starts \in Nat /\ mishaps \in Nat

\* What a caller was told is stored is in a row, and a checkout on the disk, until somebody asks for it
\* to go, its time is over, a start could not make out the checkout, or an instance that had not
\* loaded the row claimed it: whoever else starts, stops, fails or writes in between.
AcknowledgedIsKept ==
    owed \ (expired \cup forfeited) \subseteq Recorded \cap (disk \cup (Items \ Workspaces))

\* A credential, a checkout or a grant whose removal was acknowledged is in no row again, from which a
\* later start would bring it back, although other writes were under way with a state that had it.
WithdrawnStaysAway == withdrawn \cap Recorded = {}

=============================================================================
