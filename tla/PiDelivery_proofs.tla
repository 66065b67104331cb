------------------------ MODULE PiDelivery_proofs ------------------------
(***************************************************************************)
(* What change delivery promises for any number of proposals, requests,    *)
(* workers, rows and faults.                                               *)
(***************************************************************************)
EXTENDS PiDelivery, TLAPS

-----------------------------------------------------------------------------
(* The inductive invariant.                                                *)

GrantedOnce(s) == approval[s] \in {"approved", "expired", "superseded"}

(* A row that waits has not been acted on; a row is acted on once, after a *)
(* grant, and settles as the forge has said, if it has said anything.      *)
Waits(row) == row.status \in {"awaiting_approval", "queued"}
RowFits(i) ==
    /\ Waits(rows[i]) => rows[i].calls = 0
    /\ rows[i].calls = 0 => rows[i].reported = "none"
    /\ rows[i].calls <= 1
    /\ rows[i].calls > 0 => GrantedOnce(rows[i].subject)
    /\ rows[i].subject \in Proposals => SaidSo("pr", "succeeded")
    /\ rows[i].status \in {"succeeded", "failed"} => rows[i].reported = rows[i].status

(* A worker works on a row there is, calls only what was granted and never *)
(* called before, and carries no result but the one the forge reported.    *)
Dispatched(d) == d.pc \notin {"idle", "failed"}
WorkFits(d, row) ==
    /\ d.pc \in {"activate", "claim", "call"} => GrantedOnce(row.subject)
    /\ d.pc \in {"read", "permit", "activate", "claim", "call"} => d.result = "unknown"
    /\ d.pc = "call" => ~Waits(row) /\ row.calls = 0 /\ d.step = 1
    /\ d.result # "unknown" => row.reported = d.result
    /\ d.pc \in {"look", "write"} => d.step \in DOMAIN Touched(row.subject, d.result)
DispatchFits(w) ==
    Dispatched(worker[w]) =>
        worker[w].row \in DOMAIN rows /\ WorkFits(worker[w], rows[worker[w].row])

OneCaller ==
    \A v, w \in Workers :
        worker[v].pc = "call" /\ worker[w].pc = "call" /\ worker[v].row = worker[w].row => v = w

(* A proposal is under way only for a pull request the forge has opened.   *)
RequestFits(c) ==
    /\ At(c, "ask") \/ At(c, "insert") => request[c].subject \in Proposals
    /\ At(c, "ask") \/ At(c, "insert") \/ At(c, "queue") =>
        (request[c].subject \in Proposals => SaidSo("pr", "succeeded"))

EntityFits ==
    /\ \A s \in Proposals : entity[s].status \in {"succeeded", "failed"} => SaidSo(s, entity[s].status)
    /\ entity["pr"].status \in {"open", "merged"} => SaidSo("pr", "succeeded")
    /\ entity["pr"].status = "merged" => \E m \in Merges : SaidSo(m, "succeeded")

DeliveryInv ==
    /\ TypeOK
    /\ Len(rows) <= MaxRows
    /\ \A i \in DOMAIN rows : RowFits(i)
    /\ \A w \in Workers : DispatchFits(w)
    /\ OneCaller
    /\ \A c \in Callers : RequestFits(c)
    /\ EntityFits

-----------------------------------------------------------------------------
(* Types of the parts.                                                     *)

LEMMA RowShape ==
    ASSUME NEW row \in Rows
    PROVE  /\ row.subject \in Subjects
           /\ row.status \in {"awaiting_approval", "queued", "leased", "succeeded", "failed", "unknown"}
           /\ row.version \in Nat /\ row.token \in Nat /\ row.live \in BOOLEAN /\ row.calls \in Nat
           /\ row.reported \in {"succeeded", "failed", "unknown", "none"}
  BY DEF Rows, Results

LEMMA DispatchShape ==
    ASSUME NEW d \in Dispatches
    PROVE  /\ d.pc \in {"idle", "read", "permit", "activate", "claim", "call", "look", "write",
                        "complete", "emit", "failed"}
           /\ d.row \in Nat /\ d.version \in Nat /\ d.token \in Nat /\ d.step \in Nat /\ d.seen \in Nat
           /\ d.result \in {"succeeded", "failed", "unknown"}
           /\ d.again \in BOOLEAN /\ d.acted \in BOOLEAN
  BY DEF Dispatches, Results

LEMMA RowsTyped == TypeOK => \A i \in DOMAIN rows : rows[i] \in Rows
  BY DEF TypeOK

LEMMA WorkersTyped == TypeOK => \A w \in Workers : worker[w] \in Dispatches
  BY DEF TypeOK

LEMMA EntitiesTyped ==
    TypeOK => \A e \in Entities : entity[e].version \in Nat /\ entity[e].status \in StatusesOf(e)
  BY DEF TypeOK

LEMMA NoDispatchTyped == NoDispatch \in Dispatches /\ ~Dispatched(NoDispatch)
  BY DEF NoDispatch, Dispatches, Results, Dispatched

LEMMA NoRequestTyped == NoRequest \in Requests /\ NoRequest.pc = "idle"
  BY DEF NoRequest, Requests, Subjects

LEMMA SeenTyped == TypeOK => Seen \in Nat \X Nat
  BY EntitiesTyped DEF Seen, Entities

(* What a row becomes. *)
LEMMA LeasedRow ==
    ASSUME NEW row \in Rows, NEW token \in Nat
    PROVE  /\ Leased(row, token) \in Rows
           /\ Leased(row, token).status = "leased" /\ Leased(row, token).token = token
           /\ Leased(row, token).subject = row.subject
           /\ Leased(row, token).calls = row.calls /\ Leased(row, token).reported = row.reported
  <1>1. row.version + 1 \in Nat
    BY RowShape
  <1> QED BY <1>1 DEF Leased, Rows

LEMMA QueuedRow ==
    ASSUME NEW row \in Rows
    PROVE  /\ Queued(row) \in Rows
           /\ Queued(row).status = "queued" /\ Queued(row).token = row.token
           /\ Queued(row).subject = row.subject
           /\ Queued(row).calls = row.calls /\ Queued(row).reported = row.reported
  <1>1. row.version + 1 \in Nat
    BY RowShape
  <1> QED BY <1>1 DEF Queued, Rows

LEMMA CalledRow ==
    ASSUME NEW row \in Rows, NEW r \in Results \cup {"none"}
    PROVE  /\ Called(row, r) \in Rows
           /\ Called(row, r).status = row.status /\ Called(row, r).token = row.token
           /\ Called(row, r).subject = row.subject
           /\ Called(row, r).calls = row.calls + 1 /\ Called(row, r).reported = r
  <1>1. row.calls + 1 \in Nat
    BY RowShape
  <1> QED BY <1>1 DEF Called, Rows

LEMMA CompletedRow ==
    ASSUME NEW row \in Rows, NEW result \in Results
    PROVE  /\ Completed(row, result) \in Rows
           /\ Completed(row, result).status = result /\ Completed(row, result).token = 0
           /\ Completed(row, result).subject = row.subject
           /\ Completed(row, result).calls = row.calls /\ Completed(row, result).reported = row.reported
  <1>1. row.version + 1 \in Nat
    BY RowShape
  <1> QED BY <1>1 DEF Completed, Rows

Ended(row) == [row EXCEPT !.live = FALSE]

LEMMA EndedRow ==
    ASSUME NEW row \in Rows
    PROVE  /\ Ended(row) \in Rows
           /\ Ended(row).status = row.status /\ Ended(row).token = row.token
           /\ Ended(row).subject = row.subject
           /\ Ended(row).calls = row.calls /\ Ended(row).reported = row.reported
  BY DEF Ended, Rows

LEMMA NewRowTyped ==
    ASSUME NEW s \in Subjects, NEW status \in {"awaiting_approval", "queued"}
    PROVE  /\ NewRow(s, status) \in Rows
           /\ NewRow(s, status).status = status /\ NewRow(s, status).token = 0
           /\ NewRow(s, status).subject = s
           /\ NewRow(s, status).calls = 0 /\ NewRow(s, status).reported = "none"
  BY DEF NewRow, Rows

(* How the outbox changes. *)
LEMMA Replacing ==
    ASSUME rows \in Seq(Rows), NEW i \in DOMAIN rows, NEW row \in Rows,
           rows' = [rows EXCEPT ![i] = row]
    PROVE  /\ rows' \in Seq(Rows) /\ Len(rows') = Len(rows) /\ DOMAIN rows' = DOMAIN rows
           /\ rows'[i] = row
           /\ \A j \in DOMAIN rows : j # i => rows'[j] = rows[j]
  OBVIOUS

LEMMA Appending ==
    ASSUME rows \in Seq(Rows), NEW row \in Rows, rows' = Append(rows, row)
    PROVE  /\ rows' \in Seq(Rows) /\ Len(rows) \in Nat /\ Len(rows') = Len(rows) + 1
           /\ DOMAIN rows = 1 .. Len(rows) /\ DOMAIN rows' = 1 .. Len(rows) + 1
           /\ rows'[Len(rows) + 1] = row
           /\ \A j \in DOMAIN rows : rows'[j] = rows[j]
  OBVIOUS

-----------------------------------------------------------------------------
(* What every step respects, and what that carries over.                   *)

RowsEvolve ==
    /\ DOMAIN rows \subseteq DOMAIN rows'
    /\ \A i \in DOMAIN rows :
        /\ rows'[i].subject = rows[i].subject
        /\ rows[i].reported # "none" => rows'[i].reported = rows[i].reported
        /\ ~Waits(rows[i]) => ~Waits(rows'[i])

ApprovalsEvolve ==
    /\ approval' \in [Subjects -> Lifecycle!Statuses]
    /\ \A s \in Subjects : GrantedOnce(s) => GrantedOnce(s)'

LEMMA SaidSoStays ==
    ASSUME RowsEvolve, NEW s, NEW r, r # "none", SaidSo(s, r)
    PROVE  SaidSo(s, r)'
  BY DEF RowsEvolve, SaidSo

LEMMA RowStaysFit ==
    ASSUME TypeOK, RowsEvolve, ApprovalsEvolve,
           NEW i \in DOMAIN rows, RowFits(i), rows'[i] = rows[i]
    PROVE  RowFits(i)'
  <1>1. rows[i].subject \in Subjects
    BY RowsTyped, RowShape
  <1>2. SaidSo("pr", "succeeded") => SaidSo("pr", "succeeded")'
    BY SaidSoStays
  <1> QED BY <1>1, <1>2 DEF RowFits, ApprovalsEvolve, Waits

(* A dispatch that does not move fits still, if its row is not called.     *)
LEMMA DispatchStaysFit ==
    ASSUME TypeOK, RowsEvolve, ApprovalsEvolve, NEW w \in Workers, DispatchFits(w),
           worker'[w] = worker[w],
           worker[w].pc = "call" => rows'[worker[w].row].calls = rows[worker[w].row].calls
    PROVE  DispatchFits(w)'
  <1> SUFFICES ASSUME NEW d, d = worker[w], d = worker'[w], Dispatched(d)
               PROVE  d.row \in DOMAIN rows' /\ WorkFits(d, rows[d.row])'
    BY DEF DispatchFits, Dispatched
  <1>1. d.row \in DOMAIN rows /\ WorkFits(d, rows[d.row])
    BY DEF DispatchFits
  <1>2. rows[d.row].subject \in Subjects
    BY <1>1, RowsTyped, RowShape
  <1>3. /\ d.row \in DOMAIN rows'
        /\ rows'[d.row].subject = rows[d.row].subject
        /\ rows[d.row].reported # "none" => rows'[d.row].reported = rows[d.row].reported
        /\ ~Waits(rows[d.row]) => ~Waits(rows'[d.row])
    BY <1>1 DEF RowsEvolve
  <1>4. d.result \in {"succeeded", "failed", "unknown"}
    BY DispatchShape, WorkersTyped
  <1>5. d.pc \in {"activate", "claim", "call"} => GrantedOnce(rows[d.row].subject)'
    BY <1>1, <1>2, <1>3 DEF WorkFits, ApprovalsEvolve
  <1>6. d.result # "unknown" => rows'[d.row].reported = d.result
    BY <1>1, <1>3, <1>4 DEF WorkFits
  <1>7. d.pc \in {"look", "write"} => d.step \in DOMAIN Touched(rows'[d.row].subject, d.result)
    BY <1>1, <1>3 DEF WorkFits
  <1>8. d.pc = "call" => ~Waits(rows'[d.row]) /\ rows'[d.row].calls = 0 /\ d.step = 1
    BY <1>1, <1>3 DEF WorkFits
  <1> QED BY <1>1, <1>3, <1>5, <1>6, <1>7, <1>8 DEF WorkFits

LEMMA RequestStaysFit ==
    ASSUME RowsEvolve, NEW c \in Callers, RequestFits(c), request'[c] = request[c]
    PROVE  RequestFits(c)'
  <1>1. SaidSo("pr", "succeeded") => SaidSo("pr", "succeeded")'
    BY SaidSoStays
  <1> QED BY <1>1 DEF RequestFits, At

LEMMA EntitiesStayFit ==
    ASSUME RowsEvolve, EntityFits,
           \A e \in Entities \ {"sub"} :
                \/ entity'[e] = entity[e]
                \/ entity'[e].status \notin {"succeeded", "failed", "open", "merged"}
    PROVE  EntityFits'
  <1>1. ASSUME NEW s \in Proposals, NEW r \in {"succeeded", "failed"}, entity'[s].status = r
        PROVE  SaidSo(s, r)'
    <2>1. s \in Entities \ {"sub"}
      BY KeyAssumption DEF Entities, Proposals
    <2>2. entity'[s] = entity[s]
      BY <1>1, <2>1
    <2>3. SaidSo(s, r)
      BY <1>1, <2>2 DEF EntityFits
    <2> QED BY <2>3, SaidSoStays
  <1>2. entity'["pr"].status \in {"open", "merged"} => entity'["pr"] = entity["pr"]
    BY DEF Entities
  <1>3. entity'["pr"].status \in {"open", "merged"} => SaidSo("pr", "succeeded")'
    BY <1>2, SaidSoStays DEF EntityFits
  <1>4. entity'["pr"].status = "merged" => \E m \in Merges : SaidSo(m, "succeeded")'
    <2> SUFFICES ASSUME entity'["pr"].status = "merged" PROVE \E m \in Merges : SaidSo(m, "succeeded")'
      OBVIOUS
    <2>1. PICK m \in Merges : SaidSo(m, "succeeded")
      BY <1>2 DEF EntityFits
    <2> QED BY <2>1, SaidSoStays
  <1>5. \A s \in Proposals : entity'[s].status \in {"succeeded", "failed"} => SaidSo(s, entity[s].status)'
    BY <1>1 DEF SaidSo
  <1> QED BY <1>3, <1>4, <1>5 DEF EntityFits

EntityType == [Entities -> [status : UNION {StatusesOf(e) : e \in Entities}, version : Nat]]

(* A step of a worker.                                                     *)
LEMMA WorkerMoves ==
    ASSUME DeliveryInv, RowsEvolve, ApprovalsEvolve,
           NEW w \in Workers, NEW d \in Dispatches, worker' = [worker EXCEPT ![w] = d],
           UNCHANGED <<bound, request>>,
           entity' \in EntityType, \A e \in Entities : entity'[e].status \in StatusesOf(e),
           rows' \in Seq(Rows), Len(rows') <= MaxRows, issued' \in Nat, faults' \in Nat,
           \A i \in DOMAIN rows' : RowFits(i)',
           EntityFits',
           Dispatched(d) => d.row \in DOMAIN rows' /\ WorkFits(d, rows[d.row])',
           \A v \in Workers \ {w} : worker[v].pc = "call" =>
                rows'[worker[v].row].calls = rows[worker[v].row].calls /\ (d.pc = "call" => worker[v].row # d.row)
    PROVE  DeliveryInv'
  <1>1. TypeOK'
    BY DEF DeliveryInv, TypeOK, ApprovalsEvolve, EntityType
  <1>2. \A v \in Workers : worker'[v] = IF v = w THEN d ELSE worker[v]
    BY DEF DeliveryInv, TypeOK
  <1>3. ASSUME NEW v \in Workers PROVE DispatchFits(v)'
    <2>1. CASE v = w
      BY <1>2, <2>1 DEF DispatchFits, Dispatched
    <2>2. CASE v # w
      BY <1>2, <2>2, DispatchStaysFit DEF DeliveryInv
    <2> QED BY <2>1, <2>2
  <1>4. OneCaller'
    BY <1>2 DEF OneCaller, DeliveryInv
  <1>5. \A c \in Callers : RequestFits(c)'
    BY RequestStaysFit DEF DeliveryInv
  <1> QED BY <1>1, <1>3, <1>4, <1>5 DEF DeliveryInv

(* A step that moves a worker and nothing that is stored.                  *)
LEMMA WorkerTurns ==
    ASSUME DeliveryInv, ApprovalsEvolve,
           NEW w \in Workers, NEW d \in Dispatches, worker' = [worker EXCEPT ![w] = d],
           UNCHANGED <<entity, rows, issued, bound, request>>, faults' \in Nat,
           Dispatched(d) => d.row \in DOMAIN rows' /\ WorkFits(d, rows[d.row])',
           d.pc # "call"
    PROVE  DeliveryInv'
  <1>1. RowsEvolve
    BY DEF RowsEvolve
  <1>2. \A i \in DOMAIN rows' : RowFits(i)'
    BY <1>1, RowStaysFit DEF DeliveryInv
  <1>3. EntityFits'
    BY <1>1, EntitiesStayFit DEF DeliveryInv
  <1>4. entity' \in EntityType /\ \A e \in Entities : entity'[e].status \in StatusesOf(e)
    BY DEF DeliveryInv, TypeOK, EntityType
  <1>5. rows' \in Seq(Rows) /\ Len(rows') <= MaxRows /\ issued' \in Nat
    BY DEF DeliveryInv, TypeOK
  <1> QED BY <1>1, <1>2, <1>3, <1>4, <1>5, WorkerMoves

(* A step of a request; it may add rows and changes none.                  *)
LEMMA RequestMoves ==
    ASSUME DeliveryInv, RowsEvolve, ApprovalsEvolve,
           NEW c \in Callers, NEW q \in Requests, request' = [request EXCEPT ![c] = q],
           UNCHANGED <<issued, worker>>, bound' \in [Subjects -> Nat \X Nat], faults' \in Nat,
           entity' \in EntityType, \A e \in Entities : entity'[e].status \in StatusesOf(e),
           rows' \in Seq(Rows), Len(rows') <= MaxRows, \A i \in DOMAIN rows : rows'[i] = rows[i],
           \A i \in DOMAIN rows' : RowFits(i)',
           EntityFits',
           RequestFits(c)'
    PROVE  DeliveryInv'
  <1>1. TypeOK'
    BY DEF DeliveryInv, TypeOK, ApprovalsEvolve, EntityType
  <1>2. ASSUME NEW v \in Workers PROVE DispatchFits(v)'
    <2>1. DispatchFits(v)
      BY DEF DeliveryInv
    <2>2. worker[v].pc = "call" => rows'[worker[v].row].calls = rows[worker[v].row].calls
      BY <2>1 DEF DispatchFits, Dispatched
    <2> QED BY <2>1, <2>2, DispatchStaysFit DEF DeliveryInv
  <1>3. OneCaller'
    BY DEF OneCaller, DeliveryInv
  <1>4. ASSUME NEW b \in Callers PROVE RequestFits(b)'
    <2>1. b # c => request'[b] = request[b]
      BY DEF DeliveryInv, TypeOK
    <2> QED BY <2>1, RequestStaysFit DEF DeliveryInv
  <1> QED BY <1>1, <1>2, <1>3, <1>4 DEF DeliveryInv

(* A step of a request that stores no row.                                 *)
LEMMA RequestTurns ==
    ASSUME DeliveryInv, ApprovalsEvolve,
           NEW c \in Callers, NEW q \in Requests, request' = [request EXCEPT ![c] = q],
           UNCHANGED <<rows, issued, worker>>, bound' \in [Subjects -> Nat \X Nat], faults' \in Nat,
           entity' \in EntityType, \A e \in Entities : entity'[e].status \in StatusesOf(e),
           EntityFits', RequestFits(c)'
    PROVE  DeliveryInv'
  <1>1. RowsEvolve
    BY DEF RowsEvolve
  <1>2. \A i \in DOMAIN rows' : RowFits(i)'
    BY <1>1, RowStaysFit DEF DeliveryInv
  <1>3. rows' \in Seq(Rows) /\ Len(rows') <= MaxRows /\ \A i \in DOMAIN rows : rows'[i] = rows[i]
    BY DEF DeliveryInv, TypeOK
  <1> QED BY <1>1, <1>2, <1>3, RequestMoves

-----------------------------------------------------------------------------
(* Approvals: what was granted once stays granted once.                    *)

LEMMA StillApprovals ==
    ASSUME TypeOK, UNCHANGED approval PROVE ApprovalsEvolve
  BY DEF TypeOK, ApprovalsEvolve, GrantedOnce

LEMMA ApprovalBecomes ==
    ASSUME TypeOK, NEW s \in Subjects, NEW t \in Lifecycle!Statuses, Lifecycle!Becomes(s, t),
           GrantedOnce(s) => t \in {"approved", "expired", "superseded"}
    PROVE  ApprovalsEvolve
  BY DEF TypeOK, ApprovalsEvolve, GrantedOnce, Lifecycle!Becomes

LEMMA Statuses ==
    {"pending", "approved", "rejected", "expired", "superseded"} \subseteq Lifecycle!Statuses
  BY DEF Lifecycle!Statuses, Lifecycle!Refusals, Lifecycle!Lapses

LEMMA Deciding ==
    ASSUME TypeOK, NEW s \in Subjects, Lifecycle!Grant(s) \/ (approval[s] = "pending" /\ Lifecycle!Becomes(s, "rejected"))
    PROVE  ApprovalsEvolve
  <1>1. CASE Lifecycle!Grant(s)
    BY <1>1, ApprovalBecomes, Statuses DEF Lifecycle!Grant
  <1>2. CASE approval[s] = "pending" /\ Lifecycle!Becomes(s, "rejected")
    <2>1. ~GrantedOnce(s)
      BY <1>2 DEF GrantedOnce
    <2> QED BY <1>2, <2>1, ApprovalBecomes, Statuses
  <1> QED BY <1>1, <1>2

LEMMA Asking ==
    ASSUME TypeOK, NEW s \in Subjects, NEW seen \in Nat \X Nat, AskApproval(s, seen)
    PROVE  ApprovalsEvolve /\ bound' \in [Subjects -> Nat \X Nat]
  <1>1. CASE Lifecycle!Request(s) /\ bound' = [bound EXCEPT ![s] = seen]
    <2>1. ~GrantedOnce(s)
      BY <1>1 DEF GrantedOnce, Lifecycle!Request
    <2>2. ApprovalsEvolve
      BY <1>1, <2>1, ApprovalBecomes, Statuses DEF Lifecycle!Request
    <2> QED BY <1>1, <2>2 DEF TypeOK
  <1>2. CASE UNCHANGED approvalVars
    BY <1>2, StillApprovals DEF approvalVars, TypeOK
  <1> QED BY <1>1, <1>2 DEF AskApproval

LEMMA Permitted ==
    ASSUME TypeOK, NEW s \in Subjects, Permit(s)
    PROVE  ApprovalsEvolve /\ GrantedOnce(s) /\ GrantedOnce(s)'
  BY StillApprovals DEF Permit, GrantedOnce

LEMMA NotPermitted ==
    ASSUME TypeOK, NEW s \in Subjects, NoPermit(s)
    PROVE  ApprovalsEvolve
  <1>1. CASE UNCHANGED approval
    BY <1>1, StillApprovals
  <1>2. CASE Lifecycle!Becomes(s, "expired") \/ Lifecycle!Becomes(s, "superseded")
    BY <1>2, ApprovalBecomes, Statuses
  <1> QED BY <1>1, <1>2 DEF NoPermit

LEMMA Decision == ASSUME DeliveryInv, NEW s \in Subjects, Decide(s) PROVE DeliveryInv'
  <1>1. ApprovalsEvolve
    BY Deciding DEF Decide, DeliveryInv
  <1>2. RowsEvolve
    BY DEF Decide, deliveryVars, RowsEvolve
  <1>3. TypeOK'
    BY <1>1 DEF Decide, deliveryVars, DeliveryInv, TypeOK, ApprovalsEvolve
  <1>4. Len(rows') <= MaxRows /\ \A i \in DOMAIN rows' : RowFits(i)'
    BY <1>1, <1>2, RowStaysFit DEF Decide, deliveryVars, DeliveryInv
  <1>5. \A w \in Workers : DispatchFits(w)'
    BY <1>1, <1>2, DispatchStaysFit DEF Decide, deliveryVars, DeliveryInv
  <1>6. OneCaller'
    BY DEF Decide, DeliveryInv, OneCaller
  <1>7. \A c \in Callers : RequestFits(c)'
    BY <1>2, RequestStaysFit DEF Decide, DeliveryInv
  <1>8. EntityFits'
    BY <1>2, EntitiesStayFit DEF Decide, deliveryVars, DeliveryInv
  <1> QED BY <1>3, <1>4, <1>5, <1>6, <1>7, <1>8 DEF DeliveryInv

-----------------------------------------------------------------------------
(* Requests.                                                               *)

LEMMA Calling ==
    ASSUME NEW s \in Subjects, NEW seen \in Nat \X Nat,
           NEW pc \in {"idle", "submit", "open", "queue", "mark", "ask", "insert"}
    PROVE  [pc |-> pc, subject |-> s, seen |-> seen] \in Requests
  BY DEF Requests

LEMMA RequestsTyped ==
    ASSUME TypeOK, NEW c \in Callers
    PROVE  request[c].subject \in Subjects /\ request[c].seen \in Nat \X Nat
  BY DEF TypeOK, Requests

LEMMA Keys == "pr" \in Subjects /\ "pr" \notin Proposals /\ Proposals \subseteq Subjects
              /\ {"sub", "pr"} \subseteq Entities /\ Proposals \subseteq Entities /\ <<0, 0>> \in Nat \X Nat
              /\ "sub" \notin Proposals
  BY KeyAssumption DEF Subjects, Proposals, Entities

(* What a request is after it has moved on. *)
LEMMA Going ==
    ASSUME TypeOK, NEW c \in Callers, NEW s \in Subjects, NEW seen \in Nat \X Nat,
           NEW pc \in {"idle", "submit", "open", "queue", "mark", "ask", "insert"},
           Go(c, pc, s, seen),
           pc \in {"ask", "insert"} => s \in Proposals,
           pc \in {"ask", "insert", "queue"} /\ s \in Proposals => SaidSo("pr", "succeeded")'
    PROVE  RequestFits(c)'
  <1>1. request'[c] = [pc |-> pc, subject |-> s, seen |-> seen]
    BY DEF Go, TypeOK
  <1> QED BY <1>1 DEF RequestFits, At

LEMMA BeingDone ==
    ASSUME TypeOK, NEW c \in Callers, Done(c)
    PROVE  RequestFits(c)'
  <1>1. request'[c] = NoRequest
    BY DEF Done, TypeOK
  <1> QED BY <1>1, NoRequestTyped DEF RequestFits, At

(* Writing an entity. *)
LEMMA Writing ==
    ASSUME TypeOK, NEW e \in Entities, NEW s \in StatusesOf(e), Write(e, s)
    PROVE  /\ entity' \in EntityType
           /\ \A f \in Entities : entity'[f].status \in StatusesOf(f)
           /\ entity'[e].status = s
           /\ \A f \in Entities : f # e => entity'[f] = entity[f]
  <1>1. entity[e].version + 1 \in Nat
    BY EntitiesTyped
  <1> DEFINE new == [status |-> s, version |-> entity[e].version + 1]
  <1>2. new \in [status : UNION {StatusesOf(f) : f \in Entities}, version : Nat]
    BY <1>1
  <1>3. entity' = [entity EXCEPT ![e] = new]
    BY DEF Write
  <1>4. new.status = s
    OBVIOUS
  <1> HIDE DEF new
  <1> QED BY <1>2, <1>3, <1>4 DEF TypeOK, EntityType

LEMMA StillEntities ==
    ASSUME DeliveryInv, RowsEvolve, UNCHANGED entity
    PROVE  entity' \in EntityType /\ (\A e \in Entities : entity'[e].status \in StatusesOf(e)) /\ EntityFits'
  BY EntitiesStayFit DEF DeliveryInv, TypeOK, EntityType

(* A write of a request tells nothing of the forge. *)
LEMMA RequestWrites ==
    ASSUME DeliveryInv, UNCHANGED rows, NEW e \in Entities, NEW s \in StatusesOf(e),
           Write(e, s) \/ UNCHANGED entity, s \notin {"succeeded", "failed", "open", "merged"}
    PROVE  entity' \in EntityType /\ (\A f \in Entities : entity'[f].status \in StatusesOf(f)) /\ EntityFits'
  <1>1. RowsEvolve
    BY DEF RowsEvolve
  <1>2. CASE Write(e, s)
    BY <1>1, <1>2, Writing, EntitiesStayFit DEF DeliveryInv
  <1>3. CASE UNCHANGED entity
    BY <1>1, <1>3, StillEntities
  <1> QED BY <1>2, <1>3

LEMMA SubmitStep == ASSUME DeliveryInv, NEW c \in Callers, Submit(c) PROVE DeliveryInv'
  <1>1. RowsEvolve
    BY DEF Submit, deliveryVars, RowsEvolve
  <1>2. ApprovalsEvolve /\ bound' \in [Subjects -> Nat \X Nat]
    BY Asking, Keys DEF Submit, DeliveryInv
  <1>3. [pc |-> "submit", subject |-> "pr", seen |-> <<0, 0>>] \in Requests
    BY Calling, Keys
  <1>4. RequestFits(c)'
    BY Going, Keys DEF Submit, DeliveryInv
  <1>5. entity' \in EntityType /\ (\A e \in Entities : entity'[e].status \in StatusesOf(e)) /\ EntityFits'
    BY <1>1, StillEntities DEF Submit, deliveryVars
  <1>6. faults' \in Nat
    BY DEF Submit, DeliveryInv, TypeOK
  <1> QED BY <1>2, <1>3, <1>4, <1>5, <1>6, RequestTurns DEF Submit, Go, deliveryVars

LEMMA InsertSubmissionStep == ASSUME DeliveryInv, NEW c \in Callers, InsertSubmission(c) PROVE DeliveryInv'
  <1>1. "awaiting_approval" \in StatusesOf("sub")
    BY DEF StatusesOf
  <1>2. entity' \in EntityType /\ (\A e \in Entities : entity'[e].status \in StatusesOf(e)) /\ EntityFits'
    BY <1>1, RequestWrites, Keys DEF InsertSubmission
  <1>3. ApprovalsEvolve /\ bound' \in [Subjects -> Nat \X Nat] /\ faults' \in Nat
    BY StillApprovals DEF InsertSubmission, approvalVars, DeliveryInv, TypeOK
  <1>4. RequestFits(c)'
    BY BeingDone DEF InsertSubmission, DeliveryInv
  <1> QED BY <1>2, <1>3, <1>4, NoRequestTyped, RequestTurns DEF InsertSubmission, Done

LEMMA OpenStep == ASSUME DeliveryInv, NEW c \in Callers, OpenPullRequest(c) PROVE DeliveryInv'
  <1>1. RowsEvolve
    BY DEF OpenPullRequest, deliveryVars, RowsEvolve
  <1>2. entity' \in EntityType /\ (\A e \in Entities : entity'[e].status \in StatusesOf(e)) /\ EntityFits'
    BY <1>1, StillEntities DEF OpenPullRequest, deliveryVars
  <1>3. bound' \in [Subjects -> Nat \X Nat] /\ faults' \in Nat
    BY DEF OpenPullRequest, DeliveryInv, TypeOK
  <1>4. CASE Permit("pr") /\ Go(c, "open", "pr", Seen)
    <2>1. ApprovalsEvolve
      BY <1>4, Permitted, Keys DEF DeliveryInv
    <2>2. Seen \in Nat \X Nat
      BY SeenTyped DEF DeliveryInv
    <2>3. [pc |-> "open", subject |-> "pr", seen |-> Seen] \in Requests
      BY <2>2, Calling, Keys
    <2>4. RequestFits(c)'
      BY <1>4, <2>2, Going, Keys DEF DeliveryInv
    <2> QED BY <1>2, <1>3, <1>4, <2>1, <2>3, <2>4, RequestTurns DEF OpenPullRequest, Go, deliveryVars
  <1>5. CASE NoPermit("pr") /\ UNCHANGED request
    <2>1. ApprovalsEvolve
      BY <1>5, NotPermitted, Keys DEF DeliveryInv
    <2>2. request[c] \in Requests /\ request' = [request EXCEPT ![c] = request[c]]
      BY <1>5 DEF DeliveryInv, TypeOK
    <2>3. RequestFits(c)'
      BY <1>1, <1>5, RequestStaysFit DEF DeliveryInv
    <2> QED BY <1>2, <1>3, <2>1, <2>2, <2>3, RequestTurns DEF OpenPullRequest, deliveryVars
  <1> QED BY <1>4, <1>5 DEF OpenPullRequest

LEMMA InsertPullRequestStep == ASSUME DeliveryInv, NEW c \in Callers, InsertPullRequest(c) PROVE DeliveryInv'
  <1>1. "pending" \in StatusesOf("pr")
    BY DEF StatusesOf
  <1>2. entity' \in EntityType /\ (\A e \in Entities : entity'[e].status \in StatusesOf(e)) /\ EntityFits'
    BY <1>1, RequestWrites, Keys DEF InsertPullRequest
  <1>3. ApprovalsEvolve /\ bound' \in [Subjects -> Nat \X Nat] /\ faults' \in Nat
    BY StillApprovals DEF InsertPullRequest, approvalVars, DeliveryInv, TypeOK
  <1>4. request[c].seen \in Nat \X Nat
    BY RequestsTyped DEF DeliveryInv
  <1>5. RequestFits(c)' /\ [pc |-> "queue", subject |-> "pr", seen |-> request[c].seen] \in Requests
    BY <1>4, Going, Calling, Keys DEF InsertPullRequest, DeliveryInv
  <1> QED BY <1>2, <1>3, <1>5, RequestTurns DEF InsertPullRequest, Go

(* A new row waits for its approval and has not been acted on. *)
LEMMA NewRowFits ==
    ASSUME DeliveryInv, ApprovalsEvolve,
           NEW s \in Subjects, NEW status \in {"awaiting_approval", "queued"},
           s \in Proposals => SaidSo("pr", "succeeded"),
           Len(rows) < MaxRows, rows' = Append(rows, NewRow(s, status))
    PROVE  /\ RowsEvolve
           /\ rows' \in Seq(Rows) /\ Len(rows') <= MaxRows
           /\ \A i \in DOMAIN rows : rows'[i] = rows[i]
           /\ \A i \in DOMAIN rows' : RowFits(i)'
  <1> DEFINE row == NewRow(s, status)
  <1>1. /\ row \in Rows /\ row.status = status /\ row.subject = s
        /\ row.calls = 0 /\ row.reported = "none"
    BY NewRowTyped
  <1>2. rows' = Append(rows, row)
    OBVIOUS
  <1> HIDE DEF row
  <1>3. /\ rows' \in Seq(Rows) /\ Len(rows) \in Nat /\ Len(rows') = Len(rows) + 1
        /\ DOMAIN rows = 1 .. Len(rows) /\ DOMAIN rows' = 1 .. Len(rows) + 1
        /\ rows'[Len(rows) + 1] = row
        /\ \A j \in DOMAIN rows : rows'[j] = rows[j]
    BY <1>1, <1>2, Appending DEF DeliveryInv, TypeOK
  <1>4. RowsEvolve
    BY <1>3 DEF RowsEvolve
  <1>5. ASSUME NEW i \in DOMAIN rows' PROVE RowFits(i)'
    <2>1. CASE i \in DOMAIN rows
      BY <1>3, <1>4, <2>1, RowStaysFit DEF DeliveryInv
    <2>2. CASE i = Len(rows) + 1
      <3>1. rows'[i] = row
        BY <1>3, <2>2
      <3>2. s \in Proposals => SaidSo("pr", "succeeded")'
        BY <1>4, SaidSoStays
      <3> QED BY <1>1, <3>1, <3>2 DEF RowFits, Waits
    <2> QED BY <1>3, <2>1, <2>2
  <1>6. Len(rows') <= MaxRows
    BY <1>3, NumberAssumption
  <1> QED BY <1>3, <1>4, <1>5, <1>6

LEMMA QueuePullRequestStep == ASSUME DeliveryInv, NEW c \in Callers, QueuePullRequest(c) PROVE DeliveryInv'
  <1>1. ApprovalsEvolve /\ bound' \in [Subjects -> Nat \X Nat] /\ faults' \in Nat
    BY StillApprovals DEF QueuePullRequest, approvalVars, DeliveryInv, TypeOK
  <1>2. request[c].seen \in Nat \X Nat
    BY RequestsTyped DEF DeliveryInv
  <1>3. RequestFits(c)' /\ [pc |-> "mark", subject |-> "pr", seen |-> request[c].seen] \in Requests
    BY <1>2, Going, Calling, Keys DEF QueuePullRequest, DeliveryInv
  <1>4. CASE UNCHANGED rows
    <2>1. RowsEvolve
      BY <1>4 DEF RowsEvolve
    <2>2. entity' \in EntityType /\ (\A e \in Entities : entity'[e].status \in StatusesOf(e)) /\ EntityFits'
      BY <2>1, StillEntities DEF QueuePullRequest
    <2> QED BY <1>1, <1>3, <1>4, <2>2, RequestTurns DEF QueuePullRequest, Go
  <1>5. CASE Len(rows) < MaxRows /\ rows' = Append(rows, NewRow("pr", "queued"))
    <2>1. /\ RowsEvolve
          /\ rows' \in Seq(Rows) /\ Len(rows') <= MaxRows
          /\ \A i \in DOMAIN rows : rows'[i] = rows[i]
          /\ \A i \in DOMAIN rows' : RowFits(i)'
      BY <1>1, <1>5, NewRowFits, Keys
    <2>2. entity' \in EntityType /\ (\A e \in Entities : entity'[e].status \in StatusesOf(e)) /\ EntityFits'
      BY <2>1, StillEntities DEF QueuePullRequest
    <2> QED BY <1>1, <1>3, <2>1, <2>2, RequestMoves DEF QueuePullRequest, Go
  <1> QED BY <1>4, <1>5 DEF QueuePullRequest

LEMMA MarkQueuedStep == ASSUME DeliveryInv, NEW c \in Callers, MarkQueued(c) PROVE DeliveryInv'
  <1>1. "queued" \in StatusesOf("sub")
    BY DEF StatusesOf
  <1>2. entity' \in EntityType /\ (\A e \in Entities : entity'[e].status \in StatusesOf(e)) /\ EntityFits'
    BY <1>1, RequestWrites, Keys DEF MarkQueued
  <1>3. ApprovalsEvolve /\ bound' \in [Subjects -> Nat \X Nat] /\ faults' \in Nat
    BY StillApprovals DEF MarkQueued, approvalVars, DeliveryInv, TypeOK
  <1>4. RequestFits(c)'
    BY BeingDone DEF MarkQueued, DeliveryInv
  <1> QED BY <1>2, <1>3, <1>4, NoRequestTyped, RequestTurns DEF MarkQueued, Done

LEMMA ProposeStep ==
    ASSUME DeliveryInv, NEW c \in Callers, NEW s \in Proposals, Propose(c, s) PROVE DeliveryInv'
  <1>1. RowsEvolve
    BY DEF Propose, deliveryVars, RowsEvolve
  <1>2. SaidSo("pr", "succeeded")'
    <2>1. entity["pr"].status \in {"open", "merged"}
      BY DEF Propose, Proposable
    <2> QED BY <1>1, <2>1, SaidSoStays DEF DeliveryInv, EntityFits
  <1>3. entity' \in EntityType /\ (\A e \in Entities : entity'[e].status \in StatusesOf(e)) /\ EntityFits'
    BY <1>1, StillEntities DEF Propose, deliveryVars
  <1>4. ApprovalsEvolve /\ bound' \in [Subjects -> Nat \X Nat] /\ faults' \in Nat
    BY StillApprovals DEF Propose, approvalVars, DeliveryInv, TypeOK
  <1>5. Seen \in Nat \X Nat
    BY SeenTyped DEF DeliveryInv
  <1>6. RequestFits(c)' /\ [pc |-> "ask", subject |-> s, seen |-> Seen] \in Requests
    BY <1>2, <1>5, Going, Calling, Keys DEF Propose, DeliveryInv
  <1> QED BY <1>3, <1>4, <1>6, RequestTurns DEF Propose, Go, deliveryVars

(* What a request knows while it proposes. *)
LEMMA Proposing ==
    ASSUME DeliveryInv, RowsEvolve, NEW c \in Callers, At(c, "ask") \/ At(c, "insert") \/ At(c, "queue")
    PROVE  /\ At(c, "queue") \/ request[c].subject \in Proposals
           /\ request[c].subject \in Subjects /\ request[c].seen \in Nat \X Nat
           /\ request[c].subject \in Proposals => SaidSo("pr", "succeeded") /\ SaidSo("pr", "succeeded")'
  BY SaidSoStays, RequestsTyped DEF DeliveryInv, RequestFits

LEMMA AskForProposalStep == ASSUME DeliveryInv, NEW c \in Callers, AskForProposal(c) PROVE DeliveryInv'
  <1>1. RowsEvolve
    BY DEF AskForProposal, deliveryVars, RowsEvolve
  <1> DEFINE s == request[c].subject
             seen == request[c].seen
  <1>2. s \in Proposals /\ s \in Subjects /\ seen \in Nat \X Nat /\ SaidSo("pr", "succeeded")'
    BY <1>1, Proposing DEF AskForProposal, At
  <1>3. AskApproval(s, seen) /\ Go(c, "insert", s, seen)
    BY DEF AskForProposal
  <1>4. entity' \in EntityType /\ (\A e \in Entities : entity'[e].status \in StatusesOf(e)) /\ EntityFits'
    BY <1>1, StillEntities DEF AskForProposal, deliveryVars
  <1>5. faults' \in Nat
    BY DEF AskForProposal, DeliveryInv, TypeOK
  <1> HIDE DEF s, seen
  <1>6. ApprovalsEvolve /\ bound' \in [Subjects -> Nat \X Nat]
    BY <1>2, <1>3, Asking DEF DeliveryInv
  <1>7. RequestFits(c)' /\ [pc |-> "insert", subject |-> s, seen |-> seen] \in Requests
    BY <1>2, <1>3, Going, Calling DEF DeliveryInv
  <1> QED BY <1>3, <1>4, <1>5, <1>6, <1>7, RequestTurns DEF AskForProposal, Go, deliveryVars

LEMMA InsertProposalStep == ASSUME DeliveryInv, NEW c \in Callers, InsertProposal(c) PROVE DeliveryInv'
  <1>1. RowsEvolve
    BY DEF InsertProposal, RowsEvolve
  <1> DEFINE s == request[c].subject
             seen == request[c].seen
  <1>2. s \in Proposals /\ s \in Subjects /\ seen \in Nat \X Nat /\ SaidSo("pr", "succeeded")'
    BY <1>1, Proposing DEF InsertProposal, At
  <1>3. (Write(s, "awaiting_approval") \/ UNCHANGED entity) /\ Go(c, "queue", s, seen)
    BY DEF InsertProposal
  <1>4. ApprovalsEvolve /\ bound' \in [Subjects -> Nat \X Nat] /\ faults' \in Nat
    BY StillApprovals DEF InsertProposal, approvalVars, DeliveryInv, TypeOK
  <1> HIDE DEF s, seen
  <1>5. "awaiting_approval" \in StatusesOf(s) /\ s \in Entities
    BY <1>2, KeyAssumption, Keys DEF StatusesOf, Proposals
  <1>6. entity' \in EntityType /\ (\A e \in Entities : entity'[e].status \in StatusesOf(e)) /\ EntityFits'
    BY <1>3, <1>5, RequestWrites DEF InsertProposal
  <1>7. RequestFits(c)' /\ [pc |-> "queue", subject |-> s, seen |-> seen] \in Requests
    BY <1>2, <1>3, Going, Calling DEF DeliveryInv
  <1> QED BY <1>3, <1>4, <1>6, <1>7, RequestTurns DEF InsertProposal, Go

LEMMA QueueProposalStep == ASSUME DeliveryInv, NEW c \in Callers, QueueProposal(c) PROVE DeliveryInv'
  <1>1. ApprovalsEvolve /\ bound' \in [Subjects -> Nat \X Nat] /\ faults' \in Nat
    BY StillApprovals DEF QueueProposal, approvalVars, DeliveryInv, TypeOK
  <1>2. request[c].subject \in Subjects /\ (request[c].subject \in Proposals => SaidSo("pr", "succeeded"))
    BY RequestsTyped DEF QueueProposal, DeliveryInv, RequestFits
  <1>3. /\ RowsEvolve
        /\ rows' \in Seq(Rows) /\ Len(rows') <= MaxRows
        /\ \A i \in DOMAIN rows : rows'[i] = rows[i]
        /\ \A i \in DOMAIN rows' : RowFits(i)'
    BY <1>1, <1>2, NewRowFits DEF QueueProposal
  <1>4. entity' \in EntityType /\ (\A e \in Entities : entity'[e].status \in StatusesOf(e)) /\ EntityFits'
    BY <1>3, StillEntities DEF QueueProposal
  <1>5. RequestFits(c)'
    BY BeingDone DEF QueueProposal, DeliveryInv
  <1> QED BY <1>1, <1>3, <1>4, <1>5, NoRequestTyped, RequestMoves DEF QueueProposal, Done

LEMMA DropStep == ASSUME DeliveryInv, NEW c \in Callers, DropRequest(c) PROVE DeliveryInv'
  <1>1. RowsEvolve
    BY DEF DropRequest, deliveryVars, RowsEvolve
  <1>2. entity' \in EntityType /\ (\A e \in Entities : entity'[e].status \in StatusesOf(e)) /\ EntityFits'
    BY <1>1, StillEntities DEF DropRequest, deliveryVars
  <1>3. ApprovalsEvolve /\ bound' \in [Subjects -> Nat \X Nat] /\ faults' \in Nat
    BY StillApprovals DEF DropRequest, approvalVars, DeliveryInv, TypeOK
  <1>4. RequestFits(c)'
    BY BeingDone DEF DropRequest, DeliveryInv
  <1> QED BY <1>2, <1>3, <1>4, NoRequestTyped, RequestTurns DEF DropRequest, Done, deliveryVars

LEMMA RequestSteps == ASSUME DeliveryInv, NEW c \in Callers, RequestStep(c) PROVE DeliveryInv'
  BY SubmitStep, InsertSubmissionStep, OpenStep, InsertPullRequestStep, QueuePullRequestStep,
     MarkQueuedStep, ProposeStep, AskForProposalStep, InsertProposalStep, QueueProposalStep, DropStep
     DEF RequestStep

-----------------------------------------------------------------------------
(* Workers.                                                                *)

(* What holds of the row a worker is at. *)
LEMMA Working ==
    ASSUME DeliveryInv, NEW w \in Workers, Dispatched(worker[w])
    PROVE  /\ worker[w] \in Dispatches
           /\ worker[w].row \in DOMAIN rows
           /\ rows[worker[w].row] \in Rows
           /\ rows[worker[w].row].subject \in Subjects
           /\ WorkFits(worker[w], rows[worker[w].row])
           /\ RowFits(worker[w].row)
  <1>1. worker[w] \in Dispatches /\ worker[w].row \in DOMAIN rows /\ WorkFits(worker[w], rows[worker[w].row])
    BY WorkersTyped DEF DeliveryInv, DispatchFits
  <1> QED BY <1>1, RowsTyped, RowShape DEF DeliveryInv

LEMMA FailedTyped ==
    ASSUME NEW d \in Dispatches
    PROVE  /\ [NoDispatch EXCEPT !.pc = "failed", !.acted = d.acted] \in Dispatches
           /\ [NoDispatch EXCEPT !.pc = "failed", !.acted = d.acted].pc = "failed"
  BY DispatchShape DEF NoDispatch, Dispatches, Results

(* A worker that stops, for good or because its cycle failed. *)
LEMMA Stops ==
    ASSUME DeliveryInv, ApprovalsEvolve, NEW w \in Workers, Turn(w, NoDispatch) \/ Fail(w),
           UNCHANGED <<entity, rows, issued, bound, request>>, faults' \in Nat
    PROVE  DeliveryInv'
  <1>1. CASE Turn(w, NoDispatch)
    BY <1>1, NoDispatchTyped, WorkerTurns DEF Turn, Dispatched
  <1>2. CASE Fail(w)
    <2> DEFINE d == [NoDispatch EXCEPT !.pc = "failed", !.acted = worker[w].acted]
    <2>1. d \in Dispatches /\ d.pc = "failed"
      BY FailedTyped, WorkersTyped DEF DeliveryInv
    <2>2. worker' = [worker EXCEPT ![w] = d]
      BY <1>2 DEF Fail, Turn
    <2> HIDE DEF d
    <2>3. ~Dispatched(d) /\ d.pc # "call"
      BY <2>1 DEF Dispatched
    <2> QED BY <2>1, <2>2, <2>3, WorkerTurns
  <1> QED BY <1>1, <1>2

(* A worker that goes on with its row. *)
LEMMA Continues ==
    ASSUME DeliveryInv, ApprovalsEvolve, NEW w \in Workers, NEW d \in Dispatches, Turn(w, d),
           UNCHANGED <<entity, rows, issued, bound, request>>, faults' \in Nat,
           Dispatched(worker[w]), d.row = worker[w].row, d.pc # "call",
           d.result # "unknown" => d.result = worker[w].result,
           d.pc \in {"activate", "claim"} => GrantedOnce(rows[d.row].subject)',
           d.pc \in {"read", "permit", "activate", "claim"} => d.result = "unknown",
           d.pc \in {"look", "write"} => d.step \in DOMAIN Touched(rows[worker[w].row].subject, d.result)
    PROVE  DeliveryInv'
  <1>1. worker[w].row \in DOMAIN rows /\ WorkFits(worker[w], rows[worker[w].row])
    BY Working
  <1>2. WorkFits(d, rows[d.row])'
    BY <1>1 DEF WorkFits
  <1> QED BY <1>1, <1>2, WorkerTurns DEF Turn

LEMMA PickStep == ASSUME DeliveryInv, NEW w \in Workers, Pick(w) PROVE DeliveryInv'
  <1>1. PICK i \in DOMAIN rows : Turn(w, [NoDispatch EXCEPT !.pc = "read", !.row = i])
    BY DEF Pick
  <1> DEFINE d == [NoDispatch EXCEPT !.pc = "read", !.row = i]
  <1>2. i \in Nat
    BY DEF DeliveryInv, TypeOK
  <1>3. d \in Dispatches /\ d.pc = "read" /\ d.row = i /\ d.result = "unknown"
    BY <1>2 DEF NoDispatch, Dispatches, Results
  <1>4. worker' = [worker EXCEPT ![w] = d]
    BY <1>1 DEF Turn
  <1> HIDE DEF d
  <1>5. ApprovalsEvolve /\ faults' \in Nat
    BY StillApprovals DEF Pick, approvalVars, DeliveryInv, TypeOK
  <1>6. UNCHANGED <<entity, rows, issued, bound, request>>
    BY DEF Pick, deliveryVars, approvalVars
  <1>7. d.row \in DOMAIN rows' /\ WorkFits(d, rows[d.row])'
    BY <1>3, <1>6 DEF WorkFits
  <1> QED BY <1>3, <1>4, <1>5, <1>6, <1>7, WorkerTurns

(* A worker that rewrites its row and nothing else. *)
Rewrite(i, row) == rows' = [rows EXCEPT ![i] = row]

LEMMA RowMoves ==
    ASSUME DeliveryInv, NEW w \in Workers, NEW i \in DOMAIN rows, NEW row \in Rows, NEW d \in Dispatches,
           Rewrite(i, row), Turn(w, d), UNCHANGED <<entity, approvalVars, request>>, issued' \in Nat, faults' \in Nat,
           row.subject = rows[i].subject,
           rows[i].reported # "none" => row.reported = rows[i].reported,
           Waits(row) => row.calls = 0 /\ Waits(rows[i]),
           row.calls = 0 => row.reported = "none",
           row.calls <= 1,
           row.calls > 0 => GrantedOnce(row.subject),
           row.status \in {"succeeded", "failed"} => row.reported = row.status,
           Dispatched(d) => d.row = i /\ WorkFits(d, row),
           \A v \in Workers \ {w} : worker[v].pc = "call" /\ worker[v].row = i =>
                row.calls = rows[i].calls /\ d.pc # "call"
    PROVE  DeliveryInv'
  <1>1. /\ rows' \in Seq(Rows) /\ Len(rows') = Len(rows) /\ DOMAIN rows' = DOMAIN rows
        /\ rows'[i] = row
        /\ \A j \in DOMAIN rows : j # i => rows'[j] = rows[j]
    BY Replacing DEF Rewrite, DeliveryInv, TypeOK
  <1>2. RowsEvolve
    BY <1>1 DEF RowsEvolve
  <1>3. ApprovalsEvolve
    BY StillApprovals DEF approvalVars, DeliveryInv
  <1>4. ASSUME NEW j \in DOMAIN rows' PROVE RowFits(j)'
    <2>1. CASE j # i
      BY <1>1, <1>2, <1>3, <2>1, RowStaysFit DEF DeliveryInv
    <2>2. CASE j = i
      <3>1. RowFits(i)
        BY DEF DeliveryInv
      <3>2. SaidSo("pr", "succeeded") => SaidSo("pr", "succeeded")'
        BY <1>2, SaidSoStays
      <3>3. row.calls > 0 => GrantedOnce(row.subject)'
        BY DEF GrantedOnce, approvalVars
      <3> QED BY <1>1, <2>2, <3>1, <3>2, <3>3 DEF RowFits, Waits
    <2> QED BY <2>1, <2>2
  <1>5. EntityFits' /\ entity' \in EntityType /\ \A e \in Entities : entity'[e].status \in StatusesOf(e)
    BY <1>2, StillEntities
  <1>6. Dispatched(d) => d.row \in DOMAIN rows' /\ WorkFits(d, rows[d.row])'
    BY <1>1 DEF WorkFits, Waits, GrantedOnce, approvalVars
  <1>7. ASSUME NEW v \in Workers \ {w}, worker[v].pc = "call"
        PROVE  /\ rows'[worker[v].row].calls = rows[worker[v].row].calls
               /\ d.pc = "call" => worker[v].row # d.row
    <2>1. worker[v].row \in DOMAIN rows
      BY <1>7, Working DEF Dispatched
    <2> QED BY <1>1, <1>7, <2>1 DEF Dispatched
  <1>8. Len(rows') <= MaxRows /\ UNCHANGED <<bound, request>>
    BY <1>1 DEF approvalVars, DeliveryInv
  <1> QED BY <1>1, <1>2, <1>3, <1>4, <1>5, <1>6, <1>7, <1>8, WorkerMoves DEF Turn

(* A row gets a new lease: it has not been called, or will not be. *)
LEMMA Leasing ==
    ASSUME DeliveryInv, NEW w \in Workers, Dispatched(worker[w]), NEW i, i = worker[w].row,
           NEW pc \in {"call", "look"}, NEW again \in BOOLEAN, LeaseRow(w, i, pc, again),
           UNCHANGED <<entity, approvalVars, request, faults>>,
           worker[w].result = "unknown",
           pc = "call" => Waits(rows[i]) /\ GrantedOnce(rows[i].subject)
    PROVE  DeliveryInv'
  <1>1. worker[w] \in Dispatches /\ i \in DOMAIN rows /\ rows[i] \in Rows /\ rows[i].subject \in Subjects
        /\ RowFits(i) /\ WorkFits(worker[w], rows[i])
    BY Working
  <1>2. issued + 1 \in Nat /\ rows[i].version + 1 \in Nat
    BY <1>1, RowShape DEF DeliveryInv, TypeOK
  <1>a. PICK row : row = Leased(rows[i], issued + 1)
    OBVIOUS
  <1>b. PICK d : d = [worker[w] EXCEPT !.pc = pc, !.token = issued + 1, !.version = rows[i].version + 1,
                                     !.step = 1, !.again = again]
    OBVIOUS
  <1>3. /\ row \in Rows /\ row.status = "leased" /\ row.subject = rows[i].subject
        /\ row.calls = rows[i].calls /\ row.reported = rows[i].reported
    BY <1>1, <1>2, <1>a, LeasedRow
  <1>4. d \in Dispatches /\ d.pc = pc /\ d.row = i /\ d.result = "unknown" /\ d.step = 1
    BY <1>1, <1>2, <1>b DEF Dispatches
  <1>5. Rewrite(i, row) /\ Turn(w, d) /\ issued' \in Nat
    BY <1>2, <1>a, <1>b DEF LeaseRow, Rewrite
  <1>6. WorkFits(d, row)
    <2>1. pc = "call" => ~Waits(row) /\ row.calls = 0
      BY <1>1, <1>3 DEF RowFits, Waits
    <2>2. d.step \in DOMAIN Touched(row.subject, "unknown")
      BY <1>4 DEF Touched
    <2> QED BY <1>3, <1>4, <2>1, <2>2 DEF WorkFits
  <1>7. ASSUME NEW v \in Workers \ {w}, worker[v].pc = "call", worker[v].row = i
        PROVE  row.calls = rows[i].calls /\ d.pc # "call"
    <2>1. ~Waits(rows[i])
      BY <1>7, Working DEF Dispatched, WorkFits
    <2> QED BY <1>3, <1>4, <2>1
  <1>8. /\ ~Waits(row) /\ row.status \notin {"succeeded", "failed"} /\ row.calls <= 1
        /\ row.calls = 0 => row.reported = "none"
        /\ row.calls > 0 => GrantedOnce(row.subject)
    BY <1>1, <1>3 DEF RowFits, Waits
  <1>9. faults' \in Nat
    BY DEF DeliveryInv, TypeOK
  <1>10. \A v \in Workers \ {w} : worker[v].pc = "call" /\ worker[v].row = i =>
            row.calls = rows[i].calls /\ d.pc # "call"
    BY <1>7
  <1>11. /\ i \in DOMAIN rows /\ row \in Rows /\ d \in Dispatches
         /\ row.subject = rows[i].subject /\ row.reported = rows[i].reported
         /\ d.row = i
    BY <1>1, <1>3, <1>4
  <1> QED BY <1>5, <1>6, <1>8, <1>9, <1>10, <1>11, RowMoves

LEMMA ReadStep == ASSUME DeliveryInv, NEW w \in Workers, ReadRow(w) PROVE DeliveryInv'
  <1>1. PICK i : i = worker[w].row
    OBVIOUS
  <1>2. Dispatched(worker[w]) /\ worker[w].pc = "read"
    BY DEF ReadRow, WorkerAt, Dispatched
  <1>3. worker[w] \in Dispatches /\ i \in DOMAIN rows /\ rows[i] \in Rows /\ worker[w].result = "unknown"
    BY <1>1, <1>2, Working DEF WorkFits
  <1>4. ApprovalsEvolve /\ faults' \in Nat
    BY StillApprovals DEF ReadRow, approvalVars, DeliveryInv, TypeOK
  <1>5. CASE Turn(w, NoDispatch) /\ UNCHANGED <<rows, issued>>
    BY <1>4, <1>5, Stops DEF ReadRow, approvalVars
  <1>6. CASE Recover(w, i)
    <2>1. UNCHANGED <<entity, approvalVars, request, faults>>
      BY DEF ReadRow
    <2> QED BY <1>1, <1>2, <1>3, <1>6, <2>1, Leasing DEF Recover
  <1>7. CASE Turn(w, [worker[w] EXCEPT !.pc = "permit", !.version = rows[i].version]) /\ UNCHANGED <<rows, issued>>
    <2>1. PICK d : d = [worker[w] EXCEPT !.pc = "permit", !.version = rows[i].version]
      OBVIOUS
    <2>2. rows[i].version \in Nat
      BY <1>3, RowShape
    <2>3. d \in Dispatches /\ d.pc = "permit" /\ d.row = worker[w].row /\ d.result = "unknown"
      BY <1>3, <2>1, <2>2 DEF Dispatches
    <2>4. Turn(w, d) /\ UNCHANGED <<entity, rows, issued, bound, request>>
      BY <1>7, <2>1 DEF ReadRow, approvalVars
    <2> QED BY <1>2, <1>4, <2>3, <2>4, Continues
  <1> QED BY <1>1, <1>5, <1>6, <1>7 DEF ReadRow

LEMMA PermitStep == ASSUME DeliveryInv, NEW w \in Workers, AskPermit(w) PROVE DeliveryInv'
  <1>1. PICK s : s = rows[worker[w].row].subject
    OBVIOUS
  <1>2. Dispatched(worker[w]) /\ worker[w].pc = "permit"
    BY DEF AskPermit, WorkerAt, Dispatched
  <1>3. worker[w] \in Dispatches /\ s \in Subjects /\ worker[w].result = "unknown"
    BY <1>1, <1>2, Working DEF WorkFits
  <1>4. UNCHANGED <<entity, rows, issued, bound, request>> /\ faults' \in Nat
    BY DEF AskPermit, deliveryVars, DeliveryInv, TypeOK
  <1>5. CASE Permit(s) /\ StepTo(w, "activate")
    <2>1. ApprovalsEvolve /\ GrantedOnce(s)'
      BY <1>3, <1>5, Permitted DEF DeliveryInv
    <2>2. PICK d : d = [worker[w] EXCEPT !.pc = "activate"]
      OBVIOUS
    <2>3. d \in Dispatches /\ d.pc = "activate" /\ d.row = worker[w].row /\ d.result = "unknown"
      BY <1>3, <2>2 DEF Dispatches
    <2>4. Turn(w, d)
      BY <1>5, <2>2 DEF StepTo
    <2>5. GrantedOnce(rows[d.row].subject)'
      BY <1>1, <1>4, <2>1, <2>3
    <2> QED BY <1>2, <1>4, <2>1, <2>3, <2>4, <2>5, Continues
  <1>6. CASE NoPermit(s) /\ (Fail(w) \/ Turn(w, NoDispatch))
    <2>1. ApprovalsEvolve
      BY <1>3, <1>6, NotPermitted DEF DeliveryInv
    <2> QED BY <1>4, <1>6, <2>1, Stops
  <1> QED BY <1>1, <1>5, <1>6 DEF AskPermit

LEMMA ActivateStep == ASSUME DeliveryInv, NEW w \in Workers, Activate(w) PROVE DeliveryInv'
  <1>1. PICK i : i = worker[w].row
    OBVIOUS
  <1>2. Dispatched(worker[w]) /\ worker[w].pc = "activate"
    BY DEF Activate, WorkerAt, Dispatched
  <1>3. /\ worker[w] \in Dispatches /\ i \in DOMAIN rows /\ rows[i] \in Rows
        /\ worker[w].result = "unknown" /\ GrantedOnce(rows[i].subject) /\ RowFits(i)
    BY <1>1, <1>2, Working DEF WorkFits
  <1>4. ApprovalsEvolve /\ faults' \in Nat /\ issued' \in Nat /\ UNCHANGED <<entity, issued, approvalVars, request>>
    BY StillApprovals DEF Activate, approvalVars, DeliveryInv, TypeOK
  <1>5. CASE /\ rows[i].status = "awaiting_approval" /\ rows' = [rows EXCEPT ![i] = Queued(@)]
             /\ Turn(w, [worker[w] EXCEPT !.pc = "claim", !.version = @ + 1])
    <2>a. PICK row : row = Queued(rows[i])
      OBVIOUS
    <2>b. PICK d : d = [worker[w] EXCEPT !.pc = "claim", !.version = @ + 1]
      OBVIOUS
    <2>1. /\ row \in Rows /\ row.status = "queued" /\ row.subject = rows[i].subject
          /\ row.calls = rows[i].calls /\ row.reported = rows[i].reported
      BY <1>3, <2>a, QueuedRow
    <2>2. worker[w].version + 1 \in Nat
      BY <1>3, DispatchShape
    <2>3. d \in Dispatches /\ d.pc = "claim" /\ d.row = i /\ d.result = "unknown"
      BY <1>1, <1>3, <2>b, <2>2 DEF Dispatches
    <2>4. Rewrite(i, row) /\ Turn(w, d)
      BY <1>5, <2>a, <2>b DEF Rewrite
    <2>5. rows[i].calls = 0 /\ rows[i].reported = "none" /\ Waits(rows[i])
      BY <1>3, <1>5 DEF RowFits, Waits
    <2>6. WorkFits(d, row)
      BY <1>3, <2>1, <2>3 DEF WorkFits
    <2>7. d.pc # "call" /\ row.calls = 0 /\ row.reported = "none"
      BY <2>1, <2>3, <2>5
    <2>8. row.status \notin {"succeeded", "failed"}
      BY <2>1
    <2> QED BY <1>3, <1>4, <2>1, <2>3, <2>4, <2>5, <2>6, <2>7, <2>8, RowMoves
  <1>6. CASE StepTo(w, "claim") /\ UNCHANGED rows
    <2>1. PICK d : d = [worker[w] EXCEPT !.pc = "claim"]
      OBVIOUS
    <2>2. d \in Dispatches /\ d.pc = "claim" /\ d.row = worker[w].row /\ d.result = "unknown"
      BY <1>3, <2>1 DEF Dispatches
    <2>3. Turn(w, d) /\ UNCHANGED <<entity, rows, issued, bound, request>>
      BY <1>4, <1>6, <2>1 DEF StepTo, approvalVars
    <2>4. GrantedOnce(rows[d.row].subject)'
      BY <1>1, <1>3, <1>4, <2>2, <2>3 DEF GrantedOnce, approvalVars
    <2> QED BY <1>2, <1>4, <2>2, <2>3, <2>4, Continues
  <1>7. CASE Fail(w) /\ UNCHANGED rows
    BY <1>4, <1>7, Stops DEF approvalVars
  <1> QED BY <1>1, <1>5, <1>6, <1>7 DEF Activate

LEMMA ClaimStep == ASSUME DeliveryInv, NEW w \in Workers, Claim(w) PROVE DeliveryInv'
  <1>1. PICK i : i = worker[w].row
    OBVIOUS
  <1>2. Dispatched(worker[w]) /\ worker[w].pc = "claim"
    BY DEF Claim, WorkerAt, Dispatched
  <1>3. worker[w].result = "unknown" /\ GrantedOnce(rows[i].subject)
    BY <1>1, <1>2, Working DEF WorkFits
  <1>4. UNCHANGED <<entity, approvalVars, request, faults>>
    BY DEF Claim
  <1>5. CASE Claimable(w, i) /\ LeaseRow(w, i, "call", FALSE)
    <2>1. Waits(rows[i])
      BY <1>5 DEF Claimable, Waits
    <2> QED BY <1>1, <1>2, <1>3, <1>4, <1>5, <2>1, Leasing
  <1>6. CASE Fail(w) /\ UNCHANGED <<rows, issued>>
    <2>1. ApprovalsEvolve /\ faults' \in Nat
      BY <1>4, StillApprovals DEF approvalVars, DeliveryInv, TypeOK
    <2> QED BY <1>4, <1>6, <2>1, Stops DEF approvalVars
  <1> QED BY <1>1, <1>5, <1>6 DEF Claim

(* The forge may have acted; nobody else is about to. *)
LEMMA CallStep == ASSUME DeliveryInv, NEW w \in Workers, Call(w) PROVE DeliveryInv'
  <1>1. PICK i : i = worker[w].row
    OBVIOUS
  <1>2. Dispatched(worker[w]) /\ worker[w].pc = "call"
    BY DEF Call, WorkerAt, Dispatched
  <1>3. /\ worker[w] \in Dispatches /\ i \in DOMAIN rows /\ rows[i] \in Rows
        /\ worker[w].result = "unknown" /\ GrantedOnce(rows[i].subject) /\ RowFits(i)
        /\ ~Waits(rows[i]) /\ rows[i].calls = 0 /\ rows[i].reported = "none"
    BY <1>1, <1>2, Working DEF WorkFits, RowFits
  <1>4. ApprovalsEvolve /\ faults' \in Nat /\ issued' \in Nat /\ UNCHANGED <<entity, issued, approvalVars, request>>
    BY StillApprovals DEF Call, approvalVars, DeliveryInv, TypeOK
  <1>5. ~(rows[i].status \in {"succeeded", "failed"})
    BY <1>3 DEF RowFits
  <1>6. \A v \in Workers \ {w} : ~(worker[v].pc = "call" /\ worker[v].row = i)
    BY <1>1, <1>2 DEF DeliveryInv, OneCaller
  <1>7. ASSUME NEW d \in Dispatches, NEW row \in Rows, Turn(w, d), Rewrite(i, row),
               d.pc = "look", d.row = i, d.step = 1, row.status = rows[i].status,
               row.subject = rows[i].subject, row.calls = 1, d.result # "unknown" => row.reported = d.result
        PROVE  DeliveryInv'
    <2>1. WorkFits(d, row)
      BY <1>7 DEF WorkFits, Touched
    <2>2. ~Waits(row) /\ row.status \notin {"succeeded", "failed"}
      BY <1>3, <1>5, <1>7 DEF Waits
    <2> QED BY <1>3, <1>4, <1>6, <1>7, <2>1, <2>2, RowMoves
  <1>8. ASSUME NEW r \in {"succeeded", "failed"}, rows' = [rows EXCEPT ![i] = Called(@, r)],
               Turn(w, [worker[w] EXCEPT !.pc = "look", !.result = r, !.acted = TRUE])
        PROVE  DeliveryInv'
    <2>a. PICK row : row = Called(rows[i], r)
      OBVIOUS
    <2>b. PICK d : d = [worker[w] EXCEPT !.pc = "look", !.result = r, !.acted = TRUE]
      OBVIOUS
    <2>1. /\ row \in Rows /\ row.status = rows[i].status /\ row.subject = rows[i].subject
          /\ row.calls = rows[i].calls + 1 /\ row.reported = r
      BY <1>3, <2>a, CalledRow DEF Results
    <2>2. d \in Dispatches /\ d.pc = "look" /\ d.row = i /\ d.step = worker[w].step /\ d.result = r
      BY <1>1, <1>3, <2>b DEF Dispatches, Results
    <2>3. worker[w].step = 1
      BY <1>2, Working DEF WorkFits
    <2>4. Rewrite(i, row) /\ Turn(w, d)
      BY <1>8, <2>a, <2>b DEF Rewrite
    <2> QED BY <1>3, <1>7, <2>1, <2>2, <2>3, <2>4
  <1>9. ASSUME rows' = [rows EXCEPT ![i] = Called(@, rows[i].reported)],
               Turn(w, [worker[w] EXCEPT !.pc = "look", !.again = TRUE, !.acted = TRUE])
        PROVE  DeliveryInv'
    <2>a. PICK row : row = Called(rows[i], "none")
      OBVIOUS
    <2>b. PICK d : d = [worker[w] EXCEPT !.pc = "look", !.again = TRUE, !.acted = TRUE]
      OBVIOUS
    <2>1. /\ row \in Rows /\ row.status = rows[i].status /\ row.subject = rows[i].subject
          /\ row.calls = rows[i].calls + 1 /\ row.reported = "none"
      BY <1>3, <2>a, CalledRow
    <2>2. d \in Dispatches /\ d.pc = "look" /\ d.row = i /\ d.step = worker[w].step /\ d.result = "unknown"
      BY <1>1, <1>3, <2>b DEF Dispatches
    <2>3. worker[w].step = 1
      BY <1>2, Working DEF WorkFits
    <2>4. Rewrite(i, row) /\ Turn(w, d)
      BY <1>3, <1>9, <2>a, <2>b DEF Rewrite
    <2> QED BY <1>3, <1>7, <2>1, <2>2, <2>3, <2>4
  <1>10. ASSUME Turn(w, [worker[w] EXCEPT !.pc = "look", !.again = TRUE]), UNCHANGED rows
         PROVE  DeliveryInv'
    <2>1. PICK d : d = [worker[w] EXCEPT !.pc = "look", !.again = TRUE]
      OBVIOUS
    <2>2. /\ d \in Dispatches /\ d.pc = "look" /\ d.row = worker[w].row
          /\ d.step = worker[w].step /\ d.result = "unknown"
      BY <1>3, <2>1 DEF Dispatches
    <2>3. worker[w].step = 1
      BY <1>2, Working DEF WorkFits
    <2>4. d.step \in DOMAIN Touched(rows[worker[w].row].subject, d.result)
      BY <2>2, <2>3 DEF Touched
    <2>5. Turn(w, d) /\ UNCHANGED <<entity, rows, issued, bound, request>>
      BY <1>4, <1>10, <2>1 DEF approvalVars
    <2> QED BY <1>2, <1>4, <2>2, <2>4, <2>5, Continues
  <1> QED BY <1>1, <1>8, <1>9, <1>10 DEF Call

LEMMA Conflicting ==
    ASSUME DeliveryInv, ApprovalsEvolve, NEW w \in Workers, Dispatched(worker[w]), Conflict(w),
           UNCHANGED <<entity, rows, issued, bound, request>>, faults' \in Nat
    PROVE  DeliveryInv'
  <1>1. CASE Fail(w)
    BY <1>1, Stops
  <1>2. CASE Turn(w, [worker[w] EXCEPT !.pc = "look", !.step = 1, !.again = TRUE, !.result = "unknown"])
    <2>1. PICK d : d = [worker[w] EXCEPT !.pc = "look", !.step = 1, !.again = TRUE, !.result = "unknown"]
      OBVIOUS
    <2>2. worker[w] \in Dispatches
      BY Working
    <2>3. d \in Dispatches /\ d.pc = "look" /\ d.row = worker[w].row /\ d.step = 1 /\ d.result = "unknown"
      BY <2>1, <2>2 DEF Dispatches, Results
    <2>4. d.step \in DOMAIN Touched(rows[worker[w].row].subject, d.result)
      BY <2>3 DEF Touched
    <2>5. Turn(w, d)
      BY <1>2, <2>1
    <2> QED BY <2>3, <2>4, <2>5, Continues
  <1> QED BY <1>1, <1>2 DEF Conflict

(* The entities a result is written to, and what is written. *)
LEMMA TouchedEntities ==
    ASSUME NEW s \in Subjects, NEW r \in Results, NEW n \in DOMAIN Touched(s, r)
    PROVE  /\ Touched(s, r)[n] \in Entities
           /\ n \in Nat /\ Len(Touched(s, r)) \in Nat /\ DOMAIN Touched(s, r) = 1 .. Len(Touched(s, r))
           /\ Touched(s, r)[n] \in Proposals => Touched(s, r)[n] = s
           /\ Touched(s, r)[n] = "pr" => s = "pr" \/ (s \in Merges /\ r = "succeeded")
           /\ Touched(s, r)[n] \in {s, "pr", "sub"}
  <1>1. CASE s = "pr"
    <2>1. Touched(s, r) = <<"pr", "sub">>
      BY <1>1 DEF Touched
    <2> QED BY <1>1, <2>1, Keys
  <1>2. CASE s # "pr" /\ s \in Merges /\ r = "succeeded"
    <2>1. Touched(s, r) = <<s, "pr">>
      BY <1>2 DEF Touched
    <2>2. s \in Entities
      BY <1>2 DEF Entities, Proposals
    <2> QED BY <1>2, <2>1, <2>2, Keys
  <1>3. CASE s # "pr" /\ ~(s \in Merges /\ r = "succeeded")
    <2>1. Touched(s, r) = <<s>>
      BY <1>3 DEF Touched
    <2>2. s \in Entities
      BY <1>3 DEF Entities, Subjects
    <2> QED BY <1>3, <2>1, <2>2, Keys
  <1> QED BY <1>1, <1>2, <1>3

LEMMA StatusesFor ==
    ASSUME NEW s \in Subjects, NEW r \in Results, NEW e \in Entities, e \in {s, "pr", "sub"}
    PROVE  /\ StatusFor(s, e, r) \in StatusesOf(e)
           /\ r # "succeeded" => StatusFor(s, e, r) = r
           /\ e \in Proposals => StatusFor(s, e, r) = r
           /\ e = "pr" /\ r = "succeeded" => StatusFor(s, e, r) = IF s = "pr" THEN "open" ELSE "merged"
  BY KeyAssumption DEF StatusFor, Success, StatusesOf, Results, Entities, Proposals

LEMMA LookStep == ASSUME DeliveryInv, NEW w \in Workers, Look(w) PROVE DeliveryInv'
  <1>1. PICK i, s, e : /\ i = worker[w].row /\ s = rows[i].subject
                       /\ e = Touched(s, worker[w].result)[worker[w].step]
    OBVIOUS
  <1>2. Dispatched(worker[w]) /\ worker[w].pc = "look"
    BY DEF Look, WorkerAt, Dispatched
  <1>3. worker[w] \in Dispatches /\ s \in Subjects /\ worker[w].step \in DOMAIN Touched(s, worker[w].result)
    BY <1>1, <1>2, Working DEF WorkFits
  <1>4. e \in Entities
    BY <1>1, <1>3, TouchedEntities, DispatchShape DEF Results
  <1>5. entity[e].version \in Nat
    BY <1>4, EntitiesTyped DEF DeliveryInv
  <1>6. PICK d : d = [worker[w] EXCEPT !.pc = "write", !.seen = entity[e].version]
    OBVIOUS
  <1>7. /\ d \in Dispatches /\ d.pc = "write" /\ d.row = worker[w].row
        /\ d.step = worker[w].step /\ d.result = worker[w].result
    BY <1>3, <1>5, <1>6 DEF Dispatches
  <1>8. Turn(w, d)
    BY <1>1, <1>6 DEF Look
  <1>9. ApprovalsEvolve /\ faults' \in Nat /\ UNCHANGED <<entity, rows, issued, bound, request>>
    BY StillApprovals DEF Look, deliveryVars, approvalVars, DeliveryInv, TypeOK
  <1>10. d.step \in DOMAIN Touched(rows[worker[w].row].subject, d.result)
    BY <1>1, <1>3, <1>7
  <1> QED BY <1>2, <1>7, <1>8, <1>9, <1>10, Continues

(* A result is written as the forge has reported it. *)
LEMMA WriteStep == ASSUME DeliveryInv, NEW w \in Workers, WriteResult(w) PROVE DeliveryInv'
  <1>1. PICK i, s, r, es, e : /\ i = worker[w].row /\ s = rows[i].subject /\ r = worker[w].result
                              /\ es = Touched(s, r) /\ e = es[worker[w].step]
    OBVIOUS
  <1>2. Dispatched(worker[w]) /\ worker[w].pc = "write"
    BY DEF WriteResult, WorkerAt, Dispatched
  <1>3. /\ worker[w] \in Dispatches /\ i \in DOMAIN rows /\ s \in Subjects
        /\ worker[w].step \in DOMAIN Touched(s, r)
        /\ r # "unknown" => rows[i].reported = r
        /\ RowFits(i)
    BY <1>1, <1>2, Working DEF WorkFits
  <1>4. r \in Results
    BY <1>1, <1>3, DispatchShape DEF Results
  <1>5. /\ e \in Entities /\ worker[w].step \in Nat /\ Len(es) \in Nat /\ DOMAIN es = 1 .. Len(es)
        /\ e \in Proposals => e = s
        /\ e = "pr" => s = "pr" \/ (s \in Merges /\ r = "succeeded")
        /\ e \in {s, "pr", "sub"}
    BY <1>1, <1>3, <1>4, TouchedEntities
  <1>6. ApprovalsEvolve /\ faults' \in Nat /\ issued' \in Nat /\ UNCHANGED <<rows, issued, approvalVars, request>>
    BY StillApprovals DEF WriteResult, approvalVars, DeliveryInv, TypeOK
  <1>7. CASE Conflict(w) /\ UNCHANGED entity
    BY <1>2, <1>6, <1>7, Conflicting DEF approvalVars
  <1>8. ASSUME Write(e, StatusFor(s, e, r)),
               NEW d \in Dispatches, Turn(w, d), d.row = i, d.result = r, d.pc \in {"complete", "look"},
               d.pc = "look" => d.step \in DOMAIN Touched(s, r)
        PROVE  DeliveryInv'
    <2>1. PICK t : t = StatusFor(s, e, r)
      OBVIOUS
    <2>2. /\ t \in StatusesOf(e)
          /\ e \in Proposals => t = r
          /\ r # "succeeded" => t = r
          /\ e = "pr" /\ r = "succeeded" => t = IF s = "pr" THEN "open" ELSE "merged"
      BY <1>3, <1>4, <1>5, <2>1, StatusesFor
    <2>3. /\ entity' \in EntityType
          /\ \A f \in Entities : entity'[f].status \in StatusesOf(f)
          /\ entity'[e].status = t
          /\ \A f \in Entities : f # e => entity'[f] = entity[f]
      BY <1>5, <1>8, <2>1, <2>2, Writing DEF DeliveryInv
    <2>4. r # "unknown" => SaidSo(s, r)
      BY <1>1, <1>3 DEF SaidSo
    <2>5. s \in Proposals => SaidSo("pr", "succeeded")
      BY <1>1, <1>3 DEF RowFits
    <2>6. \A q, x : SaidSo(q, x)' <=> SaidSo(q, x)
      BY <1>6 DEF SaidSo
    <2>7. EntityFits'
      <3>1. ASSUME NEW q \in Proposals, NEW x \in {"succeeded", "failed"}, entity'[q].status = x
            PROVE  SaidSo(q, x)
        <4>1. CASE q = e
          BY <1>5, <2>2, <2>3, <2>4, <3>1, <4>1
        <4>2. CASE q # e
          BY <2>3, <3>1, <4>2, Keys DEF DeliveryInv, EntityFits
        <4> QED BY <4>1, <4>2
      <3>2. ASSUME entity'["pr"].status \in {"open", "merged"} PROVE SaidSo("pr", "succeeded")
        <4>1. CASE e = "pr"
          <5>1. r = "succeeded"
            BY <1>4, <2>2, <2>3, <3>2, <4>1 DEF Results
          <5> QED BY <1>5, <2>4, <2>5, <4>1, <5>1 DEF Proposals
        <4>2. CASE e # "pr"
          BY <2>3, <3>2, <4>2, Keys DEF DeliveryInv, EntityFits
        <4> QED BY <4>1, <4>2
      <3>3. ASSUME entity'["pr"].status = "merged" PROVE \E m \in Merges : SaidSo(m, "succeeded")
        <4>1. CASE e = "pr"
          <5>1. r = "succeeded" /\ s # "pr"
            BY <1>4, <2>2, <2>3, <3>3, <4>1 DEF Results
          <5> QED BY <1>5, <2>4, <4>1, <5>1
        <4>2. CASE e # "pr"
          BY <2>3, <3>3, <4>2, Keys DEF DeliveryInv, EntityFits
        <4> QED BY <4>1, <4>2
      <3>4. \A q \in Proposals : entity'[q].status \in {"succeeded", "failed"} => SaidSo(q, entity[q].status)'
        BY <1>6, <3>1 DEF SaidSo
      <3>5. entity'["pr"].status \in {"open", "merged"} => SaidSo("pr", "succeeded")'
        BY <2>6, <3>2
      <3>6. entity'["pr"].status = "merged" => \E m \in Merges : SaidSo(m, "succeeded")'
        BY <2>6, <3>3
      <3> QED BY <3>4, <3>5, <3>6 DEF EntityFits
    <2>8. RowsEvolve
      BY <1>6 DEF RowsEvolve
    <2>9. \A j \in DOMAIN rows' : RowFits(j)'
      BY <1>6, <2>8, RowStaysFit DEF DeliveryInv
    <2>10. d.row \in DOMAIN rows' /\ WorkFits(d, rows[d.row])'
      BY <1>1, <1>3, <1>6, <1>8 DEF WorkFits
    <2>11. \A v \in Workers \ {w} : worker[v].pc = "call" =>
              rows'[worker[v].row].calls = rows[worker[v].row].calls /\ (d.pc = "call" => worker[v].row # d.row)
      BY <1>6, <1>8
    <2>12. rows' \in Seq(Rows) /\ Len(rows') <= MaxRows /\ UNCHANGED <<bound, request>>
      BY <1>6 DEF approvalVars, DeliveryInv, TypeOK
    <2> QED BY <1>6, <1>8, <2>3, <2>7, <2>8, <2>9, <2>10, <2>11, <2>12, WorkerMoves DEF Turn
  <1>9. CASE worker[w].step = Len(es) /\ Write(e, StatusFor(s, e, r))
             /\ Turn(w, [worker[w] EXCEPT !.pc = "complete", !.seen = 0])
    <2>1. PICK d : d = [worker[w] EXCEPT !.pc = "complete", !.seen = 0]
      OBVIOUS
    <2>2. d \in Dispatches /\ d.pc = "complete" /\ d.row = i /\ d.result = r
      BY <1>1, <1>3, <2>1 DEF Dispatches
    <2>3. Turn(w, d)
      BY <1>9, <2>1
    <2> QED BY <1>8, <1>9, <2>2, <2>3
  <1>10. CASE worker[w].step # Len(es) /\ Write(e, StatusFor(s, e, r))
              /\ Turn(w, [worker[w] EXCEPT !.pc = "look", !.step = @ + 1, !.seen = 0])
    <2>1. PICK d : d = [worker[w] EXCEPT !.pc = "look", !.step = @ + 1, !.seen = 0]
      OBVIOUS
    <2>2. worker[w].step + 1 \in Nat /\ worker[w].step + 1 \in DOMAIN Touched(s, r)
      BY <1>1, <1>3, <1>5, <1>10
    <2>3. d \in Dispatches /\ d.pc = "look" /\ d.row = i /\ d.result = r /\ d.step = worker[w].step + 1
      BY <1>1, <1>3, <2>1, <2>2 DEF Dispatches
    <2>4. Turn(w, d)
      BY <1>10, <2>1
    <2> QED BY <1>8, <1>10, <2>2, <2>3, <2>4
  <1> QED BY <1>1, <1>7, <1>9, <1>10 DEF WriteResult

LEMMA CompleteStep == ASSUME DeliveryInv, NEW w \in Workers, Complete(w) PROVE DeliveryInv'
  <1>1. PICK i : i = worker[w].row
    OBVIOUS
  <1>2. Dispatched(worker[w]) /\ worker[w].pc = "complete"
    BY DEF Complete, WorkerAt, Dispatched
  <1>3. /\ worker[w] \in Dispatches /\ i \in DOMAIN rows /\ rows[i] \in Rows /\ RowFits(i)
        /\ worker[w].result # "unknown" => rows[i].reported = worker[w].result
    BY <1>1, <1>2, Working DEF WorkFits
  <1>4. ApprovalsEvolve /\ faults' \in Nat /\ issued' \in Nat /\ UNCHANGED <<entity, issued, approvalVars, request>>
    BY StillApprovals DEF Complete, approvalVars, DeliveryInv, TypeOK
  <1>5. CASE /\ MayComplete(w, i)
             /\ rows' = [rows EXCEPT ![i] = Completed(@, worker[w].result)]
             /\ StepTo(w, "emit")
    <2>a. PICK row : row = Completed(rows[i], worker[w].result)
      OBVIOUS
    <2>b. PICK d : d = [worker[w] EXCEPT !.pc = "emit"]
      OBVIOUS
    <2>1. worker[w].result \in Results
      BY <1>3, DispatchShape DEF Results
    <2>2. /\ row \in Rows /\ row.status = worker[w].result /\ row.subject = rows[i].subject
          /\ row.calls = rows[i].calls /\ row.reported = rows[i].reported
      BY <1>3, <2>1, <2>a, CompletedRow
    <2>3. d \in Dispatches /\ d.pc = "emit" /\ d.row = i /\ d.result = worker[w].result
      BY <1>1, <1>3, <2>b DEF Dispatches
    <2>4. Rewrite(i, row) /\ Turn(w, d)
      BY <1>5, <2>a, <2>b DEF Rewrite, StepTo
    <2>5. WorkFits(d, row)
      BY <1>3, <2>2, <2>3 DEF WorkFits
    <2>6. /\ ~Waits(row)
          /\ row.calls = 0 => row.reported = "none"
          /\ row.calls <= 1
          /\ row.calls > 0 => GrantedOnce(row.subject)
          /\ row.status \in {"succeeded", "failed"} => row.reported = row.status
      BY <1>3, <2>1, <2>2 DEF RowFits, Waits, Results
    <2>7. \A v \in Workers \ {w} : worker[v].pc = "call" /\ worker[v].row = i =>
             row.calls = rows[i].calls /\ d.pc # "call"
      BY <2>2, <2>3
    <2> QED BY <1>3, <1>4, <2>2, <2>3, <2>4, <2>5, <2>6, <2>7, RowMoves
  <1>6. CASE Conflict(w) /\ UNCHANGED rows
    BY <1>2, <1>4, <1>6, Conflicting DEF approvalVars
  <1> QED BY <1>1, <1>5, <1>6 DEF Complete

LEMMA EmitStep == ASSUME DeliveryInv, NEW w \in Workers, Emit(w) PROVE DeliveryInv'
  <1>1. Dispatched(worker[w])
    BY DEF Emit, WorkerAt, Dispatched
  <1>2. ApprovalsEvolve /\ faults' \in Nat /\ UNCHANGED <<entity, rows, issued, bound, request>>
    BY StillApprovals DEF Emit, deliveryVars, approvalVars, DeliveryInv, TypeOK
  <1>3. CASE Turn(w, NoDispatch)
    BY <1>2, <1>3, Stops
  <1>4. CASE Conflict(w)
    BY <1>1, <1>2, <1>4, Conflicting
  <1> QED BY <1>3, <1>4 DEF Emit

LEMMA CrashStep == ASSUME DeliveryInv, NEW w \in Workers, Crash(w) PROVE DeliveryInv'
  <1>1. ApprovalsEvolve /\ faults' \in Nat /\ UNCHANGED <<entity, rows, issued, bound, request>>
    BY StillApprovals DEF Crash, deliveryVars, approvalVars, DeliveryInv, TypeOK
  <1> QED BY <1>1, Stops DEF Crash

LEMMA LeaseEndsStep == ASSUME DeliveryInv, NEW i \in DOMAIN rows, LeaseEnds(i) PROVE DeliveryInv'
  <1>1. rows[i] \in Rows /\ rows \in Seq(Rows) /\ RowFits(i)
    BY RowsTyped DEF DeliveryInv, TypeOK
  <1>a. PICK row : row = Ended(rows[i])
    OBVIOUS
  <1>2. /\ row \in Rows /\ row.status = rows[i].status /\ row.subject = rows[i].subject
        /\ row.calls = rows[i].calls /\ row.reported = rows[i].reported
    BY <1>1, <1>a, EndedRow
  <1>3. rows' = [rows EXCEPT ![i] = row]
    BY <1>a DEF LeaseEnds, Ended
  <1>4. /\ rows' \in Seq(Rows) /\ Len(rows') = Len(rows) /\ DOMAIN rows' = DOMAIN rows
        /\ rows'[i] = row
        /\ \A j \in DOMAIN rows : j # i => rows'[j] = rows[j]
    BY <1>1, <1>2, <1>3, Replacing
  <1>5. RowsEvolve
    BY <1>2, <1>4 DEF RowsEvolve, Waits
  <1>6. ApprovalsEvolve /\ faults' \in Nat /\ UNCHANGED <<entity, issued, approvalVars, request, worker>>
    BY StillApprovals DEF LeaseEnds, approvalVars, DeliveryInv, TypeOK
  <1>7. TypeOK'
    BY <1>4, <1>6 DEF approvalVars, DeliveryInv, TypeOK
  <1>8. ASSUME NEW j \in DOMAIN rows' PROVE RowFits(j)'
    <2>1. CASE j # i
      BY <1>4, <1>5, <1>6, <2>1, RowStaysFit DEF DeliveryInv
    <2>2. CASE j = i
      <3>1. SaidSo("pr", "succeeded") => SaidSo("pr", "succeeded")'
        BY <1>5, SaidSoStays
      <3> QED BY <1>1, <1>2, <1>4, <1>6, <2>2, <3>1 DEF RowFits, Waits, GrantedOnce, approvalVars
    <2> QED BY <2>1, <2>2
  <1>9. ASSUME NEW w \in Workers PROVE DispatchFits(w)'
    <2>1. DispatchFits(w) /\ worker'[w] = worker[w]
      BY <1>6 DEF DeliveryInv
    <2>2. worker[w].pc = "call" => rows'[worker[w].row].calls = rows[worker[w].row].calls
      BY <1>2, <1>4, <2>1 DEF DispatchFits, Dispatched
    <2> QED BY <1>5, <1>6, <2>1, <2>2, DispatchStaysFit DEF DeliveryInv
  <1>10. OneCaller'
    BY <1>6 DEF DeliveryInv, OneCaller
  <1>11. \A c \in Callers : RequestFits(c)'
    BY <1>5, <1>6, RequestStaysFit DEF DeliveryInv
  <1>12. EntityFits'
    BY <1>5, <1>6, StillEntities
  <1> QED BY <1>4, <1>7, <1>8, <1>9, <1>10, <1>11, <1>12 DEF DeliveryInv

-----------------------------------------------------------------------------
(* The theorems.                                                           *)

LEMMA InitInv == Init => DeliveryInv
  <1> SUFFICES ASSUME Init PROVE DeliveryInv
    OBVIOUS
  <1>1. TypeOK
    <2>1. entity \in [Entities -> [status : UNION {StatusesOf(e) : e \in Entities}, version : Nat]]
      BY Keys DEF Init, StatusesOf
    <2>2. \A e \in Entities : entity[e].status \in StatusesOf(e)
      BY DEF Init, StatusesOf
    <2>3. approval \in [Subjects -> Lifecycle!Statuses]
      BY DEF Init, Lifecycle!Init, Lifecycle!Statuses
    <2> QED BY <2>1, <2>2, <2>3, NoRequestTyped, NoDispatchTyped DEF Init, TypeOK
  <1>2. rows = <<>> /\ Len(rows) <= MaxRows /\ DOMAIN rows = {}
    BY NumberAssumption DEF Init
  <1>3. \A w \in Workers : worker[w].pc = "idle"
    BY DEF Init, NoDispatch
  <1>4. \A c \in Callers : request[c].pc = "idle"
    BY DEF Init, NoRequest
  <1>5. \A e \in Entities : entity[e].status = "none"
    BY DEF Init
  <1>6. \A w \in Workers : DispatchFits(w)
    BY <1>3 DEF DispatchFits, Dispatched
  <1>7. OneCaller
    BY <1>3 DEF OneCaller
  <1>8. \A c \in Callers : RequestFits(c)
    BY <1>4 DEF RequestFits, At
  <1>9. EntityFits
    BY <1>5, Keys DEF EntityFits
  <1> QED BY <1>1, <1>2, <1>6, <1>7, <1>8, <1>9 DEF DeliveryInv

LEMMA StepInv == DeliveryInv /\ [Next]_vars => DeliveryInv'
  <1> SUFFICES ASSUME DeliveryInv, [Next]_vars PROVE DeliveryInv'
    OBVIOUS
  <1>1. ASSUME NEW s \in Subjects, Decide(s) PROVE DeliveryInv'
    BY <1>1, Decision
  <1>2. ASSUME NEW c \in Callers, RequestStep(c) PROVE DeliveryInv'
    BY <1>2, RequestSteps
  <1>3. ASSUME NEW w \in Workers, Dispatch(w) PROVE DeliveryInv'
    BY <1>3, PickStep, ReadStep, PermitStep, ActivateStep, ClaimStep, CallStep, LookStep, WriteStep,
       CompleteStep, EmitStep DEF Dispatch
  <1>4. ASSUME NEW w \in Workers, Crash(w) PROVE DeliveryInv'
    BY <1>4, CrashStep
  <1>5. ASSUME NEW i \in DOMAIN rows, LeaseEnds(i) PROVE DeliveryInv'
    BY <1>5, LeaseEndsStep
  <1>6. CASE UNCHANGED vars
    <2>1. UNCHANGED <<entity, approval, bound, rows, issued, request, worker, faults>>
      BY <1>6 DEF vars, deliveryVars, approvalVars
    <2>2. TypeOK' /\ OneCaller' /\ Len(rows') <= MaxRows
      BY <2>1 DEF DeliveryInv, TypeOK, OneCaller
    <2>3. RowsEvolve /\ ApprovalsEvolve
      BY <2>1, StillApprovals DEF RowsEvolve, DeliveryInv
    <2>4. EntityFits'
      BY <2>1, <2>3, StillEntities
    <2>5. /\ \A i \in DOMAIN rows' : RowFits(i)'
          /\ \A w \in Workers : DispatchFits(w)'
          /\ \A c \in Callers : RequestFits(c)'
      BY <2>1, <2>3, RowStaysFit, DispatchStaysFit, RequestStaysFit DEF DeliveryInv
    <2> QED BY <2>2, <2>4, <2>5 DEF DeliveryInv
  <1> QED BY <1>1, <1>2, <1>3, <1>4, <1>5, <1>6 DEF Next

LEMMA Invariance == Spec => []DeliveryInv
  BY InitInv, StepInv, PTL DEF Spec

(* The rows of the outbox, the entities and approvals, and what requests   *)
(* and workers carry from one transaction to the next keep to their types. *)
THEOREM TypeCorrect == Spec => []TypeOK
  <1>1. DeliveryInv => TypeOK
    BY DEF DeliveryInv
  <1> QED BY <1>1, Invariance, PTL

(* However many workers race for a row, crash, or lose its lease, the      *)
(* forge is called at most once for it (claimOutbox, reclaimExpiredOutbox).*)
THEOREM RowsActOnce == Spec => []RowActsOnce
  <1>1. DeliveryInv => RowActsOnce
    BY DEF DeliveryInv, RowFits, RowActsOnce
  <1> QED BY <1>1, Invariance, PTL

(* What has left for the forge left under a grant, though approval, permit *)
(* and row are read at different times (prepareProtectedOutbox).           *)
THEOREM ActionsAreGranted == Spec => []ActedOnlyIfGranted
  <1>1. DeliveryInv => ActedOnlyIfGranted
    BY DEF DeliveryInv, RowFits, GrantedOnce, ActedOnlyIfGranted
  <1> QED BY <1>1, Invariance, PTL

(* No row, proposal or pull request reads an outcome that the forge has    *)
(* not reported (recordExternalResultInternal, applyEntityResult).         *)
THEOREM RecordsAreReal == Spec => []OutcomesAreReal
  <1>1. DeliveryInv => OutcomesAreReal
    BY DEF DeliveryInv, RowFits, EntityFits, OutcomesAreReal
  <1> QED BY <1>1, Invariance, PTL

-----------------------------------------------------------------------------
(* The outbox is a work queue.                                             *)

StateOf(row) ==
    IF row.status \in Results THEN "settled" ELSE IF row.status = "leased" THEN "leased" ELSE "ready"

StateMap == [i \in 1 .. MaxRows |-> QueueState(i)]
HolderMap == [i \in 1 .. MaxRows |-> IF i \in DOMAIN rows THEN rows[i].token ELSE 0]

LEMMA QueueReads ==
    ASSUME NEW i
    PROVE  /\ i \in DOMAIN rows => QueueState(i) = StateOf(rows[i])
           /\ i \notin DOMAIN rows => QueueState(i) = "absent"
           /\ i \in DOMAIN rows' => QueueState(i)' = StateOf(rows'[i])
           /\ i \notin DOMAIN rows' => QueueState(i)' = "absent"
  BY DEF QueueState, Terminal, StateOf

LEMMA QueueMoves ==
    ASSUME NEW i \in 1 .. MaxRows, i \in DOMAIN rows', NEW s, s = StateOf(rows'[i]),
           NEW token, token = rows'[i].token,
           \A j \in 1 .. MaxRows : j # i =>
                (j \in DOMAIN rows' <=> j \in DOMAIN rows) /\ (j \in DOMAIN rows => rows'[j] = rows[j])
    PROVE  Queue!Move(i, s, token)
  <1>1. \A j \in 1 .. MaxRows : j # i => QueueState(j)' = QueueState(j)
    BY QueueReads
  <1>2. QueueState(i)' = s
    BY QueueReads
  <1>3. StateMap' = [StateMap EXCEPT ![i] = s]
    BY <1>1, <1>2 DEF StateMap
  <1>4. HolderMap' = [HolderMap EXCEPT ![i] = token]
    BY DEF HolderMap
  <1> QED BY <1>3, <1>4 DEF Queue!Move, StateMap, HolderMap

(* A row rewritten: the queue sees its state and its token. *)
LEMMA QueueRewrites ==
    ASSUME DeliveryInv, NEW i \in DOMAIN rows, NEW row \in Rows, Rewrite(i, row),
           NEW s, s = StateOf(row), NEW token, token = row.token
    PROVE  /\ i \in 1 .. MaxRows /\ StateMap[i] = StateOf(rows[i])
           /\ Queue!Move(i, s, token)
           /\ StateOf(row) = StateOf(rows[i]) /\ row.token = rows[i].token => UNCHANGED <<StateMap, HolderMap>>
  <1>1. /\ rows' \in Seq(Rows) /\ Len(rows') = Len(rows) /\ DOMAIN rows' = DOMAIN rows
        /\ rows'[i] = row
        /\ \A j \in DOMAIN rows : j # i => rows'[j] = rows[j]
    BY Replacing DEF Rewrite, DeliveryInv, TypeOK
  <1>2. i \in 1 .. MaxRows
    BY NumberAssumption DEF DeliveryInv, TypeOK
  <1>3. StateMap[i] = StateOf(rows[i])
    BY <1>2, QueueReads DEF StateMap
  <1>4. Queue!Move(i, s, token)
    BY <1>1, <1>2, QueueMoves
  <1>5. ASSUME StateOf(row) = StateOf(rows[i]), row.token = rows[i].token
        PROVE  UNCHANGED <<StateMap, HolderMap>>
    <2>1. \A j \in 1 .. MaxRows : QueueState(j)' = QueueState(j)
      BY <1>1, <1>5, QueueReads
    <2>2. StateMap' = StateMap
      BY <2>1 DEF StateMap
    <2>3. HolderMap' = HolderMap
      BY <1>1, <1>5 DEF HolderMap
    <2> QED BY <2>2, <2>3
  <1> QED BY <1>2, <1>3, <1>4, <1>5

QueueStep == Queue!Next \/ UNCHANGED Queue!queueVars

LEMMA QueueRests ==
    UNCHANGED <<StateMap, HolderMap, issued>> => QueueStep
  BY DEF QueueStep, Queue!queueVars, StateMap, HolderMap

LEMMA RowsRest == UNCHANGED <<rows, issued>> => QueueStep
  BY DEF QueueStep, Queue!queueVars, QueueState, Terminal

LEMMA QueueLeases ==
    ASSUME DeliveryInv, NEW w \in Workers, NEW i \in DOMAIN rows, NEW pc, NEW again,
           LeaseRow(w, i, pc, again), rows[i].status \notin Results
    PROVE  QueueStep
  <1>1. rows[i] \in Rows /\ issued \in Nat /\ issued + 1 \in Nat
    BY RowsTyped DEF DeliveryInv, TypeOK
  <1>2. PICK row : row = Leased(rows[i], issued + 1)
    OBVIOUS
  <1>3. row \in Rows /\ row.status = "leased" /\ row.token = issued + 1
    BY <1>1, <1>2, LeasedRow
  <1>4. Rewrite(i, row) /\ issued' = issued + 1
    BY <1>2 DEF LeaseRow, Rewrite
  <1>6. StateOf(row) = "leased" /\ StateOf(rows[i]) \in {"ready", "leased"}
    BY <1>3 DEF StateOf, Results
  <1>a. PICK token : token = issued + 1
    OBVIOUS
  <1>5. /\ i \in 1 .. MaxRows /\ StateMap[i] = StateOf(rows[i])
        /\ Queue!Move(i, "leased", token)
    BY <1>3, <1>4, <1>6, <1>a, QueueRewrites
  <1>8. StateMap[i] \in {"ready", "leased"}
    BY <1>5, <1>6
  <1>9. Queue!Lease(i)
    BY <1>1, <1>4, <1>5, <1>8, <1>a DEF Queue!Lease, Queue!Move, StateMap
  <1> QED BY <1>5, <1>9 DEF QueueStep, Queue!Next

LEMMA QueueSubmits ==
    ASSUME DeliveryInv, NEW s \in Subjects, NEW status \in {"awaiting_approval", "queued"},
           Len(rows) < MaxRows, rows' = Append(rows, NewRow(s, status)), UNCHANGED issued
    PROVE  QueueStep
  <1>1. PICK row : row = NewRow(s, status)
    OBVIOUS
  <1>2. row \in Rows /\ row.status = status /\ row.token = 0
    BY <1>1, NewRowTyped
  <1>3. /\ Len(rows) \in Nat /\ DOMAIN rows = 1 .. Len(rows) /\ DOMAIN rows' = 1 .. Len(rows) + 1
        /\ rows'[Len(rows) + 1] = row
        /\ \A j \in DOMAIN rows : rows'[j] = rows[j]
    BY <1>1, <1>2, Appending DEF DeliveryInv, TypeOK
  <1>4. PICK i : i = Len(rows) + 1
    OBVIOUS
  <1>5. i \in 1 .. MaxRows /\ i \notin DOMAIN rows /\ i \in DOMAIN rows'
    BY <1>3, <1>4, NumberAssumption
  <1>6. StateOf(row) = "ready"
    BY <1>2 DEF StateOf, Results
  <1>7. \A j \in 1 .. MaxRows : j # i =>
            (j \in DOMAIN rows' <=> j \in DOMAIN rows) /\ (j \in DOMAIN rows => rows'[j] = rows[j])
    BY <1>3, <1>4
  <1>8. Queue!Move(i, "ready", 0)
    BY <1>2, <1>3, <1>4, <1>5, <1>6, <1>7, QueueMoves
  <1>9. StateMap[i] = "absent"
    BY <1>5, QueueReads DEF StateMap
  <1>10. Queue!Submit(i)
    BY <1>8, <1>9 DEF Queue!Submit, StateMap
  <1> QED BY <1>5, <1>10 DEF QueueStep, Queue!Next

LEMMA QueueNext == DeliveryInv /\ [Next]_vars => QueueStep
  <1> SUFFICES ASSUME DeliveryInv, [Next]_vars PROVE QueueStep
    OBVIOUS
  <1>1. ASSUME NEW c \in Callers, RequestStep(c) PROVE QueueStep
    <2>1. CASE QueuePullRequest(c)
      BY <2>1, QueueSubmits, RowsRest, Keys DEF QueuePullRequest
    <2>2. CASE QueueProposal(c)
      <3>1. request[c].subject \in Subjects
        BY RequestsTyped DEF DeliveryInv
      <3> QED BY <2>2, <3>1, QueueSubmits DEF QueueProposal
    <2> QED BY <1>1, <2>1, <2>2, RowsRest
            DEF RequestStep, Submit, InsertSubmission, OpenPullRequest, InsertPullRequest, MarkQueued,
                Propose, AskForProposal, InsertProposal, DropRequest, deliveryVars
  <1>2. ASSUME NEW w \in Workers, Dispatched(worker[w]) PROVE worker[w].row \in DOMAIN rows /\ rows[worker[w].row] \in Rows
    BY <1>2, Working
  <1>3. ASSUME NEW w \in Workers, ReadRow(w) PROVE QueueStep
    <2>1. worker[w].row \in DOMAIN rows
      BY <1>2, <1>3 DEF ReadRow, WorkerAt, Dispatched
    <2>2. CASE rows[worker[w].row].status = "leased" /\ Recover(w, worker[w].row)
      BY <2>1, <2>2, QueueLeases DEF Recover, Results
    <2> QED BY <1>3, <2>2, RowsRest DEF ReadRow
  <1>4. ASSUME NEW w \in Workers, Activate(w) PROVE QueueStep
    <2>1. worker[w].row \in DOMAIN rows /\ rows[worker[w].row] \in Rows
      BY <1>2, <1>4 DEF Activate, WorkerAt, Dispatched
    <2>2. PICK i : i = worker[w].row
      OBVIOUS
    <2>3. CASE rows[i].status = "awaiting_approval" /\ rows' = [rows EXCEPT ![i] = Queued(@)]
      <3>1. PICK row : row = Queued(rows[i])
        OBVIOUS
      <3>2. row \in Rows /\ row.status = "queued" /\ row.token = rows[i].token
        BY <2>1, <2>2, <3>1, QueuedRow
      <3>3. Rewrite(i, row)
        BY <2>3, <3>1 DEF Rewrite
      <3>4. StateOf(row) = StateOf(rows[i])
        BY <2>3, <3>2 DEF StateOf, Results
      <3> QED BY <1>4, <2>1, <2>2, <3>2, <3>3, <3>4, QueueRewrites, QueueRests DEF Activate
    <2> QED BY <1>4, <2>2, <2>3, RowsRest DEF Activate
  <1>5. ASSUME NEW w \in Workers, Claim(w) PROVE QueueStep
    <2>1. worker[w].row \in DOMAIN rows
      BY <1>2, <1>5 DEF Claim, WorkerAt, Dispatched
    <2>2. CASE Claimable(w, worker[w].row) /\ LeaseRow(w, worker[w].row, "call", FALSE)
      BY <2>1, <2>2, QueueLeases DEF Claimable, Results
    <2> QED BY <1>5, <2>2, RowsRest DEF Claim
  <1>6. ASSUME NEW w \in Workers, Call(w) PROVE QueueStep
    <2>1. worker[w].row \in DOMAIN rows /\ rows[worker[w].row] \in Rows
      BY <1>2, <1>6 DEF Call, WorkerAt, Dispatched
    <2>2. PICK i : i = worker[w].row
      OBVIOUS
    <2>3. ASSUME NEW r \in Results \cup {"none"}, rows' = [rows EXCEPT ![i] = Called(@, r)] PROVE QueueStep
      <3>1. PICK row : row = Called(rows[i], r)
        OBVIOUS
      <3>2. row \in Rows /\ row.status = rows[i].status /\ row.token = rows[i].token
        BY <2>1, <2>2, <3>1, CalledRow
      <3>3. Rewrite(i, row)
        BY <2>3, <3>1 DEF Rewrite
      <3>4. StateOf(row) = StateOf(rows[i])
        BY <3>2 DEF StateOf
      <3> QED BY <1>6, <2>1, <2>2, <3>2, <3>3, <3>4, QueueRewrites, QueueRests DEF Call
    <2>4. rows[i].reported \in Results \cup {"none"}
      BY <2>1, <2>2, RowShape DEF Results
    <2>5. {"succeeded", "failed"} \subseteq Results \cup {"none"}
      BY DEF Results
    <2> QED BY <1>6, <2>2, <2>3, <2>4, <2>5, RowsRest DEF Call
  <1>7. ASSUME NEW w \in Workers, Complete(w) PROVE QueueStep
    <2>1. worker[w].row \in DOMAIN rows /\ rows[worker[w].row] \in Rows
      BY <1>2, <1>7 DEF Complete, WorkerAt, Dispatched
    <2>2. PICK i : i = worker[w].row
      OBVIOUS
    <2>3. CASE MayComplete(w, i) /\ rows' = [rows EXCEPT ![i] = Completed(@, worker[w].result)]
      <3>1. PICK row : row = Completed(rows[i], worker[w].result)
        OBVIOUS
      <3>2. worker[w].result \in Results
        BY WorkersTyped, DispatchShape DEF DeliveryInv, Results
      <3>3. row \in Rows /\ row.status = worker[w].result /\ row.token = 0
        BY <2>1, <2>2, <3>1, <3>2, CompletedRow
      <3>4. Rewrite(i, row) /\ UNCHANGED issued
        BY <1>7, <2>3, <3>1 DEF Rewrite, Complete
      <3>5. StateOf(row) = "settled" /\ StateOf(rows[i]) = "leased"
        BY <2>3, <3>2, <3>3 DEF StateOf, Results, MayComplete, Holds
      <3>6. /\ i \in 1 .. MaxRows /\ StateMap[i] = StateOf(rows[i])
            /\ Queue!Move(i, "settled", 0)
        BY <2>1, <2>2, <3>3, <3>4, <3>5, QueueRewrites
      <3>7. Queue!Settle(i)
        BY <3>3, <3>4, <3>5, <3>6 DEF Queue!Settle, StateMap
      <3> QED BY <3>6, <3>7 DEF QueueStep, Queue!Next
    <2> QED BY <1>7, <2>2, <2>3, RowsRest DEF Complete
  <1>8. ASSUME NEW i \in DOMAIN rows, LeaseEnds(i) PROVE QueueStep
    <2>1. rows[i] \in Rows
      BY RowsTyped DEF DeliveryInv
    <2>2. PICK row : row = Ended(rows[i])
      OBVIOUS
    <2>3. row \in Rows /\ row.status = rows[i].status /\ row.token = rows[i].token
      BY <2>1, <2>2, EndedRow
    <2>4. Rewrite(i, row) /\ UNCHANGED issued
      BY <1>8, <2>2 DEF LeaseEnds, Rewrite, Ended
    <2>5. StateOf(row) = StateOf(rows[i])
      BY <2>3 DEF StateOf
    <2> QED BY <2>3, <2>4, <2>5, QueueRewrites, QueueRests
  <1>9. ASSUME NEW w \in Workers, Dispatch(w) PROVE QueueStep
    BY <1>3, <1>4, <1>5, <1>6, <1>7, <1>9, RowsRest
       DEF Dispatch, Pick, AskPermit, Look, WriteResult, Emit, deliveryVars
  <1>10. ASSUME NEW w \in Workers, Crash(w) PROVE QueueStep
    BY <1>10, RowsRest DEF Crash, deliveryVars
  <1>11. ASSUME NEW s \in Subjects, Decide(s) PROVE QueueStep
    BY <1>11, RowsRest DEF Decide, deliveryVars
  <1>12. CASE UNCHANGED vars
    BY <1>12, RowsRest DEF vars, deliveryVars
  <1> QED BY <1>1, <1>8, <1>9, <1>10, <1>11, <1>12 DEF Next

(* The outbox, its requests and its workers implement the abstract work    *)
(* queue: one lease at a time, each under a new token, and a row with an   *)
(* outcome is never leased again.                                          *)
THEOREM OutboxIsAWorkQueue == Spec => ImplementsWorkQueue
  <1>1. Init => Queue!Init
    <2> SUFFICES ASSUME Init PROVE Queue!Init
      OBVIOUS
    <2>1. DOMAIN rows = {}
      BY DEF Init
    <2>2. \A i \in 1 .. MaxRows : QueueState(i) = "absent" /\ i \notin DOMAIN rows
      BY <2>1, QueueReads
    <2> QED BY <2>2 DEF Init, Queue!Init
  <1>2. DeliveryInv /\ [Next]_vars => [Queue!Next]_(Queue!queueVars)
    BY QueueNext DEF QueueStep
  <1> QED BY <1>1, <1>2, Invariance, PTL DEF Spec, ImplementsWorkQueue, Queue!Spec
=============================================================================
