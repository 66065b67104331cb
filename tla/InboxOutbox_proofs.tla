------------------------- MODULE InboxOutbox_proofs -------------------------
(***************************************************************************)
(* What the way from a webhook to a publication or a reply promises for    *)
(* any numbers of events, deliveries, workers, leases and faults.          *)
(***************************************************************************)
EXTENDS InboxOutbox, FiniteSetTheorems, TLAPS

-----------------------------------------------------------------------------
(* The inductive invariant.                                                *)

(* A request past its replay claim carries the receipt time that was       *)
(* claimed first; rows are stored under that time only, and before anybody *)
(* acknowledges.                                                           *)
IngressFits ==
    /\ \A d \in ingress :
        /\ d.step # "verified" => replay[d.event] = d.stamp
        /\ d.step = "stored" => rows["inbox"][<<d.event, d.stamp>>].status # "absent"
    /\ \A e \in Events, s \in Stamps : rows["inbox"][<<e, s>>].status # "absent" => replay[e] = s
    /\ \A e \in acked : replay[e] \in Stamps /\ rows["inbox"][<<e, replay[e]>>].status # "absent"

(* A worker has a row at hand; only inbox workers handle messages, whose   *)
(* reply is an answer or an empty one, and report a success, for a domain  *)
(* event after it is in the outbox.                                        *)
FitsWork(w, d) ==
    /\ d.phase \in Handling \cup {"report"} => d.id \in Ids
    /\ d.phase \in {"inserting", "thinking", "replying"} => w \in InboxWorkers /\ d.id[1] \in Messages
    /\ d.phase = "replying" => d.note \in {"answer", "empty"}
    /\ d.phase = "report" /\ d.note = "done" =>
        w \in InboxWorkers /\ (d.id[1] \in DomainEvents => rows["outbox"][d.id].status # "absent")
HandlingFits == \A w \in Workers : FitsWork(w, worker[w])

(* What left the inbox arrived in the outbox, and what left the outbox has *)
(* one receipt.                                                            *)
OutboxFits ==
    /\ \A i \in Ids : rows["inbox"][i].status = "done" /\ i[1] \in DomainEvents => rows["outbox"][i].status # "absent"
    /\ \A r, s \in receipts : r[1] = s[1] => r = s
    /\ \A i \in Ids : Published(i) <=> rows["outbox"][i].status = "done"

(* Who plans has inserted the run, and nobody else plans for it.           *)
Plans(w) == worker[w].phase = "thinking"
PlannerFits ==
    /\ \A w \in Workers : Plans(w) => run[worker[w].id] = "running"
    /\ \A v, w \in Workers : Plans(v) /\ Plans(w) /\ worker[v].id = worker[w].id => v = w

EventInv == TypeOK /\ IngressFits /\ HandlingFits /\ OutboxFits /\ PlannerFits

-----------------------------------------------------------------------------
(* Types of the parts.                                                     *)

Notes == {"none", "done", "retry", "failed", "answer", "empty"}

LEMMA PairShape ==
    /\ \A e \in Events, t \in Stamps : <<e, t>> \in Ids
    /\ \A i \in Ids : i[1] \in Events /\ i[2] \in Stamps /\ i = <<i[1], i[2]>>
  BY DEF Ids

LEMMA StampShape == \A t \in Stamps : t \in Nat /\ t # 0
  BY NumberAssumption DEF Stamps

LEMMA RowsTyped ==
    ASSUME TypeOK, NEW q \in Queues, NEW i \in Ids
    PROVE  rows[q][i] \in Row
  BY DEF TypeOK

LEMMA RowShape ==
    ASSUME NEW row \in Row
    PROVE  /\ row.status \in RowStatus /\ row.attempts \in Nat /\ row.token \in Nat
           /\ row.left \in Int /\ row.wait \in Int
  BY DEF Row

LEMMA RowChange ==
    ASSUME TypeOK, NEW q \in Queues, NEW i \in Ids, NEW row \in Row, rows' = [rows EXCEPT ![q][i] = row]
    PROVE  /\ rows' \in [Queues -> [Ids -> Row]]
           /\ rows'[q][i] = row
           /\ \A p \in Queues, j \in Ids : p # q \/ j # i => rows'[p][j] = rows[p][j]
  BY DEF TypeOK

LEMMA NewRowShape ==
    NewRow \in Row /\ NewRow.status = "waiting" /\ NewRow.token = 0
  <1>1. PICK r : r = NoRow
    OBVIOUS
  <1>2. r \in Row /\ r.token = 0
    BY <1>1 DEF NoRow, Row, RowStatus
  <1>3. NewRow = [r EXCEPT !.status = "waiting"]
    BY <1>1 DEF NewRow
  <1> QED BY <1>2, <1>3 DEF Row, RowStatus

LEMMA WorkersTyped ==
    ASSUME TypeOK, NEW w \in Workers
    PROVE  worker[w] \in WorkerState
  BY DEF TypeOK

LEMMA WorkerShape ==
    ASSUME NEW d \in WorkerState
    PROVE  /\ d.phase \in Phase /\ d.id \in Ids \cup {NoId} /\ d.token \in Nat /\ d.age \in Nat
           /\ d.found \subseteq Ids /\ d.note \in Notes
  BY DEF WorkerState, Notes

LEMMA IdleShape ==
    Idle \in WorkerState /\ Idle.phase = "idle" /\ Idle.token = 0
  BY DEF Idle, WorkerState, Phase

LEMMA WorkerTurns ==
    ASSUME TypeOK, NEW w \in Workers, NEW d \in WorkerState, worker' = [worker EXCEPT ![w] = d]
    PROVE  /\ worker' \in [Workers -> WorkerState]
           /\ worker'[w] = d
           /\ \A v \in Workers \ {w} : worker'[v] = worker[v]
  BY DEF TypeOK

(* Goes changes phase and note and nothing else.                           *)
LEMMA GoesTurns ==
    ASSUME TypeOK, NEW w \in Workers, NEW phase \in Phase, NEW note \in Notes, Goes(w, phase, note)
    PROVE  \E d \in WorkerState :
             /\ worker' = [worker EXCEPT ![w] = d]
             /\ d.phase = phase /\ d.note = note /\ d.id = worker[w].id /\ d.token = worker[w].token
  <1>1. PICK d : d = [worker[w] EXCEPT !.phase = phase, !.note = note]
    OBVIOUS
  <1>2. /\ d \in WorkerState
        /\ d.phase = phase /\ d.note = note /\ d.id = worker[w].id /\ d.token = worker[w].token
    BY <1>1, WorkersTyped DEF WorkerState, Notes
  <1>3. worker' = [worker EXCEPT ![w] = d]
    BY <1>1 DEF Goes
  <1> QED BY <1>2, <1>3

LEMMA QueuesDiffer ==
    /\ Queues = {"inbox", "outbox"} /\ "inbox" \in Queues /\ "outbox" \in Queues
    /\ \A w \in Workers : QueueOf(w) \in Queues
    /\ \A w \in InboxWorkers : QueueOf(w) = "inbox" /\ w \in Workers /\ w \notin OutboxWorkers
    /\ \A w \in OutboxWorkers : QueueOf(w) = "outbox" /\ w \in Workers /\ w \notin InboxWorkers
    /\ \A w \in Workers : w \notin InboxWorkers => w \in OutboxWorkers
  BY EventAssumption DEF Queues, QueueOf, Workers

(* Ageing changes the times of a row only.                                 *)
Aged(r) == [r EXCEPT !.left = IF r.status = "processing" THEN Lower(@) ELSE @,
                     !.wait = IF r.status \in Waiting THEN Lower(@) ELSE @]

LEMMA AgedRow ==
    ASSUME NEW r \in Row
    PROVE  Aged(r) \in Row /\ Aged(r).status = r.status /\ Aged(r).token = r.token
  <1>1. Lower(r.left) \in Int /\ Lower(r.wait) \in Int
    BY RowShape DEF Lower
  <1> QED BY <1>1 DEF Aged, Row

Grown(d) == [d EXCEPT !.age = Older(@)]

LEMMA GrownWorker ==
    ASSUME NEW d \in WorkerState
    PROVE  Grown(d) \in WorkerState /\ Grown(d).phase = d.phase /\ Grown(d).id = d.id /\ Grown(d).note = d.note
  <1>1. Older(d.age) \in Nat
    BY WorkerShape, NumberAssumption DEF Older
  <1> QED BY <1>1 DEF Grown, WorkerState

LEMMA TickAges ==
    ASSUME TypeOK, Tick
    PROVE  /\ rows' \in [Queues -> [Ids -> Row]]
           /\ \A q \in Queues, i \in Ids : rows'[q][i] = Aged(rows[q][i])
           /\ worker' \in [Workers -> WorkerState]
           /\ \A w \in Workers : /\ worker'[w].phase = worker[w].phase
                                 /\ worker'[w].id = worker[w].id
                                 /\ worker'[w].note = worker[w].note
  <1>1. rows' = [q \in Queues |-> [i \in Ids |-> Aged(rows[q][i])]]
    BY DEF Tick, Aged
  <1>2. \A q \in Queues, i \in Ids : Aged(rows[q][i]) \in Row
    BY RowsTyped, AgedRow
  <1>3. worker' = [w \in Workers |-> IF worker[w].phase \in Polls THEN Grown(worker[w]) ELSE worker[w]]
    BY DEF Tick, Grown
  <1>4. \A w \in Workers : /\ Grown(worker[w]) \in WorkerState
                           /\ Grown(worker[w]).phase = worker[w].phase
                           /\ Grown(worker[w]).id = worker[w].id
                           /\ Grown(worker[w]).note = worker[w].note
    BY WorkersTyped, GrownWorker
  <1>5. rows' \in [Queues -> [Ids -> Row]] /\ \A q \in Queues, i \in Ids : rows'[q][i] = Aged(rows[q][i])
    BY <1>1, <1>2
  <1>6. \A w \in Workers : worker'[w] = IF worker[w].phase \in Polls THEN Grown(worker[w]) ELSE worker[w]
    BY <1>3
  <1>7. \A w \in Workers : worker'[w] \in WorkerState
    BY <1>4, <1>6, WorkersTyped
  <1>8. worker' \in [Workers -> WorkerState]
    BY <1>3, <1>7
  <1> QED BY <1>4, <1>5, <1>6, <1>8

-----------------------------------------------------------------------------
LEMMA InitEstablishes == Init => EventInv
  <1> SUFFICES ASSUME Init PROVE EventInv
    OBVIOUS
  <1>1. TypeOK
    <2>1. NoRow \in Row
      BY DEF NoRow, Row, RowStatus
    <2> QED BY <2>1, IdleShape, NumberAssumption DEF Init, TypeOK
  <1>2. \A q \in Queues, i \in Ids : rows[q][i].status = "absent"
    BY DEF Init, NoRow
  <1>3. IngressFits
    BY <1>2, PairShape, QueuesDiffer DEF Init, IngressFits
  <1>4. HandlingFits
    BY IdleShape DEF Init, HandlingFits, FitsWork, Handling
  <1>5. OutboxFits
    BY <1>2, QueuesDiffer DEF Init, OutboxFits, Published
  <1>6. PlannerFits
    BY IdleShape DEF Init, PlannerFits, Plans
  <1> QED BY <1>1, <1>3, <1>4, <1>5, <1>6 DEF EventInv

(* Time changes nothing that the invariant speaks of.                      *)
LEMMA TickKeeps ==
    ASSUME EventInv, Tick
    PROVE  EventInv'
  <1>1. TypeOK
    BY DEF EventInv
  <1>0. UNCHANGED <<ingress, replay, acked, receipts, run>>
    BY DEF Tick, ingressVars, agentVars
  <1>2. \A q \in Queues, i \in Ids : rows'[q][i].status = rows[q][i].status
    BY <1>1, TickAges, RowsTyped, AgedRow
  <1>8. \A w \in Workers : /\ worker'[w].phase = worker[w].phase
                           /\ worker'[w].id = worker[w].id
                           /\ worker'[w].note = worker[w].note
    BY <1>1, TickAges
  <1>3. TypeOK'
    BY <1>1, TickAges DEF TypeOK, Tick, ingressVars, agentVars
  <1>4. IngressFits'
    <2>1. \A d \in ingress : <<d.event, d.stamp>> \in Ids
      BY <1>1, PairShape DEF TypeOK, Request
    <2>2. \A e \in acked : e \in Events
      BY <1>1 DEF TypeOK
    <2> QED BY <1>0, <1>1, <1>2, <2>1, <2>2, PairShape, QueuesDiffer DEF EventInv, IngressFits
  <1>5. HandlingFits'
    BY <1>2, <1>8, QueuesDiffer DEF EventInv, HandlingFits, FitsWork
  <1>6. OutboxFits'
    BY <1>0, <1>2, QueuesDiffer DEF EventInv, OutboxFits, Published
  <1>7. PlannerFits'
    BY <1>0, <1>8 DEF EventInv, PlannerFits, Plans
  <1> QED BY <1>3, <1>4, <1>5, <1>6, <1>7 DEF EventInv

-----------------------------------------------------------------------------
(* The ingress.                                                            *)

(* Nothing that the workers' part of the invariant speaks of has changed.  *)
LEMMA WorkersRest ==
    ASSUME EventInv, UNCHANGED <<rows, worker, run, receipts>>
    PROVE  HandlingFits' /\ OutboxFits' /\ PlannerFits'
  BY DEF EventInv, HandlingFits, FitsWork, OutboxFits, Published, PlannerFits, Plans

LEMMA DeliverKeeps ==
    ASSUME EventInv, NEW e \in Events, Deliver(e)
    PROVE  EventInv'
  <1>1. PICK d : d = [event |-> e, stamp |-> delivered[e] + 1, step |-> "verified"]
    OBVIOUS
  <1>2. delivered[e] + 1 \in Stamps /\ delivered[e] + 1 \in 0 .. MaxDeliveries
    BY NumberAssumption DEF EventInv, TypeOK, Deliver, Stamps
  <1>3. d \in Request /\ d.step = "verified"
    BY <1>1, <1>2 DEF Request
  <1>4. ingress' = ingress \cup {d} /\ UNCHANGED <<replay, acked, rows, worker, run, receipts>>
    BY <1>1 DEF Deliver, agentVars
  <1>5. TypeOK'
    BY <1>2, <1>3, <1>4 DEF EventInv, TypeOK, Deliver, agentVars
  <1>6. IngressFits'
    BY <1>3, <1>4 DEF EventInv, IngressFits
  <1> QED BY <1>4, <1>5, <1>6, WorkersRest DEF EventInv

LEMMA ClaimReplayKeeps ==
    ASSUME EventInv, NEW d \in ingress, ClaimReplay(d)
    PROVE  EventInv'
  <1>1. d \in Request /\ d.event \in Events /\ d.stamp \in Stamps /\ d.step = "verified"
    BY DEF EventInv, TypeOK, Request, ClaimReplay
  <1>2. PICK t : t = FirstStamp(d)
    OBVIOUS
  <1>3. t \in Stamps /\ t # 0 /\ (replay[d.event] # 0 => t = replay[d.event])
    BY <1>1, <1>2, NumberAssumption DEF FirstStamp, EventInv, TypeOK, Stamps
  <1>4. PICK c : c = [d EXCEPT !.step = "deduplicated", !.stamp = t]
    OBVIOUS
  <1>5. c \in Request /\ c.event = d.event /\ c.stamp = t /\ c.step = "deduplicated"
    BY <1>1, <1>3, <1>4 DEF Request
  <1>6. /\ ingress' = (ingress \ {d}) \cup {c}
        /\ replay' = [replay EXCEPT ![d.event] = t]
        /\ UNCHANGED <<delivered, acked, rows, issued, worker, run, replies, sent, receipts, faults>>
    BY <1>2, <1>4 DEF ClaimReplay, agentVars
  <1>7. \A e \in Events : replay[e] # 0 => replay'[e] = replay[e]
    BY <1>1, <1>3, <1>6 DEF EventInv, TypeOK
  <1>8. TypeOK'
    BY <1>1, <1>3, <1>5, <1>6 DEF EventInv, TypeOK, Stamps
  <1>9. IngressFits'
    <2>1. replay'[d.event] = t
      BY <1>1, <1>6 DEF EventInv, TypeOK
    <2>2. \A r \in ingress : r.event \in Events /\ r.stamp \in Stamps /\ r.stamp # 0
      BY DEF EventInv, TypeOK, Request, Stamps
    <2>3. \A r \in ingress' : /\ r.step # "verified" => replay'[r.event] = r.stamp
                              /\ r.step = "stored" => rows'["inbox"][<<r.event, r.stamp>>].status # "absent"
      BY <1>5, <1>6, <1>7, <2>1, <2>2 DEF EventInv, IngressFits
    <2>4. \A e \in Events, u \in Stamps : rows'["inbox"][<<e, u>>].status # "absent" => replay'[e] = u
      BY <1>6, <1>7 DEF EventInv, IngressFits, Stamps
    <2>5. \A e \in acked' : replay'[e] \in Stamps /\ rows'["inbox"][<<e, replay'[e]>>].status # "absent"
      <3>1. \A e \in acked : e \in Events /\ replay[e] \in Stamps /\ rows["inbox"][<<e, replay[e]>>].status # "absent"
        BY DEF EventInv, IngressFits, TypeOK
      <3>2. \A e \in acked : replay'[e] = replay[e]
        BY <1>7, <3>1, StampShape
      <3> QED BY <1>6, <3>1, <3>2
    <2> QED BY <2>3, <2>4, <2>5 DEF IngressFits
  <1> QED BY <1>6, <1>8, <1>9, WorkersRest DEF EventInv

LEMMA ClaimInboundKeeps ==
    ASSUME EventInv, NEW d \in ingress, ClaimInbound(d)
    PROVE  EventInv'
  <1>1. d \in Request /\ d.event \in Events /\ d.stamp \in Stamps /\ d.step = "deduplicated"
    BY DEF EventInv, TypeOK, Request, ClaimInbound
  <1>2. PICK i : i = <<d.event, d.stamp>>
    OBVIOUS
  <1>3. i \in Ids
    BY <1>1, <1>2, PairShape
  <1>4. PICK row : row = IF rows["inbox"][i].status = "absent" THEN NewRow ELSE rows["inbox"][i]
    OBVIOUS
  <1>5. /\ row \in Row
        /\ row.status # "absent"
        /\ row.status = "done" => rows["inbox"][i].status = "done"
    BY <1>3, <1>4, NewRowShape, RowsTyped, QueuesDiffer DEF EventInv
  <1>6. PICK c : c = [d EXCEPT !.step = "stored"]
    OBVIOUS
  <1>7. c \in Request /\ c.event = d.event /\ c.stamp = d.stamp /\ c.step = "stored"
    BY <1>1, <1>6 DEF Request
  <1>8. /\ rows' = [rows EXCEPT !["inbox"][i] = row]
        /\ ingress' = (ingress \ {d}) \cup {c}
        /\ UNCHANGED <<delivered, replay, acked, issued, worker, run, replies, sent, receipts, faults>>
    BY <1>2, <1>4, <1>6 DEF ClaimInbound, agentVars
  <1>9. /\ rows' \in [Queues -> [Ids -> Row]]
        /\ rows'["inbox"][i] = row
        /\ \A j \in Ids : j # i => rows'["inbox"][j] = rows["inbox"][j]
        /\ \A j \in Ids : rows'["outbox"][j] = rows["outbox"][j]
    <2>1. /\ rows' \in [Queues -> [Ids -> Row]]
          /\ rows'["inbox"][i] = row
          /\ \A p \in Queues, j \in Ids : p # "inbox" \/ j # i => rows'[p][j] = rows[p][j]
      BY <1>3, <1>5, <1>8, RowChange, QueuesDiffer DEF EventInv
    <2> QED BY <2>1, QueuesDiffer
  <1>10. TypeOK'
    BY <1>7, <1>8, <1>9 DEF EventInv, TypeOK
  <1>11. \A j \in Ids : rows["inbox"][j].status # "absent" => rows'["inbox"][j].status # "absent"
    <2> SUFFICES ASSUME NEW j \in Ids, rows["inbox"][j].status # "absent" PROVE rows'["inbox"][j].status # "absent"
      OBVIOUS
    <2>1. CASE j = i
      BY <1>5, <1>9, <2>1
    <2>2. CASE j # i
      BY <1>9, <2>2
    <2> QED BY <2>1, <2>2
  <1>12. replay[d.event] = d.stamp
    BY <1>1 DEF EventInv, IngressFits
  <1>13. IngressFits'
    <2>1. \A r \in ingress : <<r.event, r.stamp>> \in Ids
      BY PairShape DEF EventInv, TypeOK, Request
    <2>2. \A r \in ingress' : /\ r.step # "verified" => replay'[r.event] = r.stamp
                              /\ r.step = "stored" => rows'["inbox"][<<r.event, r.stamp>>].status # "absent"
      <3> SUFFICES ASSUME NEW r \in ingress'
                   PROVE  /\ r.step # "verified" => replay[r.event] = r.stamp
                          /\ r.step = "stored" => rows'["inbox"][<<r.event, r.stamp>>].status # "absent"
        BY <1>8
      <3>1. CASE r = c
        BY <1>2, <1>5, <1>7, <1>9, <1>12, <3>1
      <3>2. CASE r \in ingress
        BY <1>8, <1>11, <2>1, <3>2 DEF EventInv, IngressFits
      <3> QED BY <1>8, <3>1, <3>2
    <2>3. \A e \in Events, u \in Stamps : rows'["inbox"][<<e, u>>].status # "absent" => replay'[e] = u
      <3> SUFFICES ASSUME NEW e \in Events, NEW u \in Stamps, rows'["inbox"][<<e, u>>].status # "absent"
                   PROVE  replay[e] = u
        BY <1>8
      <3>1. CASE <<e, u>> = i
        BY <1>2, <1>12, <3>1
      <3>2. CASE <<e, u>> # i
        BY <1>9, <3>2, PairShape, QueuesDiffer DEF EventInv, IngressFits
      <3> QED BY <3>1, <3>2
    <2>4. \A e \in acked' : replay'[e] \in Stamps /\ rows'["inbox"][<<e, replay'[e]>>].status # "absent"
      BY <1>8, <1>11, PairShape DEF EventInv, IngressFits, TypeOK
    <2> QED BY <2>2, <2>3, <2>4 DEF IngressFits
  <1>14. HandlingFits'
    BY <1>8, <1>9, QueuesDiffer DEF EventInv, HandlingFits, FitsWork
  <1>15. OutboxFits'
    BY <1>5, <1>8, <1>9, QueuesDiffer DEF EventInv, OutboxFits, Published
  <1>16. PlannerFits'
    BY <1>8 DEF EventInv, PlannerFits, Plans
  <1> QED BY <1>10, <1>13, <1>14, <1>15, <1>16 DEF EventInv

LEMMA AcknowledgeKeeps ==
    ASSUME EventInv, NEW d \in ingress, Acknowledge(d)
    PROVE  EventInv'
  <1>1. d.event \in Events /\ d.stamp \in Stamps
    BY DEF EventInv, TypeOK, Request
  <1>2. /\ acked' = acked \cup {d.event} /\ ingress' = ingress \ {d}
        /\ UNCHANGED <<delivered, replay, rows, issued, worker, run, replies, sent, receipts, faults>>
    BY DEF Acknowledge, agentVars
  <1>3. replay[d.event] = d.stamp /\ rows["inbox"][<<d.event, d.stamp>>].status # "absent"
    BY DEF EventInv, IngressFits, Acknowledge
  <1>4. TypeOK'
    BY <1>1, <1>2 DEF EventInv, TypeOK
  <1>5. IngressFits'
    BY <1>1, <1>2, <1>3 DEF EventInv, IngressFits
  <1> QED BY <1>2, <1>4, <1>5, WorkersRest DEF EventInv

LEMMA DeliveryDiesKeeps ==
    ASSUME EventInv, NEW d \in ingress, DeliveryDies(d)
    PROVE  EventInv'
  <1>1. /\ ingress' = ingress \ {d}
        /\ UNCHANGED <<delivered, replay, acked, rows, issued, worker, run, replies, sent, receipts, faults>>
    BY DEF DeliveryDies, agentVars
  <1>2. TypeOK'
    BY <1>1 DEF EventInv, TypeOK
  <1>3. IngressFits'
    BY <1>1 DEF EventInv, IngressFits
  <1> QED BY <1>1, <1>2, <1>3, WorkersRest DEF EventInv

-----------------------------------------------------------------------------
(* Steps of a worker that leave the rows alone.                            *)

LEMMA IngressRests ==
    ASSUME EventInv, UNCHANGED <<ingress, replay, acked>>,
           \A i \in Ids : (rows'["inbox"][i].status = "absent") <=> (rows["inbox"][i].status = "absent")
    PROVE  IngressFits'
  <1>1. \A d \in ingress : <<d.event, d.stamp>> \in Ids
    BY PairShape DEF EventInv, TypeOK, Request
  <1>2. \A e \in acked : e \in Events
    BY DEF EventInv, TypeOK
  <1> QED BY <1>1, <1>2, PairShape DEF EventInv, IngressFits

LEMMA WorkerSteps ==
    ASSUME EventInv, NEW w \in Workers, NEW d \in WorkerState, worker' = [worker EXCEPT ![w] = d],
           UNCHANGED <<ingressVars, rows, issued, receipts>>,
           run' \in [Ids -> {"absent", "running", "finished", "failed"}],
           replies' \in [Ids -> SUBSET {"answer", "empty"}],
           sent' \in [Workers -> SUBSET Ids],
           faults' \in Nat,
           FitsWork(w, d), PlannerFits'
    PROVE  EventInv'
  <1>1. /\ worker' \in [Workers -> WorkerState] /\ worker'[w] = d
        /\ \A v \in Workers \ {w} : worker'[v] = worker[v]
    BY WorkerTurns DEF EventInv
  <1>2. TypeOK'
    BY <1>1 DEF EventInv, TypeOK, ingressVars
  <1>3. IngressFits'
    BY IngressRests DEF ingressVars
  <1>4. HandlingFits'
    BY <1>1 DEF EventInv, HandlingFits, FitsWork
  <1>5. OutboxFits'
    BY DEF EventInv, OutboxFits, Published
  <1> QED BY <1>2, <1>3, <1>4, <1>5 DEF EventInv

(* Nobody starts to plan, and only who plans moves a run.                  *)
LEMMA PlannersRest ==
    ASSUME EventInv, NEW w \in Workers, NEW d \in WorkerState, worker' = [worker EXCEPT ![w] = d],
           d.phase # "thinking",
           \/ UNCHANGED run
           \/ Plans(w) /\ \E x : run' = [run EXCEPT ![worker[w].id] = x]
    PROVE  PlannerFits'
  <1>1. /\ worker'[w] = d
        /\ \A v \in Workers \ {w} : worker'[v] = worker[v]
    BY WorkerTurns DEF EventInv
  <1>2. \A v \in Workers : Plans(v)' => v # w /\ Plans(v) /\ worker'[v] = worker[v]
    BY <1>1 DEF Plans
  <1>3. \A v \in Workers : Plans(v) => worker[v].id \in Ids
    BY DEF EventInv, HandlingFits, FitsWork, Plans, Handling
  <1>4. \A v \in Workers : Plans(v)' => run'[worker[v].id] = "running"
    BY <1>2, <1>3 DEF EventInv, PlannerFits, TypeOK
  <1> QED BY <1>2, <1>4 DEF EventInv, PlannerFits

(* A worker turns to something that is no planning, and nobody's run moves *)
(* but its own.                                                            *)
LEMMA WorkerTurnKeeps ==
    ASSUME EventInv, NEW w \in Workers, NEW d \in WorkerState, worker' = [worker EXCEPT ![w] = d],
           UNCHANGED <<ingressVars, rows, issued, receipts>>,
           \/ UNCHANGED run
           \/ /\ Plans(w)
              /\ \E x \in {"running", "finished", "failed"} : run' = [run EXCEPT ![worker[w].id] = x],
           replies' \in [Ids -> SUBSET {"answer", "empty"}],
           sent' \in [Workers -> SUBSET Ids],
           faults' \in Nat,
           d.phase # "thinking", FitsWork(w, d)
    PROVE  EventInv'
  <1>1. PlannerFits'
    BY PlannersRest
  <1>2. run' \in [Ids -> {"absent", "running", "finished", "failed"}]
    BY DEF EventInv, TypeOK
  <1> QED BY <1>1, <1>2, WorkerSteps

LEMMA PhaseShape ==
    /\ {"idle", "report", "polling", "claiming", "claimed", "inserting", "thinking", "replying"} = Phase
    /\ {"claimed", "inserting", "thinking", "replying"} = Handling
    /\ {"none", "done", "retry", "failed", "answer", "empty"} = Notes
  BY DEF Phase, Polls, Handling, Notes

LEMMA StartCycleKeeps ==
    ASSUME EventInv, NEW w \in Workers, StartCycle(w)
    PROVE  EventInv'
  <1>1. PICK d : d = [worker[w] EXCEPT !.phase = "polling"]
    OBVIOUS
  <1>2. d \in WorkerState /\ d.phase = "polling"
    BY <1>1, WorkersTyped, PhaseShape DEF EventInv, WorkerState
  <1>3. worker' = [worker EXCEPT ![w] = d]
    BY <1>1 DEF StartCycle
  <1>4. FitsWork(w, d)
    BY <1>2, PhaseShape DEF FitsWork
  <1> QED BY <1>2, <1>3, <1>4, WorkerTurnKeeps DEF StartCycle, agentVars, EventInv, TypeOK

LEMMA TakeSnapshotKeeps ==
    ASSUME EventInv, NEW w \in Workers, TakeSnapshot(w)
    PROVE  EventInv'
  <1>1. PICK f : f = IF HasSlot(QueueOf(w), worker[w].age)
                     THEN {i \in Ids : Claimable(QueueOf(w), i, worker[w].age)} ELSE {}
    OBVIOUS
  <1>2. PICK d : d = [worker[w] EXCEPT !.phase = "claiming", !.found = f]
    OBVIOUS
  <1>3. f \subseteq Ids
    BY <1>1
  <1>4. d \in WorkerState /\ d.phase = "claiming"
    BY <1>2, <1>3, WorkersTyped, PhaseShape DEF EventInv, WorkerState
  <1>5. worker' = [worker EXCEPT ![w] = d]
    BY <1>1, <1>2 DEF TakeSnapshot
  <1>6. FitsWork(w, d)
    BY <1>4, PhaseShape DEF FitsWork
  <1> QED BY <1>4, <1>5, <1>6, WorkerTurnKeeps DEF TakeSnapshot, agentVars, EventInv, TypeOK

(* A worker that drops what it has at hand.                                *)
LEMMA IdleKeeps ==
    ASSUME EventInv, NEW w \in Workers, worker' = [worker EXCEPT ![w] = Idle],
           UNCHANGED <<ingressVars, rows, issued, run, replies, receipts>>,
           sent' \in [Workers -> SUBSET Ids], faults' \in Nat
    PROVE  EventInv'
  <1>1. FitsWork(w, Idle)
    BY IdleShape, PhaseShape DEF FitsWork
  <1> QED BY <1>1, IdleShape, WorkerTurnKeeps DEF EventInv, TypeOK

LEMMA DropKeeps ==
    ASSUME EventInv, NEW w \in Workers, NothingToClaim(w) \/ LeaseLost(w) \/ PublishLosesLease(w)
    PROVE  EventInv'
  BY IdleKeeps DEF NothingToClaim, LeaseLost, PublishLosesLease, agentVars, EventInv, TypeOK

LEMMA FaultCounts ==
    ASSUME EventInv, Fault
    PROVE  faults' \in Nat
  BY DEF EventInv, TypeOK, Fault

LEMMA CrashKeeps ==
    ASSUME EventInv, NEW w \in Workers, Crash(w)
    PROVE  EventInv'
  <1>1. sent' \in [Workers -> SUBSET Ids]
    BY DEF Crash, EventInv, TypeOK
  <1> QED BY <1>1, FaultCounts, IdleKeeps DEF Crash

(* A worker goes on with its row.                                          *)
LEMMA GoesKeeps ==
    ASSUME EventInv, NEW w \in Workers, NEW phase \in Phase \ {"thinking"}, NEW note \in Notes, Goes(w, phase, note),
           UNCHANGED <<ingressVars, rows, issued, receipts>>,
           \/ UNCHANGED run
           \/ /\ Plans(w)
              /\ \E x \in {"running", "finished", "failed"} : run' = [run EXCEPT ![worker[w].id] = x],
           replies' \in [Ids -> SUBSET {"answer", "empty"}],
           sent' \in [Workers -> SUBSET Ids],
           faults' \in Nat,
           phase \in Handling \cup {"report"} => worker[w].id \in Ids,
           phase \in {"inserting", "replying"} => w \in InboxWorkers /\ worker[w].id[1] \in Messages,
           phase = "replying" => note \in {"answer", "empty"},
           phase = "report" /\ note = "done" =>
               w \in InboxWorkers /\ (worker[w].id[1] \in DomainEvents => rows["outbox"][worker[w].id].status # "absent")
    PROVE  EventInv'
  <1>1. PICK d \in WorkerState :
             /\ worker' = [worker EXCEPT ![w] = d]
             /\ d.phase = phase /\ d.note = note /\ d.id = worker[w].id
    BY GoesTurns DEF EventInv
  <1>2. FitsWork(w, d)
    BY <1>1 DEF FitsWork
  <1> QED BY <1>1, <1>2, WorkerTurnKeeps

LEMMA AtHand ==
    ASSUME EventInv, NEW w \in Workers
    PROVE  /\ worker[w].phase \in {"claimed", "inserting", "thinking", "replying", "report"} => worker[w].id \in Ids
           /\ worker[w].phase \in {"inserting", "thinking", "replying"} =>
                w \in InboxWorkers /\ worker[w].id[1] \in Messages /\ worker[w].id[1] \notin DomainEvents
           /\ worker[w].phase = "replying" => worker[w].note \in {"answer", "empty"}
           /\ worker[w].phase = "report" /\ worker[w].note = "done" =>
                w \in InboxWorkers /\
                (worker[w].id[1] \in DomainEvents => rows["outbox"][worker[w].id].status # "absent")
  BY EventAssumption, PhaseShape DEF EventInv, HandlingFits, FitsWork

LEMMA FindRunKeeps ==
    ASSUME EventInv, NEW w \in Workers, FindRun(w)
    PROVE  EventInv'
  <1>1. /\ worker[w].phase = "claimed" /\ w \in InboxWorkers /\ worker[w].id[1] \in Messages
        /\ UNCHANGED <<ingressVars, rows, issued, run, replies, sent, receipts, faults>>
        /\ \/ Goes(w, "inserting", "none")
           \/ Goes(w, "replying", "answer")
           \/ Goes(w, "replying", "empty")
    BY DEF FindRun, agentVars
  <1>2. worker[w].id \in Ids
    BY <1>1, AtHand
  <1> QED BY <1>1, <1>2, PhaseShape, GoesKeeps DEF EventInv, TypeOK

LEMMA InsertRunKeeps ==
    ASSUME EventInv, NEW w \in Workers, InsertRun(w)
    PROVE  EventInv'
  <1> DEFINE i == worker[w].id
  <1>1. i \in Ids /\ w \in InboxWorkers /\ i[1] \in Messages
    BY AtHand DEF InsertRun
  <1>2. UNCHANGED <<ingressVars, rows, issued, replies, sent, receipts, faults>>
    BY DEF InsertRun
  <1>3. CASE run[i] = "absent"
    <2>1. run' = [run EXCEPT ![i] = "running"] /\ Goes(w, "thinking", "none")
      BY <1>3 DEF InsertRun
    <2>2. PICK d \in WorkerState :
             /\ worker' = [worker EXCEPT ![w] = d]
             /\ d.phase = "thinking" /\ d.id = i
      BY <2>1, GoesTurns, PhaseShape DEF EventInv
    <2>3. /\ worker'[w] = d
          /\ \A v \in Workers \ {w} : worker'[v] = worker[v]
      BY <2>2, WorkerTurns DEF EventInv
    <2>4. run' \in [Ids -> {"absent", "running", "finished", "failed"}] /\ run'[i] = "running"
          /\ \A j \in Ids \ {i} : run'[j] = run[j]
      BY <1>1, <2>1 DEF EventInv, TypeOK
    <2>5. \A v \in Workers : Plans(v) => worker[v].id \in Ids /\ worker[v].id # i
      BY <1>3, AtHand DEF EventInv, PlannerFits, Plans
    <2>6. PlannerFits'
      <3>1. \A v \in Workers : Plans(v)' => run'[worker'[v].id] = "running"
        BY <2>2, <2>3, <2>4, <2>5 DEF EventInv, PlannerFits, Plans
      <3>2. \A u, v \in Workers : Plans(u)' /\ Plans(v)' /\ worker'[u].id = worker'[v].id => u = v
        BY <2>2, <2>3, <2>5 DEF EventInv, PlannerFits, Plans
      <3> QED BY <3>1, <3>2 DEF PlannerFits
    <2>7. FitsWork(w, d)
      BY <1>1, <2>2, PhaseShape DEF FitsWork
    <2> QED BY <1>2, <2>2, <2>4, <2>6, <2>7, WorkerSteps DEF EventInv, TypeOK
  <1>4. CASE run[i] # "absent"
    <2>1. run' = run /\ Goes(w, "report", "retry")
      BY <1>4 DEF InsertRun
    <2> QED BY <1>1, <1>2, <2>1, PhaseShape, GoesKeeps DEF EventInv, TypeOK
  <1> QED BY <1>3, <1>4

LEMMA FinishRunKeeps ==
    ASSUME EventInv, NEW w \in Workers, FinishRun(w)
    PROVE  EventInv'
  <1>1. Plans(w) /\ worker[w].id \in Ids /\ w \in InboxWorkers /\ worker[w].id[1] \in Messages
    BY AtHand DEF FinishRun, Plans
  <1> QED BY <1>1, PhaseShape, GoesKeeps DEF FinishRun, EventInv, TypeOK

LEMMA RunFailsKeeps ==
    ASSUME EventInv, NEW w \in Workers, NEW verdict \in {"retry", "failed"}, RunFails(w, verdict)
    PROVE  EventInv'
  <1>1. Plans(w) /\ worker[w].id \in Ids
    BY AtHand DEF RunFails, Plans
  <1>2. PICK end \in {"running", "failed", "finished"} : run' = [run EXCEPT ![worker[w].id] = end]
    BY DEF RunFails
  <1>3. Goes(w, "report", verdict) /\ Fault /\ UNCHANGED <<ingressVars, rows, issued, replies, sent, receipts>>
    BY DEF RunFails
  <1> QED BY <1>1, <1>2, <1>3, PhaseShape, FaultCounts, GoesKeeps DEF EventInv, TypeOK

LEMMA SendReplyKeeps ==
    ASSUME EventInv, NEW w \in Workers, SendReply(w)
    PROVE  EventInv'
  <1> DEFINE i == worker[w].id
  <1>1. i \in Ids /\ w \in InboxWorkers /\ i[1] \notin DomainEvents /\ worker[w].note \in {"answer", "empty"}
    BY AtHand DEF SendReply
  <1>2. /\ replies' \in [Ids -> SUBSET {"answer", "empty"}]
        /\ sent' \in [Workers -> SUBSET Ids]
    BY <1>1 DEF SendReply, EventInv, TypeOK
  <1>3. Goes(w, "report", "done") /\ UNCHANGED <<ingressVars, rows, issued, run, receipts, faults>>
    BY DEF SendReply
  <1>4. faults' \in Nat
    BY <1>3 DEF EventInv, TypeOK
  <1> QED BY <1>1, <1>2, <1>3, <1>4, PhaseShape, GoesKeeps

LEMMA CannotSendKeeps ==
    ASSUME EventInv, NEW w \in Workers, CannotSend(w)
    PROVE  EventInv'
  <1>1. worker[w].id \in Ids
    BY AtHand DEF CannotSend
  <1> QED BY <1>1, PhaseShape, GoesKeeps DEF CannotSend, agentVars, EventInv, TypeOK

LEMMA HandlerThrowsKeeps ==
    ASSUME EventInv, NEW w \in Workers, NEW verdict \in {"retry", "failed"}, HandlerThrows(w, verdict)
    PROVE  EventInv'
  <1>1. worker[w].id \in Ids
    BY AtHand, PhaseShape DEF HandlerThrows
  <1>2. Goes(w, "report", verdict) /\ Fault /\ UNCHANGED <<ingressVars, rows, issued, run, replies, sent, receipts>>
    BY DEF HandlerThrows, agentVars
  <1> QED BY <1>1, <1>2, PhaseShape, FaultCounts, GoesKeeps DEF EventInv, TypeOK

LEMMA PublishThrowsKeeps ==
    ASSUME EventInv, NEW w \in Workers, PublishThrows(w)
    PROVE  EventInv'
  <1>1. worker[w].id \in Ids
    BY AtHand DEF PublishThrows
  <1>2. Goes(w, "report", "retry") /\ Fault /\ UNCHANGED <<ingressVars, rows, issued, run, replies, sent, receipts>>
    BY DEF PublishThrows, agentVars
  <1> QED BY <1>1, <1>2, PhaseShape, FaultCounts, GoesKeeps DEF EventInv, TypeOK

-----------------------------------------------------------------------------
(* Steps of a worker that write a row.                                     *)

LEMMA RowMoves ==
    ASSUME EventInv, NEW q \in Queues, NEW i \in Ids, NEW row \in Row, rows' = [rows EXCEPT ![q][i] = row],
           row.status # "absent",
           q = "inbox" => rows[q][i].status # "absent",
           NEW w \in Workers, NEW d \in WorkerState, worker' = [worker EXCEPT ![w] = d], d.phase # "thinking",
           FitsWork(w, d)',
           UNCHANGED <<ingressVars, agentVars, faults>>,
           issued' \in [Queues -> Nat],
           receipts' \subseteq Ids \X Nat,
           OutboxFits'
    PROVE  EventInv'
  <1>1. /\ rows' \in [Queues -> [Ids -> Row]]
        /\ rows'[q][i] = row
        /\ \A p \in Queues, j \in Ids : p # q \/ j # i => rows'[p][j] = rows[p][j]
    BY RowChange DEF EventInv
  <1>2. /\ worker' \in [Workers -> WorkerState] /\ worker'[w] = d
        /\ \A v \in Workers \ {w} : worker'[v] = worker[v]
    BY WorkerTurns DEF EventInv
  <1>3. TypeOK'
    BY <1>1, <1>2 DEF EventInv, TypeOK, ingressVars, agentVars
  <1>4. IngressFits'
    <2>1. \A j \in Ids : (rows'["inbox"][j].status = "absent") <=> (rows["inbox"][j].status = "absent")
      BY <1>1, QueuesDiffer
    <2> QED BY <2>1, IngressRests DEF ingressVars
  <1>5. HandlingFits'
    <2>1. \A j \in Ids : rows["outbox"][j].status # "absent" => rows'["outbox"][j].status # "absent"
      BY <1>1, QueuesDiffer
    <2>2. \A v \in Workers \ {w} : FitsWork(v, worker[v])'
      BY <1>2, <2>1, PhaseShape DEF EventInv, HandlingFits, FitsWork
    <2> QED BY <1>2, <2>2 DEF HandlingFits, FitsWork
  <1>6. PlannerFits'
    BY PlannersRest DEF agentVars
  <1> QED BY <1>3, <1>4, <1>5, <1>6 DEF EventInv

(* A row that is written without being published, or after it is in the    *)
(* outbox.                                                                 *)
LEMMA OutboxRests ==
    ASSUME EventInv, NEW q \in Queues, NEW i \in Ids, NEW row \in Row, rows' = [rows EXCEPT ![q][i] = row],
           row.status # "absent",
           q = "outbox" => (row.status = "done" <=> rows[q][i].status = "done"),
           q = "inbox" => (row.status = "done" /\ i[1] \in DomainEvents => rows["outbox"][i].status # "absent"),
           UNCHANGED receipts
    PROVE  OutboxFits'
  <1>1. /\ rows'[q][i] = row
        /\ \A p \in Queues, j \in Ids : p # q \/ j # i => rows'[p][j] = rows[p][j]
    BY RowChange DEF EventInv
  <1>2. CASE q = "inbox"
    <2>1. \A j \in Ids : rows'["outbox"][j] = rows["outbox"][j]
      BY <1>1, <1>2, QueuesDiffer
    <2>2. \A j \in Ids \ {i} : rows'["inbox"][j] = rows["inbox"][j]
      BY <1>1, <1>2, QueuesDiffer
    <2> QED BY <1>1, <1>2, <2>1, <2>2 DEF EventInv, OutboxFits, Published
  <1>3. CASE q = "outbox"
    <2>1. \A j \in Ids : rows'["inbox"][j] = rows["inbox"][j]
      BY <1>1, <1>3, QueuesDiffer
    <2>2. \A j \in Ids \ {i} : rows'["outbox"][j] = rows["outbox"][j]
      BY <1>1, <1>3, QueuesDiffer
    <2> QED BY <1>1, <1>3, <2>1, <2>2 DEF EventInv, OutboxFits, Published
  <1> QED BY <1>2, <1>3, QueuesDiffer

(* A row when it is settled.                                               *)
Settled(r, status, wait) == [r EXCEPT !.status = status, !.token = 0, !.left = 0, !.wait = wait]

LEMMA LeasedRow ==
    ASSUME NEW r \in Row, NEW token \in Nat, NEW left \in Int
    PROVE  Leased(r, token, left) \in Row /\ Leased(r, token, left).status = "processing"
  <1>1. r.attempts + 1 \in Nat /\ "processing" \in RowStatus
    BY RowShape DEF RowStatus
  <1>2. PICK n \in Nat : n = r.attempts + 1
    BY <1>1
  <1>3. PICK half \in Row : half = [r EXCEPT !.status = "processing", !.attempts = n]
    BY <1>1 DEF Row
  <1>z. PICK none \in Int : none = 0
    OBVIOUS
  <1>4. [half EXCEPT !.wait = none, !.token = token, !.left = left] \in Row
    BY DEF Row
  <1>5. Leased(r, token, left) = [half EXCEPT !.wait = none, !.token = token, !.left = left]
    BY <1>2, <1>3, <1>z DEF Leased
  <1>6. Leased(r, token, left).status = "processing"
    BY DEF Leased, Row
  <1> QED BY <1>4, <1>5, <1>6

LEMMA SettledRow ==
    ASSUME NEW r \in Row, NEW status \in RowStatus, NEW wait \in Int
    PROVE  Settled(r, status, wait) \in Row /\ Settled(r, status, wait).status = status
  <1>z. PICK none \in Int : none = 0 /\ none \in Nat
    OBVIOUS
  <1>1. PICK half \in Row : half = [r EXCEPT !.status = status, !.token = none]
    BY <1>z DEF Row
  <1>2. [half EXCEPT !.left = none, !.wait = wait] \in Row
    BY DEF Row
  <1>3. Settled(r, status, wait) = [half EXCEPT !.left = none, !.wait = wait]
    BY <1>z, <1>1 DEF Settled
  <1>4. Settled(r, status, wait).status = status
    BY DEF Settled, Row
  <1> QED BY <1>2, <1>3, <1>4

LEMMA LeaseRowKeeps ==
    ASSUME EventInv, NEW w \in Workers, NEW q \in Queues, NEW i \in Ids, LeaseRow(q, w, i)
    PROVE  EventInv'
  <1>1. PICK row : row = Leased(rows[q][i], issued[q] + 1, LeaseTicks - worker[w].age)
    OBVIOUS
  <1>2. PICK r : r = Idle
    OBVIOUS
  <1>3. PICK d : d = [r EXCEPT !.phase = "claimed", !.id = i, !.token = issued[q] + 1]
    OBVIOUS
  <1>4. issued[q] + 1 \in Nat /\ LeaseTicks - worker[w].age \in Int
    BY WorkersTyped, WorkerShape, NumberAssumption DEF EventInv, TypeOK
  <1>5. row \in Row /\ row.status = "processing"
    BY <1>1, <1>4, RowsTyped, LeasedRow DEF EventInv
  <1>6. d \in WorkerState /\ d.phase = "claimed" /\ d.id = i
    BY <1>2, <1>3, <1>4, IdleShape, PhaseShape DEF WorkerState
  <1>7. /\ rows' = [rows EXCEPT ![q][i] = row]
        /\ worker' = [worker EXCEPT ![w] = d]
        /\ issued' = [issued EXCEPT ![q] = @ + 1]
        /\ UNCHANGED <<ingressVars, agentVars, receipts, faults>>
    <2>1. rows' = [rows EXCEPT ![q][i] = row]
      BY <1>1 DEF LeaseRow
    <2>2. worker' = [worker EXCEPT ![w] = d]
      BY <1>2, <1>3 DEF LeaseRow
    <2> QED BY <2>1, <2>2 DEF LeaseRow
  <1>8. rows[q][i].status # "absent" /\ rows[q][i].status # "done"
    BY DEF LeaseRow, Claimable, Waiting
  <1>9. OutboxFits'
    BY <1>5, <1>7, <1>8, OutboxRests
  <1>10. FitsWork(w, d)'
    BY <1>6, PhaseShape DEF FitsWork
  <1>11. issued' \in [Queues -> Nat] /\ receipts' \subseteq Ids \X Nat
    BY <1>4, <1>7 DEF EventInv, TypeOK
  <1> QED BY <1>5, <1>6, <1>7, <1>8, <1>9, <1>10, <1>11, RowMoves

LEMMA AppendOutboxKeeps ==
    ASSUME EventInv, NEW w \in Workers, AppendOutbox(w)
    PROVE  EventInv'
  <1>1. PICK i : i = worker[w].id
    OBVIOUS
  <1>2. i \in Ids /\ w \in InboxWorkers
    BY <1>1, AtHand DEF AppendOutbox
  <1>3. PICK row : row = IF rows["outbox"][i].status = "absent" THEN NewRow ELSE rows["outbox"][i]
    OBVIOUS
  <1>4. /\ row \in Row
        /\ row.status # "absent"
        /\ row.status = "done" <=> rows["outbox"][i].status = "done"
    BY <1>2, <1>3, NewRowShape, RowsTyped, QueuesDiffer DEF EventInv
  <1>5. /\ rows' = [rows EXCEPT !["outbox"][i] = row]
        /\ Goes(w, "report", "done")
        /\ UNCHANGED <<ingressVars, issued, agentVars, receipts, faults>>
    BY <1>1, <1>3 DEF AppendOutbox
  <1>6. PICK d \in WorkerState :
             /\ worker' = [worker EXCEPT ![w] = d]
             /\ d.phase = "report" /\ d.note = "done" /\ d.id = i
    BY <1>1, <1>5, GoesTurns, PhaseShape DEF EventInv
  <1>7. rows'["outbox"][i] = row
    <2>1. TypeOK /\ "outbox" \in Queues
      BY QueuesDiffer DEF EventInv
    <2> QED BY <1>2, <1>4, <1>5, <2>1, RowChange
  <1>8. FitsWork(w, d)'
    BY <1>2, <1>4, <1>6, <1>7, PhaseShape DEF FitsWork
  <1>9. OutboxFits'
    BY <1>2, <1>4, <1>5, OutboxRests, QueuesDiffer
  <1>10. issued' \in [Queues -> Nat] /\ receipts' \subseteq Ids \X Nat
    BY <1>5 DEF EventInv, TypeOK
  <1> QED BY <1>2, <1>4, <1>5, <1>6, <1>8, <1>9, <1>10, RowMoves, QueuesDiffer

LEMMA SettleKeeps ==
    ASSUME EventInv, NEW w \in Workers, worker[w].id \in Ids, HoldsLease(w),
           NEW status \in {"done", "failed", "dead_letter", "retry_scheduled"}, NEW wait \in Int,
           Settle(w, status, wait),
           UNCHANGED <<ingressVars, issued, agentVars, receipts, faults>>,
           status = "done" => w \in InboxWorkers /\
                (worker[w].id[1] \in DomainEvents => rows["outbox"][worker[w].id].status # "absent")
    PROVE  EventInv'
  <1>1. PICK q : q = QueueOf(w)
    OBVIOUS
  <1>2. PICK i : i = worker[w].id
    OBVIOUS
  <1>3. q \in Queues /\ i \in Ids /\ rows[q][i].status = "processing"
    BY <1>1, <1>2, QueuesDiffer DEF HoldsLease
  <1>4. PICK row \in Row : row = Settled(rows[q][i], status, wait) /\ row.status = status
    <2>1. rows[q][i] \in Row /\ status \in RowStatus
      BY <1>3, RowsTyped DEF EventInv, RowStatus
    <2> QED BY <2>1, SettledRow
  <1>5. rows' = [rows EXCEPT ![q][i] = row] /\ worker' = [worker EXCEPT ![w] = Idle]
    BY <1>1, <1>2, <1>4 DEF Settle, Settled
  <1>6. OutboxFits'
    <2>1. row.status # "absent"
      BY <1>4
    <2>2. q = "outbox" => (row.status = "done" <=> rows[q][i].status = "done")
      BY <1>1, <1>3, <1>4, QueuesDiffer
    <2>3. q = "inbox" => (row.status = "done" /\ i[1] \in DomainEvents => rows["outbox"][i].status # "absent")
      BY <1>2, <1>4
    <2> QED BY <1>3, <1>5, <2>1, <2>2, <2>3, OutboxRests
  <1>7. FitsWork(w, Idle)'
    BY IdleShape, PhaseShape DEF FitsWork
  <1>8. issued' \in [Queues -> Nat] /\ receipts' \subseteq Ids \X Nat
    BY DEF EventInv, TypeOK
  <1> QED BY <1>3, <1>4, <1>5, <1>6, <1>7, <1>8, IdleShape, RowMoves

LEMMA OutcomeKeeps ==
    ASSUME EventInv, NEW w \in Workers, Complete(w) \/ Fail(w) \/ Retry(w)
    PROVE  EventInv'
  <1>1. worker[w].id \in Ids /\ HoldsLease(w) /\ UNCHANGED <<ingressVars, issued, agentVars, receipts, faults>>
    BY AtHand DEF Complete, Fail, Retry, Reports
  <1>2. CASE Complete(w)
    BY <1>1, <1>2, AtHand, SettleKeeps DEF Complete, Reports
  <1>3. CASE Fail(w)
    BY <1>1, <1>3, SettleKeeps DEF Fail
  <1>4. CASE Retry(w)
    BY <1>1, <1>4, SettleKeeps, NumberAssumption DEF Retry
  <1> QED BY <1>2, <1>3, <1>4

LEMMA PublishKeeps ==
    ASSUME EventInv, NEW w \in Workers, Publish(w)
    PROVE  EventInv'
  <1>1. PICK i : i = worker[w].id
    OBVIOUS
  <1>2. i \in Ids /\ w \in OutboxWorkers /\ QueueOf(w) = "outbox"
    BY <1>1, AtHand, QueuesDiffer DEF Publish
  <1>3. rows["outbox"][i].status = "processing"
    BY <1>1, <1>2 DEF Publish, HoldsLease
  <1>4. ~ Published(i)
    BY <1>2, <1>3 DEF EventInv, OutboxFits
  <1>5. PICK t \in Nat : t = worker[w].token
    BY WorkersTyped, WorkerShape DEF EventInv
  <1>6. receipts' = receipts \cup {<<i, t>>}
    BY <1>1, <1>4, <1>5 DEF Publish, Published
  <1>7. PICK row \in Row : row = Settled(rows["outbox"][i], "done", 0) /\ row.status = "done"
    <2>1. rows["outbox"][i] \in Row /\ "done" \in RowStatus /\ 0 \in Int
      BY <1>2, RowsTyped, QueuesDiffer DEF EventInv, RowStatus
    <2> QED BY <2>1, SettledRow
  <1>8. rows' = [rows EXCEPT !["outbox"][i] = row] /\ worker' = [worker EXCEPT ![w] = Idle]
    BY <1>1, <1>2, <1>7 DEF Publish, Settle, Settled
  <1>9. /\ rows'["outbox"][i] = row
        /\ \A j \in Ids \ {i} : rows'["outbox"][j] = rows["outbox"][j]
        /\ \A j \in Ids : rows'["inbox"][j] = rows["inbox"][j]
    <2>1. /\ rows'["outbox"][i] = row
          /\ \A p \in Queues, j \in Ids : p # "outbox" \/ j # i => rows'[p][j] = rows[p][j]
      <3>1. PICK q \in Queues : q = "outbox"
        BY QueuesDiffer
      <3>2. rows' = [rows EXCEPT ![q][i] = row]
        BY <1>8, <3>1
      <3>3. TypeOK
        BY DEF EventInv
      <3>4. /\ rows'[q][i] = row
            /\ \A p \in Queues, j \in Ids : p # q \/ j # i => rows'[p][j] = rows[p][j]
        BY <1>2, <3>2, <3>3, RowChange
      <3> QED BY <3>1, <3>4
    <2> QED BY <2>1, QueuesDiffer
  <1>10. OutboxFits'
    <2>1. \A j \in Ids : rows'["inbox"][j].status = "done" /\ j[1] \in DomainEvents => rows'["outbox"][j].status # "absent"
      BY <1>7, <1>9 DEF EventInv, OutboxFits
    <2>2. \A r, s \in receipts' : r[1] = s[1] => r = s
      <3>1. \A r \in receipts : r[1] # i
        BY <1>4 DEF Published
      <3>2. <<i, t>>[1] = i
        OBVIOUS
      <3> QED BY <1>6, <3>1, <3>2 DEF EventInv, OutboxFits
    <2>3. \A j \in Ids : Published(j)' <=> j = i \/ Published(j)
      <3>1. <<i, t>>[1] = i
        OBVIOUS
      <3> QED BY <1>6, <3>1 DEF Published
    <2>4. \A j \in Ids : Published(j)' <=> rows'["outbox"][j].status = "done"
      BY <1>7, <1>9, <2>3 DEF EventInv, OutboxFits
    <2> QED BY <2>1, <2>2, <2>4 DEF OutboxFits
  <1>11. FitsWork(w, Idle)'
    BY IdleShape, PhaseShape DEF FitsWork
  <1>12. receipts' \subseteq Ids \X Nat /\ issued' \in [Queues -> Nat]
    BY <1>2, <1>6 DEF Publish, EventInv, TypeOK
  <1>13. UNCHANGED <<ingressVars, agentVars, faults>>
    BY DEF Publish
  <1> QED BY <1>2, <1>7, <1>8, <1>10, <1>11, <1>12, <1>13, IdleShape, RowMoves, QueuesDiffer

-----------------------------------------------------------------------------
LEMMA StepKeeps == EventInv /\ [Next]_vars => EventInv'
  <1> SUFFICES ASSUME EventInv, [Next]_vars PROVE EventInv'
    OBVIOUS
  <1>1. CASE Tick
    BY <1>1, TickKeeps
  <1>2. CASE IngressStep
    BY <1>2, DeliverKeeps, ClaimReplayKeeps, ClaimInboundKeeps, AcknowledgeKeeps, DeliveryDiesKeeps DEF IngressStep
  <1>3. ASSUME NEW w \in Workers, ClaimStep(w) PROVE EventInv'
    BY <1>3, StartCycleKeeps, TakeSnapshotKeeps, DropKeeps, LeaseRowKeeps, QueuesDiffer
    DEF ClaimStep, ClaimInbox, ClaimOutbox
  <1>4. ASSUME NEW w \in Workers, HandleStep(w) PROVE EventInv'
    BY <1>4, AppendOutboxKeeps, FindRunKeeps, InsertRunKeeps, FinishRunKeeps, SendReplyKeeps, CannotSendKeeps,
       PublishKeeps, DropKeeps DEF HandleStep
  <1>5. ASSUME NEW w \in Workers, ReportStep(w) PROVE EventInv'
    BY <1>5, OutcomeKeeps, DropKeeps DEF ReportStep
  <1>6. ASSUME NEW w \in Workers, FaultStep(w) PROVE EventInv'
    BY <1>6, CrashKeeps, PublishThrowsKeeps, RunFailsKeeps, HandlerThrowsKeeps DEF FaultStep
  <1>7. CASE UNCHANGED vars
    <2>1. UNCHANGED <<delivered, ingress, replay, acked, rows, issued, worker, run, replies, sent, receipts, faults>>
      BY <1>7 DEF vars, ingressVars, agentVars
    <2>2. TypeOK'
      BY <2>1 DEF EventInv, TypeOK
    <2>3. IngressFits'
      BY <2>1 DEF EventInv, IngressFits
    <2> QED BY <2>1, <2>2, <2>3, WorkersRest DEF EventInv
  <1> QED BY <1>1, <1>2, <1>3, <1>4, <1>5, <1>6, <1>7 DEF Next

THEOREM Invariance == Spec => []EventInv
  BY InitEstablishes, StepKeeps, PTL DEF Spec

-----------------------------------------------------------------------------
(* Every table keeps to its statuses, every worker to its phases, and no   *)
(* counter leaves its range (the row statuses of both tables).             *)
THEOREM TypeCorrect == Spec => []TypeOK
  <1>1. EventInv => TypeOK
    BY DEF EventInv
  <1> QED BY <1>1, Invariance, PTL

(* An outbox row has been published once when it says so, and never        *)
(* otherwise.                                                              *)
LEMMA ReceiptsCount ==
    ASSUME EventInv
    PROVE  ReceiptIffPublished
  <1> SUFFICES ASSUME NEW i \in Ids
               PROVE  Cardinality({r \in receipts : r[1] = i}) = IF rows["outbox"][i].status = "done" THEN 1 ELSE 0
    BY DEF ReceiptIffPublished
  <1>1. Published(i) <=> rows["outbox"][i].status = "done"
    BY DEF EventInv, OutboxFits
  <1>2. CASE Published(i)
    <2>1. PICK s \in receipts : s[1] = i
      BY <1>2 DEF Published
    <2>2. {r \in receipts : r[1] = i} = {s}
      BY <2>1 DEF EventInv, OutboxFits
    <2> QED BY <1>1, <1>2, <2>2, FS_Singleton
  <1>3. CASE ~ Published(i)
    <2>1. {r \in receipts : r[1] = i} = {}
      BY <1>3 DEF Published
    <2> QED BY <1>1, <1>3, <2>1, FS_EmptySet
  <1> QED BY <1>2, <1>3

(* Whatever dies, fails or is repeated, an acknowledged event is stored    *)
(* and can be accounted for, and a publication exists exactly for the rows *)
(* marked published.                                                       *)
THEOREM AcknowledgedIsKept == Spec => []NothingIsLost
  <1>1. EventInv => NothingIsLost
    <2> SUFFICES ASSUME EventInv PROVE NothingIsLost
      OBVIOUS
    <2>1. ASSUME NEW e \in acked
          PROVE  \E s \in Stamps :
                    LET i == <<e, s>> IN
                    /\ rows["inbox"][i].status # "absent"
                    /\ rows["inbox"][i].status = "done" /\ e \in DomainEvents =>
                         /\ rows["outbox"][i].status # "absent"
                         /\ rows["outbox"][i].status = "done" => Published(i)
      <3>1. e \in Events /\ replay[e] \in Stamps /\ rows["inbox"][<<e, replay[e]>>].status # "absent"
        BY DEF EventInv, TypeOK, IngressFits
      <3>2. PICK i \in Ids : i = <<e, replay[e]>>
        BY <3>1, PairShape
      <3>3. /\ rows["inbox"][i].status = "done" /\ i[1] \in DomainEvents => rows["outbox"][i].status # "absent"
            /\ rows["outbox"][i].status = "done" => Published(i)
        BY DEF EventInv, OutboxFits
      <3>4. i[1] = e
        BY <3>2
      <3> QED BY <3>1, <3>2, <3>3, <3>4
    <2> QED BY <2>1, ReceiptsCount DEF NothingIsLost
  <1> QED BY <1>1, Invariance, PTL

(* A set without two different elements has at most one.                   *)
LEMMA AtMostOne ==
    ASSUME NEW S, \A x, y \in S : x = y
    PROVE  Cardinality(S) <= 1
  <1>1. CASE S = {}
    BY <1>1, FS_EmptySet
  <1>2. CASE S # {}
    <2>1. PICK x \in S : S = {x}
      BY <1>2
    <2> QED BY <2>1, FS_Singleton
  <1> QED BY <1>1, <1>2

(* However often an event is delivered it becomes one row, and however     *)
(* many workers take that row, one of them plans and the run says so.      *)
THEOREM MessagesAreHandledOnce == Spec => []HandledOnce
  <1>1. EventInv => OneRowPerEvent
    <2> SUFFICES ASSUME EventInv, NEW e \in Events
                 PROVE  Cardinality({s \in Stamps : rows["inbox"][<<e, s>>].status # "absent"}) <= 1
      BY DEF OneRowPerEvent
    <2>1. \A s, t \in {u \in Stamps : rows["inbox"][<<e, u>>].status # "absent"} : s = t
      BY DEF EventInv, IngressFits
    <2> QED BY <2>1, AtMostOne
  <1>2. EventInv => OnePlanner
    <2> SUFFICES ASSUME EventInv, NEW i \in Ids,
                        NEW planners, planners = {w \in Workers : worker[w].phase = "thinking" /\ worker[w].id = i}
                 PROVE  Cardinality(planners) <= 1 /\ (planners # {} => run[i] = "running")
      BY DEF OnePlanner
    <2>1. \A v, w \in planners : v = w
      BY DEF EventInv, PlannerFits, Plans
    <2>2. planners # {} => run[i] = "running"
      BY DEF EventInv, PlannerFits, Plans
    <2> QED BY <2>1, <2>2, AtMostOne
  <1> QED BY <1>1, <1>2, Invariance, PTL DEF HandledOnce

-----------------------------------------------------------------------------
(* Both tables are work queues: what a step does to either of them.        *)

QueueMap(q) == [i \in Ids |-> QueueState(q, i)]
HolderMap(q) == [i \in Ids |-> rows[q][i].token]

Moves(q, i, state, token) ==
    /\ QueueMap(q)' = [QueueMap(q) EXCEPT ![i] = state]
    /\ HolderMap(q)' = [HolderMap(q) EXCEPT ![i] = token]

QueueRests(q) == UNCHANGED <<QueueMap(q), HolderMap(q), issued[q]>>

QueueMoves(q) ==
    \E i \in Ids :
        \/ QueueState(q, i) = "absent" /\ Moves(q, i, "ready", 0) /\ issued'[q] = issued[q]
        \/ /\ QueueState(q, i) \in {"ready", "leased"}
           /\ Moves(q, i, "leased", issued[q] + 1) /\ issued'[q] = issued[q] + 1
        \/ QueueState(q, i) = "leased" /\ Moves(q, i, "settled", 0) /\ issued'[q] = issued[q]
        \/ QueueState(q, i) = "leased" /\ Moves(q, i, "ready", 0) /\ issued'[q] = issued[q]

LEMMA QueueReading ==
    ASSUME TypeOK, NEW q \in Queues, NEW i \in Ids
    PROVE  /\ rows[q][i].status = "absent" => QueueState(q, i) = "absent"
           /\ rows[q][i].status \in Waiting => QueueState(q, i) = "ready"
           /\ rows[q][i].status = "processing" => QueueState(q, i) = "leased"
           /\ rows[q][i].status \in {"done", "failed", "dead_letter"} => QueueState(q, i) = "settled"
  BY DEF QueueState, Waiting

LEMMA StillQueues ==
    ASSUME NEW q \in Queues, issued'[q] = issued[q],
           \A i \in Ids : rows'[q][i].status = rows[q][i].status /\ rows'[q][i].token = rows[q][i].token
    PROVE  QueueRests(q)
  <1>1. \A i \in Ids : QueueState(q, i)' = QueueState(q, i)
    BY DEF QueueState
  <1> QED BY <1>1 DEF QueueRests, QueueMap, HolderMap

(* One row is written: that row moves, and the other table rests.          *)
LEMMA OneMoves ==
    ASSUME TypeOK, NEW q \in Queues, NEW i \in Ids, NEW row \in Row, rows' = [rows EXCEPT ![q][i] = row],
           NEW state, QueueState(q, i)' = state
    PROVE  /\ Moves(q, i, state, row.token)
           /\ \A p \in Queues \ {q} : issued'[p] = issued[p] => QueueRests(p)
  <1>1. /\ rows'[q][i] = row
        /\ \A p \in Queues, j \in Ids : p # q \/ j # i => rows'[p][j] = rows[p][j]
    BY RowChange
  <1>2. \A j \in Ids \ {i} : QueueState(q, j)' = QueueState(q, j)
    BY <1>1 DEF QueueState
  <1>3. QueueMap(q)' = [QueueMap(q) EXCEPT ![i] = state]
    BY <1>2 DEF QueueMap
  <1>4. HolderMap(q)' = [HolderMap(q) EXCEPT ![i] = row.token]
    <2>1. \A j \in Ids : rows'[q][j].token = IF j = i THEN row.token ELSE rows[q][j].token
      BY <1>1
    <2>2. [j \in Ids |-> rows'[q][j].token] = [[j \in Ids |-> rows[q][j].token] EXCEPT ![i] = row.token]
      BY <2>1, Zenon
    <2> QED BY <2>2 DEF HolderMap
  <1>5. ASSUME NEW p \in Queues \ {q}, issued'[p] = issued[p] PROVE QueueRests(p)
    BY <1>1, <1>5, StillQueues
  <1> QED BY <1>3, <1>4, <1>5 DEF Moves

QueuesStep == \A q \in Queues : QueueMoves(q) \/ QueueRests(q)

LEMMA TickRests == ASSUME EventInv, Tick PROVE QueuesStep
  <1>1. \A q \in Queues, i \in Ids : rows'[q][i].status = rows[q][i].status /\ rows'[q][i].token = rows[q][i].token
    BY TickAges, RowsTyped, AgedRow DEF EventInv
  <1>2. UNCHANGED issued
    BY DEF Tick
  <1> QED BY <1>1, <1>2, StillQueues DEF QueuesStep

LEMMA RowsRest == ASSUME UNCHANGED <<rows, issued>> PROVE QueuesStep
  BY StillQueues DEF QueuesStep

(* A row that is written for the first time, or found there.               *)
Submits(q, i) == rows' = [rows EXCEPT ![q][i] = IF @.status = "absent" THEN NewRow ELSE @]

LEMMA SubmitMoves ==
    ASSUME EventInv, NEW q \in Queues, NEW i \in Ids, Submits(q, i), UNCHANGED issued
    PROVE  QueuesStep
  <1>0. TypeOK
    BY DEF EventInv
  <1>1. CASE rows[q][i].status = "absent"
    <2>1. PICK row \in Row : row = NewRow /\ row.status = "waiting" /\ row.token = 0
      BY NewRowShape
    <2>2. rows' = [rows EXCEPT ![q][i] = row]
      BY <1>1, <2>1 DEF Submits
    <2>6. rows'[q][i] = row
      BY <1>0, <2>2, RowChange
    <2>3. QueueState(q, i)' = "ready"
      BY <2>1, <2>6 DEF QueueState, Waiting
    <2>4. Moves(q, i, "ready", 0) /\ \A p \in Queues \ {q} : QueueRests(p)
      BY <1>0, <2>1, <2>2, <2>3, OneMoves
    <2>5. QueueState(q, i) = "absent"
      BY <1>0, <1>1, QueueReading
    <2> QED BY <2>4, <2>5 DEF QueuesStep, QueueMoves
  <1>2. CASE rows[q][i].status # "absent"
    <2>1. rows' = [rows EXCEPT ![q][i] = rows[q][i]]
      BY <1>2 DEF Submits
    <2>2. rows[q][i] \in Row
      BY <1>0, RowsTyped
    <2>3. \A p \in Queues, j \in Ids : rows'[p][j] = rows[p][j]
      BY <1>0, <2>1, <2>2, RowChange
    <2> QED BY <2>3, StillQueues DEF QueuesStep
  <1> QED BY <1>1, <1>2

LEMMA LeaseMoves ==
    ASSUME EventInv, NEW w \in Workers, NEW q \in Queues, NEW i \in Ids, LeaseRow(q, w, i)
    PROVE  QueuesStep
  <1>0. TypeOK
    BY DEF EventInv
  <1>1. PICK row : row = Leased(rows[q][i], issued[q] + 1, LeaseTicks - worker[w].age)
    OBVIOUS
  <1>2. rows' = [rows EXCEPT ![q][i] = row] /\ issued' = [issued EXCEPT ![q] = @ + 1]
    BY <1>1 DEF LeaseRow
  <1>3. issued[q] + 1 \in Nat /\ LeaseTicks - worker[w].age \in Int
    BY <1>0, WorkersTyped, WorkerShape, NumberAssumption DEF TypeOK
  <1>4. row \in Row /\ row.status = "processing" /\ row.token = issued[q] + 1
    <2>1. row \in Row /\ row.status = "processing"
      BY <1>0, <1>1, <1>3, RowsTyped, LeasedRow
    <2>2. row.token = issued[q] + 1
      BY <1>0, <1>1, RowsTyped DEF Leased, Row
    <2> QED BY <2>1, <2>2
  <1>5. rows'[q][i] = row
    BY <1>0, <1>2, <1>4, RowChange
  <1>6. QueueState(q, i)' = "leased"
    BY <1>4, <1>5 DEF QueueState, Waiting
  <1>7. issued'[q] = issued[q] + 1 /\ \A p \in Queues \ {q} : issued'[p] = issued[p]
    BY <1>0, <1>2 DEF TypeOK
  <1>8. Moves(q, i, "leased", issued[q] + 1) /\ \A p \in Queues \ {q} : QueueRests(p)
    BY <1>0, <1>2, <1>4, <1>6, <1>7, OneMoves
  <1>9. QueueState(q, i) \in {"ready", "leased"}
    BY <1>0, QueueReading DEF LeaseRow, Claimable
  <1> QED BY <1>7, <1>8, <1>9 DEF QueuesStep, QueueMoves

LEMMA SettleMoves ==
    ASSUME EventInv, NEW w \in Workers, worker[w].id \in Ids, HoldsLease(w),
           NEW status \in {"done", "failed", "dead_letter", "retry_scheduled"}, NEW wait \in Int,
           Settle(w, status, wait), UNCHANGED issued
    PROVE  QueuesStep
  <1>0. TypeOK
    BY DEF EventInv
  <1>1. PICK q : q = QueueOf(w)
    OBVIOUS
  <1>2. PICK i : i = worker[w].id
    OBVIOUS
  <1>3. q \in Queues /\ i \in Ids /\ rows[q][i].status = "processing"
    BY <1>1, <1>2, QueuesDiffer DEF HoldsLease
  <1>4. PICK row \in Row : row = Settled(rows[q][i], status, wait) /\ row.status = status /\ row.token = 0
    <2>1. rows[q][i] \in Row /\ status \in RowStatus
      BY <1>0, <1>3, RowsTyped DEF RowStatus
    <2>2. Settled(rows[q][i], status, wait).token = 0
      BY <2>1 DEF Settled, Row
    <2> QED BY <2>1, <2>2, SettledRow
  <1>5. rows' = [rows EXCEPT ![q][i] = row]
    BY <1>1, <1>2, <1>4 DEF Settle, Settled
  <1>6. rows'[q][i] = row
    BY <1>0, <1>3, <1>4, <1>5, RowChange
  <1>7. QueueState(q, i) = "leased"
    BY <1>0, <1>3, QueueReading
  <1>8. CASE status = "retry_scheduled"
    <2>1. QueueState(q, i)' = "ready"
      BY <1>4, <1>6, <1>8 DEF QueueState, Waiting
    <2>2. Moves(q, i, "ready", 0) /\ \A p \in Queues \ {q} : QueueRests(p)
      BY <1>0, <1>3, <1>4, <1>5, <2>1, OneMoves
    <2> QED BY <1>3, <1>7, <2>2 DEF QueuesStep, QueueMoves
  <1>9. CASE status # "retry_scheduled"
    <2>1. QueueState(q, i)' = "settled"
      BY <1>4, <1>6, <1>9 DEF QueueState, Waiting
    <2>2. Moves(q, i, "settled", 0) /\ \A p \in Queues \ {q} : QueueRests(p)
      BY <1>0, <1>3, <1>4, <1>5, <2>1, OneMoves
    <2> QED BY <1>3, <1>7, <2>2 DEF QueuesStep, QueueMoves
  <1> QED BY <1>8, <1>9

LEMMA QueuesFollow == EventInv /\ [Next]_vars => QueuesStep
  <1> SUFFICES ASSUME EventInv, [Next]_vars PROVE QueuesStep
    OBVIOUS
  <1>1. CASE Tick
    BY <1>1, TickRests
  <1>2. CASE IngressStep
    <2>1. ASSUME NEW e \in Events, Deliver(e) PROVE QueuesStep
      BY <2>1, RowsRest DEF Deliver
    <2>2. ASSUME NEW d \in ingress, ClaimInbound(d) PROVE QueuesStep
      <3>1. PICK i \in Ids : i = <<d.event, d.stamp>>
        BY PairShape DEF EventInv, TypeOK, Request
      <3>2. Submits("inbox", i) /\ UNCHANGED issued
        BY <2>2, <3>1 DEF ClaimInbound, Submits
      <3> QED BY <3>2, SubmitMoves, QueuesDiffer
    <2>3. ASSUME NEW d \in ingress, ClaimReplay(d) \/ Acknowledge(d) \/ DeliveryDies(d) PROVE QueuesStep
      BY <2>3, RowsRest DEF ClaimReplay, Acknowledge, DeliveryDies
    <2> QED BY <1>2, <2>1, <2>2, <2>3 DEF IngressStep
  <1>3. ASSUME NEW w \in Workers, ClaimStep(w) PROVE QueuesStep
    <2>1. CASE StartCycle(w) \/ TakeSnapshot(w) \/ NothingToClaim(w)
      BY <2>1, RowsRest DEF StartCycle, TakeSnapshot, NothingToClaim
    <2> QED BY <1>3, <2>1, LeaseMoves, QueuesDiffer DEF ClaimStep, ClaimInbox, ClaimOutbox
  <1>4. ASSUME NEW w \in Workers, HandleStep(w) PROVE QueuesStep
    <2>1. CASE AppendOutbox(w)
      <3>1. PICK i \in Ids : i = worker[w].id
        BY <2>1, AtHand DEF AppendOutbox
      <3>2. Submits("outbox", i) /\ UNCHANGED issued
        BY <2>1, <3>1 DEF AppendOutbox, Submits
      <3> QED BY <3>2, SubmitMoves, QueuesDiffer
    <2>2. CASE Publish(w)
      <3>1. worker[w].id \in Ids /\ HoldsLease(w) /\ Settle(w, "done", 0) /\ UNCHANGED issued
        BY <2>2, AtHand DEF Publish
      <3> QED BY <3>1, SettleMoves
    <2>3. CASE FindRun(w) \/ InsertRun(w) \/ FinishRun(w) \/ SendReply(w) \/ CannotSend(w) \/ PublishLosesLease(w)
      BY <2>3, RowsRest DEF FindRun, InsertRun, FinishRun, SendReply, CannotSend, PublishLosesLease
    <2> QED BY <1>4, <2>1, <2>2, <2>3 DEF HandleStep
  <1>5. ASSUME NEW w \in Workers, ReportStep(w) PROVE QueuesStep
    <2>1. CASE LeaseLost(w)
      BY <2>1, RowsRest DEF LeaseLost
    <2>2. CASE Complete(w) \/ Fail(w) \/ Retry(w)
      <3>1. worker[w].id \in Ids /\ HoldsLease(w) /\ UNCHANGED issued
        BY <2>2, AtHand DEF Complete, Fail, Retry, Reports
      <3>2. \/ Settle(w, "done", 0) \/ Settle(w, "failed", 0)
            \/ Settle(w, "dead_letter", 0) \/ Settle(w, "retry_scheduled", RetryTicks)
        BY <2>2 DEF Complete, Fail, Retry
      <3> QED BY <3>1, <3>2, SettleMoves, NumberAssumption
    <2> QED BY <1>5, <2>1, <2>2 DEF ReportStep
  <1>6. ASSUME NEW w \in Workers, FaultStep(w) PROVE QueuesStep
    BY <1>6, RowsRest DEF FaultStep, Crash, PublishThrows, RunFails, HandlerThrows
  <1>7. CASE UNCHANGED vars
    BY <1>7, RowsRest DEF vars
  <1> QED BY <1>1, <1>2, <1>3, <1>4, <1>5, <1>6, <1>7 DEF Next

LEMMA QueuesStart ==
    ASSUME Init, NEW q \in Queues
    PROVE  /\ QueueMap(q) = [i \in Ids |-> "absent"]
           /\ HolderMap(q) = [i \in Ids |-> 0]
           /\ issued[q] = 0
  <1>1. NoRow.status = "absent" /\ NoRow.token = 0
    BY DEF NoRow
  <1>2. \A i \in Ids : rows[q][i] = NoRow
    BY DEF Init
  <1>3. \A i \in Ids : QueueState(q, i) = "absent" /\ rows[q][i].token = 0
    BY <1>1, <1>2 DEF QueueState, Waiting
  <1>4. issued[q] = 0
    BY DEF Init
  <1> QED BY <1>3, <1>4 DEF QueueMap, HolderMap

(* The inbox and the outbox are work queues without an operator: whatever  *)
(* workers do and however often they die, a row that is settled is never   *)
(* leased again, and only the current lease settles a row (DR-002, DR-003).*)
THEOREM TablesAreWorkQueues == Spec => ImplementsWorkQueues
  <1>1. Init => Inbox!Init
    BY QueuesStart, QueuesDiffer DEF Inbox!Init, QueueMap, HolderMap
  <1>2. Init => Outbox!Init
    BY QueuesStart, QueuesDiffer DEF Outbox!Init, QueueMap, HolderMap
  <1>3. EventInv /\ [Next]_vars => [Inbox!Next]_(Inbox!queueVars)
    <2> SUFFICES ASSUME EventInv, [Next]_vars PROVE Inbox!Next \/ UNCHANGED Inbox!queueVars
      OBVIOUS
    <2>1. QueueMoves("inbox") \/ QueueRests("inbox")
      BY QueuesFollow, QueuesDiffer DEF QueuesStep
    <2>2. CASE QueueRests("inbox")
      BY <2>2 DEF QueueRests, QueueMap, HolderMap, Inbox!queueVars
    <2>3. \A i \in Ids : [j \in Ids |-> QueueState("inbox", j)][i] = QueueState("inbox", i)
      OBVIOUS
    <2>4. CASE QueueMoves("inbox")
      BY <2>3, <2>4 DEF QueueMoves, Moves, QueueMap, HolderMap,
           Inbox!Next, Inbox!Submit, Inbox!Lease, Inbox!Settle, Inbox!PutBack, Inbox!Move
    <2> QED BY <2>1, <2>2, <2>4
  <1>4. EventInv /\ [Next]_vars => [Outbox!Next]_(Outbox!queueVars)
    <2> SUFFICES ASSUME EventInv, [Next]_vars PROVE Outbox!Next \/ UNCHANGED Outbox!queueVars
      OBVIOUS
    <2>1. QueueMoves("outbox") \/ QueueRests("outbox")
      BY QueuesFollow, QueuesDiffer DEF QueuesStep
    <2>2. CASE QueueRests("outbox")
      BY <2>2 DEF QueueRests, QueueMap, HolderMap, Outbox!queueVars
    <2>3. \A i \in Ids : [j \in Ids |-> QueueState("outbox", j)][i] = QueueState("outbox", i)
      OBVIOUS
    <2>4. CASE QueueMoves("outbox")
      BY <2>3, <2>4 DEF QueueMoves, Moves, QueueMap, HolderMap,
           Outbox!Next, Outbox!Submit, Outbox!Lease, Outbox!Settle, Outbox!PutBack, Outbox!Move
    <2> QED BY <2>1, <2>2, <2>4
  <1> QED BY <1>1, <1>2, <1>3, <1>4, Invariance, PTL DEF Spec, ImplementsWorkQueues, Inbox!Spec, Outbox!Spec
=============================================================================
