------------------------ MODULE TaskCommands_proofs ------------------------
(***************************************************************************)
(* What task packages promise for any number of packages, people, runs,    *)
(* callers, versions and handoffs.                                         *)
(***************************************************************************)
EXTENDS TaskCommands, TLAPS

-----------------------------------------------------------------------------
(* Sequences of handoffs.                                                  *)

LEMMA Appending ==
    ASSUME NEW s \in Seq(Handoffs), NEW h \in Handoffs
    PROVE  /\ Append(s, h) \in Seq(Handoffs)
           /\ Len(s) \in Nat
           /\ DOMAIN s = 1..Len(s)
           /\ DOMAIN Append(s, h) = 1..Len(s) + 1
           /\ Append(s, h)[Len(s) + 1] = h
           /\ \A i \in 1..Len(s) : Append(s, h)[i] = s[i]
  OBVIOUS

LEMMA Answering ==
    ASSUME handoffs \in Seq(Handoffs), NEW i \in DOMAIN handoffs,
           NEW d \in {"accepted", "rejected"}, NEW run \in Runs \cup {NoRun},
           Answers(i, d, run)
    PROVE  /\ handoffs' \in Seq(Handoffs)
           /\ DOMAIN handoffs' = DOMAIN handoffs
           /\ \A j \in DOMAIN handoffs : /\ j # i => handoffs'[j] = handoffs[j]
                                         /\ handoffs'[j].package = handoffs[j].package
                                         /\ handoffs'[j].version = handoffs[j].version
                                         /\ handoffs'[j].from = handoffs[j].from
                                         /\ handoffs'[j].to = handoffs[j].to
           /\ handoffs'[i].status = d
  <1> DEFINE n == [handoffs EXCEPT ![i].status = d, ![i].responseRun = run]
  <1>1. \A j \in DOMAIN handoffs : handoffs[j] \in Handoffs
    OBVIOUS
  <1>2. n = [handoffs EXCEPT ![i] = [handoffs[i] EXCEPT !.status = d, !.responseRun = run]]
    OBVIOUS
  <1>3. [handoffs[i] EXCEPT !.status = d, !.responseRun = run] \in Handoffs
    BY <1>1 DEF Handoffs
  <1>4. n \in Seq(Handoffs) /\ DOMAIN n = DOMAIN handoffs
    BY <1>2, <1>3
  <1>5. \A j \in DOMAIN handoffs : /\ j # i => n[j] = handoffs[j]
                                   /\ n[j].package = handoffs[j].package
                                   /\ n[j].version = handoffs[j].version
                                   /\ n[j].from = handoffs[j].from
                                   /\ n[j].to = handoffs[j].to
    BY <1>1, <1>2 DEF Handoffs
  <1>6. n[i].status = d
    BY <1>1, <1>2 DEF Handoffs
  <1>7. handoffs' = n
    BY DEF Answers
  <1> HIDE DEF n
  <1> QED BY <1>4, <1>5, <1>6, <1>7

(* What an acceptance makes of the package's row.                          *)
LEMMA HandingOver ==
    ASSUME NEW v \in PackageRows, NEW a \in People
    PROVE  LET row == HandedOver(v, a) IN
           /\ row \in PackageRows /\ row.version = v.version + 1
           /\ row.status = v.status /\ row.assignee = a
           /\ row.template = v.template /\ row.mode = v.mode /\ row.evidence = v.evidence
           /\ row.assignee # NoOne
  <1> DEFINE u == [v EXCEPT !.assignee = a]
             r == [u EXCEPT !.version = v.version + 1]
  <1>1. /\ u \in PackageRows /\ u.version = v.version /\ u.assignee = a /\ u.status = v.status
        /\ u.template = v.template /\ u.mode = v.mode /\ u.evidence = v.evidence
    BY DEF PackageRows
  <1>2. v.version \in Nat /\ a # NoOne
    BY NobodyAssumption DEF PackageRows
  <1>3. HandedOver(v, a) = r
    BY DEF HandedOver, PackageRows
  <1> HIDE DEF u
  <1>4. /\ r \in PackageRows /\ r.version = v.version + 1 /\ r.assignee = u.assignee
        /\ r.status = u.status /\ r.template = u.template /\ r.mode = u.mode
        /\ r.evidence = u.evidence
    BY <1>1, <1>2 DEF PackageRows
  <1> HIDE DEF r
  <1> QED BY <1>1, <1>2, <1>3, <1>4

-----------------------------------------------------------------------------
(* Type correctness.                                                       *)

LEMMA NoPackageType == NoPackage \in PackageRows /\ RowIsLegal(NoPackage)
  BY NobodyAssumption DEF NoPackage, PackageRows, RowIsLegal, Statuses

LEMMA TransitionStatus ==
    \A s : /\ Transitions(s) \subseteq (Held \cup Over \cup {"in_review"})
           /\ Transitions(s) # {} => s \notin Over \cup {"absent"}
           /\ s # "published" => "claimed" \notin Transitions(s)
  BY DEF Transitions, Held, Over

(* What a request that is under way has read.                              *)
LEMMA RequestShape ==
    ASSUME TypeOK, NEW c \in Callers, ~At(c, "idle")
    PROVE  /\ request[c] \in Requests
           /\ request[c].package \in Packages
           /\ Seen(c) \in PackageRows
           /\ request[c].handoff \in Nat
  <1>1. request[c] # NoRequest
    BY DEF At, NoRequest
  <1> QED BY <1>1 DEF TypeOK, Requests, Seen

LEMMA InitType == Init => TypeOK
  BY NoPackageType DEF Init, TypeOK

LEMMA EndsType ==
    ASSUME TypeOK, NEW c \in Callers, Ends(c)
    PROVE  request' \in [Callers -> Requests \cup {NoRequest}]
  BY DEF TypeOK, Ends, Becomes

LEMMA ReadsType ==
    ASSUME TypeOK, NEW c \in Callers, NEW p \in Packages,
           NEW pc \in {"claim", "template", "listHandoffs", "checkPending"}, Reads(c, pc, p)
    PROVE  TypeOK'
  <1>1. package[p] \in PackageRows
    BY DEF TypeOK
  <1>2. [NoRequest EXCEPT !.pc = pc, !.package = p, !.seen = package[p]] \in Requests
    BY <1>1 DEF NoRequest, Requests
  <1> QED BY <1>2 DEF TypeOK, Reads, Becomes

LEMMA GoesType ==
    ASSUME TypeOK, NEW c \in Callers, ~At(c, "idle"),
           NEW pc \in {"transition", "insertHandoff"}, Goes(c, pc)
    PROVE  request' \in [Callers -> Requests \cup {NoRequest}]
  <1>1. [request[c] EXCEPT !.pc = pc] \in Requests
    BY RequestShape DEF Requests
  <1> QED BY <1>1 DEF TypeOK, Goes

LEMMA ReplacesType ==
    ASSUME TypeOK, NEW c \in Callers, ~At(c, "idle"), NEW next \in PackageRows, Replaces(c, next)
    PROVE  TypeOK'
  <1>1. request[c].package \in Packages /\ Seen(c).version \in Nat
    BY RequestShape DEF PackageRows
  <1>2. [next EXCEPT !.version = Seen(c).version + 1] \in PackageRows
    BY <1>1 DEF PackageRows
  <1>3. RowIsLegal(next) => RowIsLegal([next EXCEPT !.version = Seen(c).version + 1])
    BY DEF RowIsLegal, PackageRows
  <1>4. package' \in [Packages -> {v \in PackageRows : RowIsLegal(v)}]
    BY <1>1, <1>2, <1>3 DEF TypeOK, Replaces
  <1> QED BY <1>4, EndsType DEF TypeOK, Replaces

-----------------------------------------------------------------------------
(* The inductive invariant.  A package only moves forward, so an operation *)
(* that finds the version it has read finds the row it has read; a handoff *)
(* that finds the version it froze finds the holder it froze; and what is  *)
(* pending is always the latest handoff of its package.                    *)

VersionsBegin == \A p \in Packages : package[p].status = "absent" <=> package[p].version = 0

(* v may have become w. *)
MayHaveBecome(v, w) ==
    /\ v.version \in 1..w.version
    /\ v.version = w.version => v = w
    /\ v.template = w.template
    /\ ~v.template /\ v.assignee # NoOne => w.assignee # NoOne

ReadsAreOfThePast ==
    \A c \in Callers : ~At(c, "idle") => MayHaveBecome(Seen(c), package[request[c].package])

ReadsFit ==
    \A c \in Callers :
        /\ At(c, "claim") => Claimable(Seen(c))
        /\ At(c, "template") => Seen(c).template
        /\ At(c, "checkPending") \/ At(c, "insertHandoff") => Transferable(Seen(c))
        /\ At(c, "respond") => /\ request[c].handoff \in DOMAIN handoffs
                               /\ handoffs[request[c].handoff].package = request[c].package

Fits(h, v) ==
    /\ h.version \in 1..v.version
    /\ h.version = v.version => h.from = v.assignee /\ v.status \in Held /\ h.status # "accepted"
    /\ ~v.template => v.assignee # NoOne

HandoffsFit == \A i \in DOMAIN handoffs : Fits(handoffs[i], package[handoffs[i].package])

PendingIsLast ==
    \A i, j \in DOMAIN handoffs :
        handoffs[i].status = "pending" /\ handoffs[j].package = handoffs[i].package => j <= i

CustodyInv ==
    /\ TypeOK
    /\ VersionsBegin
    /\ ReadsAreOfThePast
    /\ ReadsFit
    /\ HandoffsFit
    /\ PendingIsLast
    /\ ChainUnbroken

LEMMA CustodyInit == Init => CustodyInv
  <1> SUFFICES ASSUME Init PROVE CustodyInv
    OBVIOUS
  <1>1. DOMAIN handoffs = {}
    BY DEF Init
  <1>2. \A c \in Callers : At(c, "idle") /\ \A pc : At(c, pc) => pc = "idle"
    BY DEF Init, At, NoRequest
  <1>3. VersionsBegin
    BY DEF Init, VersionsBegin, NoPackage
  <1>4. ChainUnbroken
    BY <1>1 DEF ChainUnbroken, Pending, Accepted
  <1> QED BY <1>1, <1>2, <1>3, <1>4, InitType
          DEF CustodyInv, ReadsAreOfThePast, ReadsFit, HandoffsFit, PendingIsLast

(* A step of one caller's memory. *)
LEMMA CallerMoves ==
    ASSUME CustodyInv, TypeOK', UNCHANGED <<package, handoffs>>, NEW c \in Callers,
           \A d \in Callers : d # c => request'[d] = request[d],
           ~At(c, "idle")' =>
               /\ MayHaveBecome(Seen(c), package[request[c].package])'
               /\ At(c, "claim")' => Claimable(Seen(c))'
               /\ At(c, "template")' => Seen(c)'.template
               /\ At(c, "checkPending")' \/ At(c, "insertHandoff")' => Transferable(Seen(c)')
               /\ At(c, "respond")' => /\ request'[c].handoff \in DOMAIN handoffs
                                       /\ handoffs[request'[c].handoff].package = request'[c].package
    PROVE  CustodyInv'
  <1>1. ReadsAreOfThePast'
    <2> SUFFICES ASSUME NEW d \in Callers, ~At(d, "idle")'
                 PROVE  MayHaveBecome(Seen(d), package[request[d].package])'
      BY DEF ReadsAreOfThePast
    <2>1. CASE d # c
      BY <2>1 DEF CustodyInv, ReadsAreOfThePast, At, Seen
    <2> QED BY <2>1
  <1>2. ReadsFit'
    BY DEF CustodyInv, ReadsFit, At, Seen
  <1>3. VersionsBegin' /\ HandoffsFit' /\ PendingIsLast' /\ ChainUnbroken'
    BY DEF CustodyInv, VersionsBegin, HandoffsFit, PendingIsLast, ChainUnbroken, Pending, Accepted, Continues
  <1> QED BY <1>1, <1>2, <1>3 DEF CustodyInv

LEMMA Idles ==
    ASSUME TypeOK, NEW c \in Callers, Ends(c)
    PROVE  /\ \A pc : At(c, pc)' => pc = "idle"
           /\ At(c, "idle")'
           /\ \A d \in Callers : d # c => request'[d] = request[d]
  BY DEF TypeOK, Ends, Becomes, At, NoRequest

LEMMA RefusedStep ==
    ASSUME CustodyInv, NEW c \in Callers, Ends(c), UNCHANGED <<package, handoffs>>
    PROVE  CustodyInv'
  <1>1. TypeOK'
    BY EndsType DEF CustodyInv, TypeOK
  <1> QED BY <1>1, Idles, CallerMoves DEF CustodyInv

(* What is true of a row is so of the row it has become, as far as the      *)
(* relation says.                                                          *)
LEMMA Becoming ==
    ASSUME NEW u \in PackageRows, NEW v \in PackageRows, NEW w \in PackageRows,
           MayHaveBecome(u, v), MayHaveBecome(v, w), v.version < w.version
    PROVE  MayHaveBecome(u, w)
  BY DEF MayHaveBecome, PackageRows

(* A package moves on: the step of the package's row in any operation.     *)
LEMMA RowMoves ==
    ASSUME CustodyInv, TypeOK', NEW p \in Packages, NEW c \in Callers,
           Ends(c), NEW row \in PackageRows,
           MayHaveBecome(package[p], row), row.version = package[p].version + 1,
           row.status # "absent",
           package' = [package EXCEPT ![p] = row]
    PROVE  /\ VersionsBegin'
           /\ ReadsAreOfThePast'
           /\ \A d \in Callers : At(d, "idle")' \/ (d # c /\ request'[d] = request[d])
  <1>1. /\ \A q \in Packages : q # p => package'[q] = package[q]
        /\ package'[p] = row
        /\ \A q \in Packages : package[q] \in PackageRows
    BY DEF CustodyInv, TypeOK
  <1>2. VersionsBegin'
    BY <1>1 DEF CustodyInv, VersionsBegin, PackageRows
  <1>3. \A d \in Callers : At(d, "idle")' \/ (d # c /\ request'[d] = request[d])
    BY Idles DEF CustodyInv
  <1>4. ASSUME NEW d \in Callers, ~At(d, "idle")'
        PROVE  MayHaveBecome(Seen(d), package[request[d].package])'
    <2>1. ~At(d, "idle") /\ request'[d] = request[d]
      BY <1>3, <1>4 DEF At
    <2>2. MayHaveBecome(Seen(d), package[request[d].package])
      BY <2>1 DEF CustodyInv, ReadsAreOfThePast
    <2>3. Seen(d) \in PackageRows /\ request[d].package \in Packages /\ Seen(d)' = Seen(d)
      BY <2>1, RequestShape DEF CustodyInv, Seen
    <2>4. CASE request[d].package = p
      <3>1. package[p].version < row.version
        BY <1>1 DEF PackageRows
      <3>2. MayHaveBecome(Seen(d), row)
        BY <1>1, <2>2, <2>3, <2>4, <3>1, Becoming
      <3> QED BY <1>1, <2>1, <2>3, <2>4, <3>2 DEF MayHaveBecome
    <2>5. CASE request[d].package # p
      BY <1>1, <2>1, <2>2, <2>3, <2>5 DEF MayHaveBecome
    <2> QED BY <2>4, <2>5
  <1> QED BY <1>2, <1>3, <1>4 DEF ReadsAreOfThePast

LEMMA WorkMoves ==
    ASSUME CustodyInv, TypeOK', NEW p \in Packages, NEW c \in Callers,
           Ends(c), UNCHANGED handoffs, NEW row \in PackageRows,
           MayHaveBecome(package[p], row), row.version = package[p].version + 1,
           row.status # "absent",
           row.template \/ row.assignee = package[p].assignee \/ package[p].assignee = NoOne,
           package' = [package EXCEPT ![p] = row]
    PROVE  CustodyInv'
  <1>1. /\ \A q \in Packages : q # p => package'[q] = package[q]
        /\ package'[p] = row
        /\ package[p] \in PackageRows
    BY DEF CustodyInv, TypeOK
  <1>2. /\ VersionsBegin'
        /\ ReadsAreOfThePast'
        /\ \A d \in Callers : At(d, "idle")' \/ (d # c /\ request'[d] = request[d])
    BY RowMoves
  <1>3. ReadsFit'
    BY <1>2 DEF CustodyInv, ReadsFit, At, Seen
  <1>4. \A i \in DOMAIN handoffs : handoffs[i] \in Handoffs
    BY DEF CustodyInv, TypeOK
  <1>5. HandoffsFit'
    <2> SUFFICES ASSUME NEW i \in DOMAIN handoffs PROVE Fits(handoffs[i], package'[handoffs[i].package])
      BY DEF HandoffsFit, Fits
    <2>1. Fits(handoffs[i], package[handoffs[i].package]) /\ handoffs[i].package \in Packages
      BY <1>4 DEF CustodyInv, HandoffsFit, Handoffs
    <2>2. CASE handoffs[i].package = p
      BY <1>1, <1>4, <2>1, <2>2 DEF Fits, MayHaveBecome, Handoffs, PackageRows
    <2>3. CASE handoffs[i].package # p
      BY <1>1, <2>1, <2>3
    <2> QED BY <2>2, <2>3
  <1>6. PendingIsLast'
    BY DEF CustodyInv, PendingIsLast
  <1>7. ChainUnbroken'
    <2>1. \A q \in Packages : Pending(q)' = Pending(q) /\ Accepted(q)' = Accepted(q)
      BY DEF Pending, Accepted
    <2>2. \A i, j : Continues(i, j)' <=> Continues(i, j)
      BY DEF Continues
    <2>3. \A q \in Packages : /\ package'[q].template = package[q].template
                              /\ ~package[q].template /\ Accepted(q) # {} =>
                                     package'[q].assignee = package[q].assignee
      <3> TAKE q \in Packages
      <3>1. Accepted(q) # {} /\ ~package[q].template => package[q].assignee # NoOne
        BY DEF CustodyInv, HandoffsFit, Fits, Accepted
      <3> QED BY <1>1, <3>1 DEF MayHaveBecome
    <2> QED BY <2>1, <2>2, <2>3 DEF CustodyInv, ChainUnbroken
  <1> QED BY <1>2, <1>3, <1>5, <1>6, <1>7 DEF CustodyInv

(* The replacement of a row that has been read before: it is done to that  *)
(* row or not at all.                                                      *)
LEMMA ReplacesStep ==
    ASSUME CustodyInv, NEW c \in Callers, ~At(c, "idle"), NEW next \in PackageRows,
           next.version = Seen(c).version, next.template = Seen(c).template,
           Seen(c).status # "absent" => next.status # "absent",
           ~next.template /\ Seen(c).assignee # NoOne => next.assignee # NoOne,
           next.template \/ next.assignee = Seen(c).assignee \/ Seen(c).assignee = NoOne,
           Replaces(c, next)
    PROVE  CustodyInv'
  <1> DEFINE p == request[c].package
             row == [next EXCEPT !.version = Seen(c).version + 1]
  <1>1. p \in Packages /\ Seen(c) \in PackageRows /\ package[p] \in PackageRows
    BY RequestShape DEF CustodyInv, TypeOK
  <1>2. CASE UNCHANGED package
    BY <1>2, RefusedStep DEF Replaces
  <1>3. CASE package[p].version = Seen(c).version /\ package' = [package EXCEPT ![p] = row]
    <2>1. package[p] = Seen(c) /\ Seen(c).version \in Nat \ {0} /\ next.status # "absent"
      BY <1>1, <1>3 DEF CustodyInv, ReadsAreOfThePast, MayHaveBecome, VersionsBegin, PackageRows
    <2>2. /\ row \in PackageRows /\ row.version = Seen(c).version + 1
          /\ row.status = next.status /\ row.assignee = next.assignee /\ row.template = next.template
      BY <1>1 DEF PackageRows
    <2>3. MayHaveBecome(package[p], row)
      BY <2>1, <2>2 DEF MayHaveBecome
    <2>4. TypeOK'
      BY ReplacesType DEF CustodyInv
    <2> HIDE DEF row
    <2> QED BY <1>1, <1>3, <2>1, <2>2, <2>3, <2>4, WorkMoves DEF Replaces
  <1> QED BY <1>2, <1>3 DEF Replaces

LEMMA PublishStep ==
    ASSUME CustodyInv, NEW p \in Packages, Publish(p)
    PROVE  CustodyInv'
  <1>1. PICK a \in People \cup {NoOne}, t \in BOOLEAN :
            package' = [package EXCEPT ![p] =
                [mode |-> IF a = NoOne THEN "open_claim" ELSE "direct",
                 status |-> IF a = NoOne THEN "published" ELSE "assigned",
                 assignee |-> a, evidence |-> FALSE, template |-> t, version |-> 1]]
    BY DEF Publish
  <1>2. /\ \A q \in Packages : q # p => package'[q] = package[q]
        /\ package'[p].version = 1 /\ package'[p].status # "absent"
        /\ package'[p] \in PackageRows /\ RowIsLegal(package'[p])
        /\ package[p].status = "absent" /\ package[p].version = 0
        /\ UNCHANGED <<handoffs, request>>
    BY <1>1 DEF Publish, CustodyInv, TypeOK, VersionsBegin, PackageRows, Statuses, Held, RowIsLegal
  <1>3. TypeOK'
    BY <1>1, <1>2 DEF CustodyInv, TypeOK
  <1>4. VersionsBegin'
    BY <1>2 DEF CustodyInv, VersionsBegin
  <1>5. \A c \in Callers : ~At(c, "idle") => request[c].package # p
    BY <1>2 DEF CustodyInv, ReadsAreOfThePast, MayHaveBecome
  <1>6. ReadsAreOfThePast'
    BY <1>2, <1>5, RequestShape DEF CustodyInv, ReadsAreOfThePast, At, Seen, MayHaveBecome
  <1>7. ReadsFit'
    BY <1>2 DEF CustodyInv, ReadsFit, At, Seen
  <1>8. \A i \in DOMAIN handoffs : handoffs[i] \in Handoffs /\ handoffs[i].package \in Packages \ {p}
    <2> TAKE i \in DOMAIN handoffs
    <2>1. handoffs[i] \in Handoffs
      BY DEF CustodyInv, TypeOK
    <2> QED BY <1>2, <2>1 DEF CustodyInv, HandoffsFit, Fits, Handoffs
  <1>9. HandoffsFit'
    BY <1>2, <1>8 DEF CustodyInv, HandoffsFit, Fits
  <1>10. PendingIsLast'
    BY <1>2 DEF CustodyInv, PendingIsLast
  <1>11. ChainUnbroken'
    <2>1. \A q \in Packages : Pending(q)' = Pending(q) /\ Accepted(q)' = Accepted(q)
      BY <1>2 DEF Pending, Accepted
    <2>2. \A i, j : Continues(i, j)' <=> Continues(i, j)
      BY <1>2 DEF Continues
    <2>3. Accepted(p) = {} /\ Pending(p) = {}
      BY <1>8 DEF Accepted, Pending
    <2> QED BY <1>2, <2>1, <2>2, <2>3 DEF CustodyInv, ChainUnbroken
  <1> QED BY <1>3, <1>4, <1>6, <1>7, <1>9, <1>10, <1>11 DEF CustodyInv

LEMMA ReadsStep ==
    ASSUME CustodyInv, NEW c \in Callers, NEW p \in Packages,
           NEW pc \in {"claim", "template", "listHandoffs", "checkPending"}, Reads(c, pc, p),
           pc = "claim" => Claimable(package[p]),
           pc = "template" => package[p].template,
           pc = "checkPending" => Transferable(package[p])
    PROVE  CustodyInv'
  <1>1. TypeOK'
    BY ReadsType DEF CustodyInv
  <1>2. /\ request'[c] = [NoRequest EXCEPT !.pc = pc, !.package = p, !.seen = package[p]]
        /\ \A d \in Callers : d # c => request'[d] = request[d]
    BY DEF CustodyInv, TypeOK, Reads, Becomes
  <1>3. request'[c].pc = pc /\ request'[c].package = p /\ request'[c].seen = package[p]
    BY <1>2 DEF NoRequest
  <1>4. MayHaveBecome(package[p], package[p])
    BY DEF Reads, MayHaveBecome, CustodyInv, TypeOK, PackageRows
  <1>5. /\ ~At(c, "idle")' /\ Seen(c)' = package[p]
        /\ \A l : At(c, l)' => l = pc
    BY <1>3 DEF At, Seen
  <1>6. UNCHANGED <<package, handoffs>>
    BY DEF Reads
  <1>7. MayHaveBecome(Seen(c), package[request[c].package])'
    BY <1>3, <1>4, <1>5, <1>6
  <1> QED BY <1>1, <1>2, <1>5, <1>6, <1>7, CallerMoves DEF Claimable

LEMMA GoesStep ==
    ASSUME CustodyInv, NEW c \in Callers, ~At(c, "idle"), UNCHANGED <<package, handoffs>>,
           NEW pc \in {"transition", "insertHandoff"}, Goes(c, pc),
           pc = "insertHandoff" => At(c, "checkPending")
    PROVE  CustodyInv'
  <1>1. TypeOK'
    BY GoesType DEF CustodyInv, TypeOK
  <1>2. \A d \in Callers : d # c => request'[d] = request[d]
    BY DEF CustodyInv, TypeOK, Goes
  <1>3. /\ request'[c].pc = pc /\ request'[c].package = request[c].package
        /\ request'[c].seen = request[c].seen
    BY RequestShape DEF CustodyInv, TypeOK, Goes, Requests
  <1>4. Seen(c)' = Seen(c) /\ \A l : At(c, l)' => l = pc
    BY <1>3 DEF At, Seen
  <1>5. MayHaveBecome(Seen(c), package[request[c].package])'
    BY <1>3, <1>4 DEF CustodyInv, ReadsAreOfThePast, MayHaveBecome
  <1>6. pc = "insertHandoff" => Transferable(Seen(c))
    BY DEF CustodyInv, ReadsFit
  <1> QED BY <1>1, <1>2, <1>4, <1>5, <1>6, CallerMoves

LEMMA InsertStep ==
    ASSUME CustodyInv, NEW c \in Callers, InsertHandoff(c)
    PROVE  CustodyInv'
  <1> DEFINE p == request[c].package
  <1>1. CASE UNCHANGED handoffs
    BY <1>1, RefusedStep DEF InsertHandoff
  <1>2. ASSUME NEW b \in People \ {Seen(c).assignee}, NEW run \in Runs \cup {NoRun},
               ~Conflicts(p, run),
               handoffs' = Append(handoffs,
                   [package |-> p, version |-> Seen(c).version, from |-> Seen(c).assignee,
                    to |-> b, status |-> "pending", run |-> run, responseRun |-> NoRun])
        PROVE  CustodyInv'
    <2> DEFINE h == [package |-> p, version |-> Seen(c).version, from |-> Seen(c).assignee,
                     to |-> b, status |-> "pending", run |-> run, responseRun |-> NoRun]
               n == Len(handoffs) + 1
    <2>1. /\ p \in Packages /\ Seen(c) \in PackageRows /\ package[p] \in PackageRows
          /\ Transferable(Seen(c)) /\ MayHaveBecome(Seen(c), package[p])
      BY RequestShape DEF InsertHandoff, At, CustodyInv, ReadsFit, ReadsAreOfThePast, TypeOK
    <2>2. h \in Handoffs /\ handoffs \in Seq(Handoffs)
      BY <2>1 DEF Handoffs, Transferable, PackageRows, CustodyInv, TypeOK
    <2>3. h.package = p /\ h.status = "pending" /\ h.version = Seen(c).version /\ h.from = Seen(c).assignee
      OBVIOUS
    <2> HIDE DEF h
    <2>4. /\ handoffs' \in Seq(Handoffs)
          /\ Len(handoffs) \in Nat
          /\ DOMAIN handoffs = 1..Len(handoffs)
          /\ DOMAIN handoffs' = 1..n
          /\ handoffs'[n] = h
          /\ \A i \in 1..Len(handoffs) : handoffs'[i] = handoffs[i]
      BY <1>2, <2>2, Appending DEF h
    <2>5. UNCHANGED package /\ Ends(c)
      BY DEF InsertHandoff
    <2>6. TypeOK'
      BY <2>4, <2>5, EndsType DEF CustodyInv, TypeOK
    <2>7. ReadsAreOfThePast'
      BY <2>5, Idles DEF CustodyInv, ReadsAreOfThePast, At, Seen
    <2>8. ReadsFit'
      <3>1. \A d \in Callers : At(d, "idle")' \/ (d # c /\ request'[d] = request[d])
        BY <2>5, Idles DEF CustodyInv
      <3> QED BY <2>4, <3>1 DEF CustodyInv, ReadsFit, At, Seen
    <2>9. Fits(h, package[p])
      BY <2>1, <2>3 DEF Fits, MayHaveBecome, Transferable
    <2>10. HandoffsFit'
      BY <2>3, <2>4, <2>5, <2>9 DEF CustodyInv, HandoffsFit
    <2>11. \A i \in 1..Len(handoffs) : handoffs[i].package = p => handoffs[i].status # "pending"
      BY <1>2, <2>4 DEF Conflicts, Pending
    <2>12. PendingIsLast'
      <3> SUFFICES ASSUME NEW i \in 1..n, NEW j \in 1..n, handoffs'[i].status = "pending",
                          handoffs'[j].package = handoffs'[i].package
                   PROVE  j <= i
        BY <2>4 DEF PendingIsLast
      <3>1. CASE i = n
        BY <2>4, <3>1
      <3>2. CASE i \in 1..Len(handoffs) /\ j = n
        BY <2>3, <2>4, <2>11, <3>2
      <3>3. CASE i \in 1..Len(handoffs) /\ j \in 1..Len(handoffs)
        BY <2>4, <3>3 DEF CustodyInv, PendingIsLast
      <3> QED BY <2>4, <3>1, <3>2, <3>3
    <2>13. ChainUnbroken'
      <3>1. \A q \in Packages : Accepted(q)' = Accepted(q)
        BY <2>3, <2>4 DEF Accepted
      <3>2. \A i, j \in 1..Len(handoffs) : Continues(i, j)' <=> Continues(i, j)
        BY <2>4 DEF Continues
      <3>3. \A q \in Packages : \A i, j \in Pending(q)' : i = j
        <4>1. \A q \in Packages : Pending(q)' = IF q = p THEN {n} ELSE Pending(q)
          BY <2>3, <2>4, <2>11 DEF Pending
        <4> QED BY <4>1 DEF CustodyInv, ChainUnbroken
      <3>4. \A q \in Packages : Accepted(q) \subseteq 1..Len(handoffs)
        BY <2>4 DEF Accepted
      <3> QED BY <2>4, <2>5, <3>1, <3>2, <3>3, <3>4 DEF CustodyInv, ChainUnbroken
    <2>14. VersionsBegin'
      BY <2>5 DEF CustodyInv, VersionsBegin
    <2> QED BY <2>6, <2>7, <2>8, <2>10, <2>12, <2>13, <2>14 DEF CustodyInv
  <1> QED BY <1>1, <1>2 DEF InsertHandoff

(* What the answer to a handoff finds, although the package was read in    *)
(* another transaction before: the package as it was frozen.               *)
LEMMA AnswerFinds ==
    ASSUME CustodyInv, NEW c \in Callers, At(c, "respond"), NEW run,
           handoffs[request[c].handoff].status = "pending", MayAnswer(c, run)
    PROVE  LET i == request[c].handoff  p == request[c].package IN
           /\ i \in DOMAIN handoffs /\ handoffs[i] \in Handoffs
           /\ p \in Packages /\ handoffs[i].package = p
           /\ package[p] = Seen(c) /\ package[p] \in PackageRows
           /\ AsFrozen(handoffs[i], package[p])
           /\ package[p].status \in Held
           /\ \A j \in DOMAIN handoffs : handoffs[j].package = p => j <= i
  <1> DEFINE i == request[c].handoff
             p == request[c].package
  <1>1. i \in DOMAIN handoffs /\ handoffs[i].package = p /\ handoffs[i] \in Handoffs
    BY DEF CustodyInv, ReadsFit, TypeOK
  <1>2. p \in Packages /\ package[p] \in PackageRows
    BY RequestShape DEF At, CustodyInv, TypeOK
  <1>3. package[p] = Seen(c) /\ AsFrozen(handoffs[i], package[p])
    BY DEF At, CustodyInv, ReadsAreOfThePast, MayHaveBecome, MayAnswer
  <1>4. package[p].status \in Held
    BY <1>1, <1>3 DEF AsFrozen, CustodyInv, HandoffsFit, Fits
  <1>5. \A j \in DOMAIN handoffs : handoffs[j].package = p => j <= i
    BY <1>1 DEF CustodyInv, PendingIsLast
  <1> QED BY <1>1, <1>2, <1>3, <1>4, <1>5

(* The chain of a package grows at its end, by what its holder offered.    *)
LEMMA ChainGrows ==
    ASSUME CustodyInv, NEW p \in Packages, NEW i \in DOMAIN handoffs,
           handoffs[i].package = p, handoffs[i].status = "pending",
           handoffs[i].version = package[p].version, package[p].assignee = handoffs[i].from,
           \A j \in DOMAIN handoffs : handoffs[j].package = p => j <= i,
           handoffs' \in Seq(Handoffs), DOMAIN handoffs' = DOMAIN handoffs,
           \A j \in DOMAIN handoffs : /\ j # i => handoffs'[j] = handoffs[j]
                                      /\ handoffs'[j].package = handoffs[j].package
                                      /\ handoffs'[j].version = handoffs[j].version
                                      /\ handoffs'[j].from = handoffs[j].from
                                      /\ handoffs'[j].to = handoffs[j].to,
           handoffs'[i].status = "accepted",
           package'[p].assignee = handoffs[i].to, package'[p].template = package[p].template,
           \A q \in Packages : q # p => package'[q] = package[q]
    PROVE  ChainUnbroken'
  <1>1. \A j \in DOMAIN handoffs : handoffs[j] \in Handoffs /\ j \in Nat
    BY DEF CustodyInv, TypeOK
  <1>2. \A q \in Packages : Pending(q)' = Pending(q) \ {i}
    BY DEF Pending
  <1>3. \A j, k \in DOMAIN handoffs : Continues(j, k)' <=> Continues(j, k)
    BY DEF Continues
  <1>4. \A q \in Packages : Accepted(q)' = IF q = p THEN Accepted(q) \cup {i} ELSE Accepted(q)
    BY DEF Accepted
  <1>5. \A q \in Packages : Accepted(q) \subseteq DOMAIN handoffs /\ Accepted(q) \subseteq Nat
    BY <1>1 DEF Accepted
  <1>6. \A q \in Packages : \A j, k \in Pending(q)' : j = k
    BY <1>2 DEF CustodyInv, ChainUnbroken
  <1>7. ASSUME NEW q \in Packages \ {p}, ~package'[q].template, NEW j \in Accepted(q)'
        PROVE  /\ \A k \in Accepted(q)' :
                     j < k /\ (\A l \in Accepted(q)' : ~(j < l /\ l < k)) => Continues(j, k)'
               /\ (\A k \in Accepted(q)' : k <= j) => handoffs'[j].to = package'[q].assignee
    BY <1>3, <1>4, <1>5, <1>7 DEF CustodyInv, ChainUnbroken
  <1>8. ASSUME ~package'[p].template, NEW j \in Accepted(p)'
        PROVE  /\ \A k \in Accepted(p)' :
                     j < k /\ (\A l \in Accepted(p)' : ~(j < l /\ l < k)) => Continues(j, k)'
               /\ (\A k \in Accepted(p)' : k <= j) => handoffs'[j].to = package'[p].assignee
    <2>1. \A k \in Accepted(p) : k < i
      BY <1>1, <1>5 DEF Accepted
    <2>2. Accepted(p)' = Accepted(p) \cup {i} /\ i \in Nat /\ j \in Nat
      BY <1>1, <1>4, <1>5
    <2>3. ASSUME NEW k \in Accepted(p)', j < k, \A l \in Accepted(p)' : ~(j < l /\ l < k)
          PROVE  Continues(j, k)'
      <3>1. j \in Accepted(p)
        BY <1>5, <2>1, <2>2, <2>3
      <3>2. CASE k = i
        <4>1. \A l \in Accepted(p) : l <= j
          BY <1>5, <2>1, <2>2, <2>3, <3>2
        <4>2. handoffs[j].to = package[p].assignee
          BY <1>8, <3>1, <4>1 DEF CustodyInv, ChainUnbroken
        <4>3. handoffs[j].version < handoffs[i].version
          BY <1>1, <3>1 DEF CustodyInv, HandoffsFit, Fits, Accepted, Handoffs, TypeOK, PackageRows
        <4> QED BY <1>3, <1>5, <3>1, <3>2, <4>2, <4>3 DEF Continues
      <3>3. CASE k # i
        <4>1. k \in Accepted(p)
          BY <2>2, <3>3
        <4>2. Continues(j, k)
          BY <1>8, <2>2, <2>3, <3>1, <4>1 DEF CustodyInv, ChainUnbroken
        <4> QED BY <1>3, <1>5, <3>1, <4>1, <4>2
      <3> QED BY <3>2, <3>3
    <2>4. ASSUME \A k \in Accepted(p)' : k <= j
          PROVE  handoffs'[j].to = package'[p].assignee
      <3>1. j = i
        BY <1>5, <2>1, <2>2, <2>4
      <3> QED BY <3>1
    <2> QED BY <2>3, <2>4
  <1> QED BY <1>6, <1>7, <1>8 DEF ChainUnbroken

LEMMA RespondStep ==
    ASSUME CustodyInv, NEW c \in Callers, Respond(c)
    PROVE  CustodyInv'
  <1> DEFINE i == request[c].handoff
             p == request[c].package
  <1>1. CASE UNCHANGED <<package, handoffs>>
    BY <1>1, RefusedStep DEF Respond
  <1>2. ASSUME NEW d \in {"accepted", "rejected"}, NEW run \in Runs \cup {NoRun},
               handoffs[i].status = "pending", MayAnswer(c, run), Answers(i, d, run),
               IF d = "accepted"
               THEN package' = [package EXCEPT ![p] = HandedOver(Seen(c), handoffs[i].to)]
               ELSE UNCHANGED package
        PROVE  CustodyInv'
    <2> DEFINE row == HandedOver(Seen(c), handoffs[i].to)
    <2>1. Ends(c) /\ At(c, "respond")
      BY DEF Respond
    <2>2. /\ i \in DOMAIN handoffs /\ handoffs[i] \in Handoffs
          /\ p \in Packages /\ handoffs[i].package = p
          /\ package[p] = Seen(c) /\ package[p] \in PackageRows /\ RowIsLegal(package[p])
          /\ handoffs[i].version = package[p].version /\ package[p].assignee = handoffs[i].from
          /\ package[p].status \in Held
          /\ \A j \in DOMAIN handoffs : handoffs[j].package = p => j <= i
      BY <1>2, <2>1, AnswerFinds DEF AsFrozen, CustodyInv, TypeOK
    <2>3. /\ handoffs' \in Seq(Handoffs)
          /\ DOMAIN handoffs' = DOMAIN handoffs
          /\ \A j \in DOMAIN handoffs : /\ j # i => handoffs'[j] = handoffs[j]
                                        /\ handoffs'[j].package = handoffs[j].package
                                        /\ handoffs'[j].version = handoffs[j].version
                                        /\ handoffs'[j].from = handoffs[j].from
                                        /\ handoffs'[j].to = handoffs[j].to
          /\ handoffs'[i].status = d
      <3>1. handoffs \in Seq(Handoffs)
        BY DEF CustodyInv, TypeOK
      <3> HIDE DEF i
      <3> QED BY <1>2, <2>2, <3>1, Answering
    <2>4. \A j \in DOMAIN handoffs : handoffs[j] \in Handoffs /\ j \in Nat
      BY DEF CustodyInv, TypeOK
    <2>5. \A q \in Packages : Pending(q)' = Pending(q) \ {i}
      BY <1>2, <2>2, <2>3 DEF Pending
    <2>6. \A j, k \in DOMAIN handoffs : Continues(j, k)' <=> Continues(j, k)
      BY <2>3 DEF Continues
    <2>7. /\ row \in PackageRows /\ row.version = package[p].version + 1
          /\ row.status = package[p].status /\ row.assignee = handoffs[i].to
          /\ row.template = package[p].template /\ row.mode = package[p].mode
          /\ row.evidence = package[p].evidence
          /\ row.assignee # NoOne
      <3>1. handoffs[i].to \in People
        BY <2>2 DEF Handoffs
      <3> QED BY <2>2, <3>1, HandingOver
    <2>8. RowIsLegal(row) /\ row.status # "absent"
      BY <2>2, <2>7 DEF RowIsLegal, Held
    <2>9. MayHaveBecome(package[p], row)
      BY <2>2, <2>7 DEF MayHaveBecome, CustodyInv, HandoffsFit, Fits, PackageRows
    <2> HIDE DEF row
    <2>10. PendingIsLast'
      BY <1>2, <2>2, <2>3, <2>4 DEF CustodyInv, PendingIsLast
    <2>11. CASE d = "rejected"
      <3>1. UNCHANGED package
        BY <1>2, <2>11
      <3>2. TypeOK'
        BY <2>1, <2>3, <3>1, EndsType DEF CustodyInv, TypeOK
      <3>3. VersionsBegin' /\ ReadsAreOfThePast'
        BY <2>1, <3>1, Idles DEF CustodyInv, VersionsBegin, ReadsAreOfThePast, At, Seen
      <3>4. ReadsFit'
        <4>1. \A e \in Callers : At(e, "idle")' \/ (e # c /\ request'[e] = request[e])
          BY <2>1, Idles DEF CustodyInv
        <4> QED BY <2>3, <4>1 DEF CustodyInv, ReadsFit, At, Seen
      <3>5. HandoffsFit'
        BY <2>3, <2>11, <3>1 DEF CustodyInv, HandoffsFit, Fits
      <3>6. ChainUnbroken'
        <4>1. \A q \in Packages : Accepted(q)' = Accepted(q)
          BY <1>2, <2>2, <2>3, <2>11 DEF Accepted
        <4>2. \A q \in Packages : Accepted(q) \subseteq DOMAIN handoffs
          BY DEF Accepted
        <4>3. \A j \in DOMAIN handoffs : handoffs'[j].to = handoffs[j].to
          BY <2>3
        <4> QED BY <2>5, <2>6, <3>1, <4>1, <4>2, <4>3 DEF CustodyInv, ChainUnbroken
      <3> QED BY <2>10, <3>2, <3>3, <3>4, <3>5, <3>6 DEF CustodyInv
    <2>12. CASE d = "accepted"
      <3>1. package' = [package EXCEPT ![p] = row]
        BY <1>2, <2>12 DEF row
      <3>2. /\ package'[p] = row
            /\ \A q \in Packages : q # p => package'[q] = package[q]
        BY <2>2, <3>1 DEF CustodyInv, TypeOK
      <3>3. TypeOK'
        BY <2>1, <2>3, <2>7, <2>8, <3>1, EndsType DEF CustodyInv, TypeOK
      <3>4. /\ VersionsBegin'
            /\ ReadsAreOfThePast'
            /\ \A e \in Callers : At(e, "idle")' \/ (e # c /\ request'[e] = request[e])
        BY <2>1, <2>2, <2>7, <2>8, <2>9, <3>1, <3>3, RowMoves
      <3>5. ReadsFit'
        BY <2>3, <3>4 DEF CustodyInv, ReadsFit, At, Seen
      <3>6. HandoffsFit'
        <4> SUFFICES ASSUME NEW j \in DOMAIN handoffs
                     PROVE  Fits(handoffs'[j], package'[handoffs'[j].package])
          BY <2>3 DEF HandoffsFit
        <4>1. Fits(handoffs[j], package[handoffs[j].package]) /\ handoffs[j].package \in Packages
          BY <2>4 DEF CustodyInv, HandoffsFit, Handoffs
        <4>2. CASE handoffs[j].package = p
          <5>1. handoffs'[j].version \in 1..package[p].version
            BY <2>3, <4>1, <4>2 DEF Fits
          <5> QED BY <2>2, <2>3, <2>7, <3>2, <4>2, <5>1 DEF Fits, PackageRows
        <4>3. CASE handoffs[j].package # p
          BY <2>2, <2>3, <3>2, <4>1, <4>3 DEF Fits
        <4> QED BY <4>2, <4>3
      <3>7. ChainUnbroken'
        BY <1>2, <2>2, <2>3, <2>7, <2>12, <3>2, ChainGrows DEF CustodyInv
      <3> QED BY <2>10, <3>3, <3>4, <3>5, <3>6, <3>7 DEF CustodyInv
    <2> QED BY <2>11, <2>12
  <1> QED BY <1>1, <1>2 DEF Respond

LEMMA ClaimStep ==
    ASSUME CustodyInv, NEW c \in Callers, Claim(c)
    PROVE  CustodyInv'
  <1>1. CASE Refused(c)
    BY <1>1, RefusedStep DEF Refused
  <1>2. ASSUME NEW a \in People, Replaces(c, [Seen(c) EXCEPT !.assignee = a, !.status = "claimed"])
        PROVE  CustodyInv'
    <2> DEFINE next == [Seen(c) EXCEPT !.assignee = a, !.status = "claimed"]
    <2>1. ~At(c, "idle") /\ Seen(c) \in PackageRows /\ Claimable(Seen(c))
      BY RequestShape DEF Claim, At, CustodyInv, ReadsFit
    <2>2. /\ next \in PackageRows
          /\ next.version = Seen(c).version /\ next.template = Seen(c).template
          /\ next.status = "claimed" /\ next.assignee = a
      BY <2>1 DEF PackageRows, Statuses, Held
    <2>3. Seen(c).assignee = NoOne
      BY <2>1 DEF Claimable
    <2> HIDE DEF next
    <2> QED BY <1>2, <2>1, <2>2, <2>3, ReplacesStep DEF next
  <1> QED BY <1>1, <1>2 DEF Claim

LEMMA UpdateTemplateStep ==
    ASSUME CustodyInv, NEW c \in Callers, UpdateTemplate(c)
    PROVE  CustodyInv'
  <1>1. PICK a \in People \cup {NoOne} :
            Replaces(c, [Seen(c) EXCEPT !.mode = IF a = NoOne THEN "open_claim" ELSE "direct",
                                        !.assignee = a])
    BY DEF UpdateTemplate
  <1> DEFINE next == [Seen(c) EXCEPT !.mode = IF a = NoOne THEN "open_claim" ELSE "direct",
                                     !.assignee = a]
  <1>2. ~At(c, "idle") /\ Seen(c) \in PackageRows /\ Seen(c).template
    BY RequestShape DEF UpdateTemplate, At, CustodyInv, ReadsFit
  <1>3. /\ next \in PackageRows
        /\ next.version = Seen(c).version /\ next.template = Seen(c).template
        /\ next.status = Seen(c).status
    BY <1>2 DEF PackageRows
  <1> HIDE DEF next
  <1> QED BY <1>1, <1>2, <1>3, ReplacesStep DEF next

LEMMA TransitionStep ==
    ASSUME CustodyInv, NEW c \in Callers, Transition(c)
    PROVE  CustodyInv'
  <1>1. PICK s \in Transitions(Seen(c).status), e \in BOOLEAN :
            Replaces(c, [Seen(c) EXCEPT !.status = s, !.evidence = e])
    BY DEF Transition
  <1> DEFINE next == [Seen(c) EXCEPT !.status = s, !.evidence = e]
  <1>2. ~At(c, "idle") /\ Seen(c) \in PackageRows
    BY RequestShape DEF Transition, At, CustodyInv
  <1>3. s \in Statuses \ {"absent"}
    BY <1>1, TransitionStatus DEF Statuses, Held, Over
  <1>4. /\ next \in PackageRows
        /\ next.version = Seen(c).version /\ next.template = Seen(c).template
        /\ next.status = s /\ next.assignee = Seen(c).assignee
    BY <1>2, <1>3 DEF PackageRows
  <1> HIDE DEF next
  <1> QED BY <1>1, <1>2, <1>3, <1>4, ReplacesStep DEF next

LEMMA ReadHandoffStep ==
    ASSUME CustodyInv, NEW c \in Callers, ReadHandoff(c)
    PROVE  CustodyInv'
  <1>1. PICK i \in DOMAIN handoffs :
            /\ AsFrozen(handoffs[i], package[handoffs[i].package])
            /\ Becomes(c, [pc |-> "respond", package |-> handoffs[i].package,
                           seen |-> package[handoffs[i].package], handoff |-> i])
    BY DEF ReadHandoff
  <1> DEFINE p == handoffs[i].package
             r == [pc |-> "respond", package |-> p, seen |-> package[p], handoff |-> i]
  <1>2. handoffs[i] \in Handoffs /\ p \in Packages /\ package[p] \in PackageRows /\ i \in Nat
    <2>1. handoffs[i] \in Handoffs /\ i \in Nat
      BY DEF CustodyInv, TypeOK
    <2> QED BY <2>1 DEF CustodyInv, TypeOK, Handoffs
  <1>3. r \in Requests
    BY <1>2 DEF Requests
  <1>4. UNCHANGED <<package, handoffs>>
    BY DEF ReadHandoff
  <1>5. /\ request' \in [Callers -> Requests \cup {NoRequest}]
        /\ request'[c] = r
        /\ \A d \in Callers : d # c => request'[d] = request[d]
    BY <1>1, <1>3 DEF CustodyInv, TypeOK, Becomes
  <1>6. /\ request'[c].pc = "respond" /\ request'[c].package = p
        /\ request'[c].seen = package[p] /\ request'[c].handoff = i
    BY <1>5
  <1>7. /\ Seen(c)' = package[p] /\ \A l : At(c, l)' => l = "respond"
    BY <1>6 DEF Seen, At
  <1>8. MayHaveBecome(package[p], package[p])
    BY <1>2 DEF CustodyInv, HandoffsFit, Fits, MayHaveBecome, PackageRows
  <1>9. MayHaveBecome(Seen(c), package[request[c].package])'
    BY <1>4, <1>6, <1>7, <1>8 DEF MayHaveBecome
  <1>10. TypeOK'
    BY <1>4, <1>5 DEF CustodyInv, TypeOK
  <1> HIDE DEF r, p
  <1> QED BY <1>4, <1>5, <1>6, <1>7, <1>9, <1>10, CallerMoves DEF p

LEMMA CustodyStep == CustodyInv /\ [Next]_vars => CustodyInv'
  <1> SUFFICES ASSUME CustodyInv, [Next]_vars PROVE CustodyInv'
    OBVIOUS
  <1>1. ASSUME NEW p \in Packages, Publish(p) PROVE CustodyInv'
    BY <1>1, PublishStep
  <1>2. ASSUME NEW c \in Callers, ReadToClaim(c) PROVE CustodyInv'
    BY <1>2, ReadsStep DEF ReadToClaim
  <1>3. ASSUME NEW c \in Callers, Claim(c) PROVE CustodyInv'
    BY <1>3, ClaimStep
  <1>4. ASSUME NEW c \in Callers, ReadTemplate(c) PROVE CustodyInv'
    BY <1>4, ReadsStep DEF ReadTemplate
  <1>5. ASSUME NEW c \in Callers, UpdateTemplate(c) PROVE CustodyInv'
    BY <1>5, UpdateTemplateStep
  <1>6. ASSUME NEW c \in Callers, ReadToTransition(c) PROVE CustodyInv'
    BY <1>6, ReadsStep DEF ReadToTransition
  <1>7. ASSUME NEW c \in Callers, ListHandoffs(c) PROVE CustodyInv'
    BY <1>7, RefusedStep, GoesStep DEF ListHandoffs, At
  <1>8. ASSUME NEW c \in Callers, Transition(c) PROVE CustodyInv'
    BY <1>8, TransitionStep
  <1>9. ASSUME NEW c \in Callers, ReadToHandOff(c) PROVE CustodyInv'
    BY <1>9, ReadsStep DEF ReadToHandOff
  <1>10. ASSUME NEW c \in Callers, CheckPending(c) PROVE CustodyInv'
    BY <1>10, RefusedStep, GoesStep DEF CheckPending, At
  <1>11. ASSUME NEW c \in Callers, InsertHandoff(c) PROVE CustodyInv'
    BY <1>11, InsertStep
  <1>12. ASSUME NEW c \in Callers, ReadHandoff(c) PROVE CustodyInv'
    BY <1>12, ReadHandoffStep
  <1>13. ASSUME NEW c \in Callers, Respond(c) PROVE CustodyInv'
    BY <1>13, RespondStep
  <1>14. ASSUME NEW c \in Callers, Crash(c) PROVE CustodyInv'
    BY <1>14, RefusedStep DEF Crash, Refused
  <1>15. CASE UNCHANGED vars
    <2>1. TypeOK' /\ VersionsBegin'
      BY <1>15 DEF vars, CustodyInv, TypeOK, VersionsBegin
    <2>2. ReadsAreOfThePast' /\ ReadsFit'
      BY <1>15 DEF vars, CustodyInv, ReadsAreOfThePast, ReadsFit, At, Seen, MayHaveBecome
    <2>3. HandoffsFit' /\ PendingIsLast' /\ ChainUnbroken'
      BY <1>15 DEF vars, CustodyInv, HandoffsFit, PendingIsLast, ChainUnbroken, Pending, Accepted,
                   Continues
    <2> QED BY <2>1, <2>2, <2>3 DEF CustodyInv
  <1> QED BY <1>1, <1>2, <1>3, <1>4, <1>5, <1>6, <1>7, <1>8, <1>9, <1>10, <1>11, <1>12, <1>13, <1>14,
             <1>15 DEF Next

LEMMA CustodyHolds == Spec => []CustodyInv
  BY CustodyInit, CustodyStep, PTL DEF Spec

(* The rows of packages and handoffs keep to their types and constraints.  *)
THEOREM TypeCorrect == Spec => []TypeOK
  <1>1. CustodyInv => TypeOK
    BY DEF CustodyInv
  <1> QED BY CustodyHolds, <1>1, PTL

(* Responsibility for a task has neither a gap nor a fork: the accepted    *)
(* handoffs follow one another and end with the assignee, and at most one  *)
(* handoff is pending.                                                     *)
THEOREM ResponsibilityIsAChain == Spec => []ChainUnbroken
  <1>1. CustodyInv => ChainUnbroken
    BY DEF CustodyInv
  <1> QED BY CustodyHolds, <1>1, PTL

-----------------------------------------------------------------------------
(* The tasks implement custody.                                            *)

LEMMA AcceptsStep ==
    ASSUME CustodyInv, [Next]_vars, NEW i \in DOMAIN handoffs
    PROVE  AcceptsAsFrozen(i)
  <1> SUFFICES ASSUME handoffs[i].status = "pending", handoffs'[i].status = "accepted"
               PROVE  LET p == handoffs[i].package IN
                      /\ AsFrozen(handoffs[i], package[p])
                      /\ package'[p] = HandedOver(package[p], handoffs[i].to)
    BY DEF AcceptsAsFrozen
  <1>1. ASSUME NEW c \in Callers, InsertHandoff(c) PROVE FALSE
    <2>1. CASE UNCHANGED handoffs
      BY <2>1
    <2>2. ASSUME NEW h, handoffs' = Append(handoffs, h) PROVE FALSE
      <3>1. handoffs'[i] = handoffs[i]
        BY <2>2 DEF CustodyInv, TypeOK
      <3> QED BY <3>1
    <2> QED BY <1>1, <2>1, <2>2 DEF InsertHandoff
  <1>2. ASSUME NEW c \in Callers, Respond(c)
        PROVE  LET p == handoffs[i].package IN
               /\ AsFrozen(handoffs[i], package[p])
               /\ package'[p] = HandedOver(package[p], handoffs[i].to)
    <2> DEFINE k == request[c].handoff
               p == request[c].package
    <2>1. ~UNCHANGED handoffs
      OBVIOUS
    <2>2. PICK d \in {"accepted", "rejected"}, run \in Runs \cup {NoRun} :
              /\ handoffs[k].status = "pending" /\ MayAnswer(c, run) /\ Answers(k, d, run)
              /\ IF d = "accepted"
                 THEN package' = [package EXCEPT ![p] = HandedOver(Seen(c), handoffs[k].to)]
                 ELSE UNCHANGED package
      BY <1>2, <2>1 DEF Respond
    <2>3. /\ k \in DOMAIN handoffs /\ p \in Packages /\ handoffs[k].package = p
          /\ package[p] = Seen(c) /\ AsFrozen(handoffs[k], package[p])
      BY <1>2, <2>2, AnswerFinds DEF Respond
    <2>4. /\ handoffs'[k].status = d
          /\ \A j \in DOMAIN handoffs : j # k => handoffs'[j] = handoffs[j]
      <3>1. handoffs \in Seq(Handoffs)
        BY DEF CustodyInv, TypeOK
      <3> HIDE DEF k
      <3> QED BY <2>2, <2>3, <3>1, Answering
    <2>5. i = k /\ d = "accepted"
      BY <2>4
    <2> QED BY <2>2, <2>3, <2>5 DEF CustodyInv, TypeOK
  <1> QED BY <1>1, <1>2 DEF Next, vars, Publish, ReadToClaim, Claim, ReadTemplate, UpdateTemplate,
          ReadToTransition, ListHandoffs, Transition, ReadToHandOff, CheckPending, ReadHandoff, Crash,
          Reads, Replaces, Refused

(* A handoff is accepted only of the package as it was frozen, and with    *)
(* the acceptance the package has its new assignee.                        *)
THEOREM FrozenUntilAccepted == Spec => AcceptedAsFrozen
  <1>1. CustodyInv /\ [Next]_vars => [\A i \in 1..MaxHandoffs : AcceptsAsFrozen(i)]_vars
    <2> SUFFICES ASSUME CustodyInv, [Next]_vars, NEW i \in 1..MaxHandoffs PROVE AcceptsAsFrozen(i)
      OBVIOUS
    <2>1. CASE i \in DOMAIN handoffs
      BY <2>1, AcceptsStep
    <2>2. CASE i \notin DOMAIN handoffs
      BY <2>2 DEF AcceptsAsFrozen
    <2> QED BY <2>1, <2>2
  <1> QED BY CustodyHolds, <1>1, PTL DEF Spec, AcceptedAsFrozen

(* The one element of a set that has one.                                  *)
LEMMA TheOnly ==
    ASSUME NEW S, NEW i \in S, \A j, k \in S : j = k
    PROVE  (CHOOSE j \in S : TRUE) = i
  OBVIOUS

(* What is seen of a package depends on its own row and on its own pending *)
(* handoff.                                                                *)
LEMMA SameOffer ==
    ASSUME NEW p \in Packages, IsTask(p)' = IsTask(p), Pending(p)' = Pending(p),
           \A i \in Pending(p) : handoffs'[i] = handoffs[i]
    PROVE  OfferOf(p)' = OfferOf(p)
  <1>1. CASE IsTask(p) /\ Pending(p) # {}
    <2> DEFINE i == CHOOSE i \in Pending(p) : TRUE
    <2>1. i \in Pending(p)
      BY <1>1
    <2>2. OfferOf(p) = [from |-> handoffs[i].from, to |-> handoffs[i].to]
      BY <1>1 DEF OfferOf
    <2>3. OfferOf(p)' = [from |-> handoffs'[i].from, to |-> handoffs'[i].to]
      BY <1>1 DEF OfferOf
    <2> HIDE DEF i
    <2> QED BY <2>1, <2>2, <2>3
  <1>2. CASE ~(IsTask(p) /\ Pending(p) # {})
    BY <1>2 DEF OfferOf
  <1> QED BY <1>1, <1>2

LEMMA SameView ==
    ASSUME NEW p \in Packages, package'[p] = package[p], Pending(p)' = Pending(p),
           \A i \in Pending(p) : handoffs'[i] = handoffs[i]
    PROVE  UNCHANGED <<PhaseOf(p), HolderOf(p), OfferOf(p)>>
  <1>1. IsTask(p)' = IsTask(p)
    BY DEF IsTask
  <1>2. PhaseOf(p)' = PhaseOf(p) /\ HolderOf(p)' = HolderOf(p)
    BY <1>1 DEF PhaseOf, HolderOf, IsTask
  <1> QED BY <1>1, <1>2, SameOffer

(* A step of one package's view is a step of custody.                      *)
ViewStep(p) ==
    \/ UNCHANGED <<PhaseOf(p), HolderOf(p), OfferOf(p)>>
    \/ /\ PhaseOf(p) = "absent" /\ PhaseOf(p)' = "open"
       /\ UNCHANGED <<HolderOf(p), OfferOf(p)>>
    \/ /\ PhaseOf(p) \in {"absent", "open"} /\ PhaseOf(p)' = "taken"
       /\ HolderOf(p)' \in People
       /\ UNCHANGED OfferOf(p)
    \/ /\ PhaseOf(p) = "open" /\ PhaseOf(p)' = "taken"
       /\ UNCHANGED <<HolderOf(p), OfferOf(p)>>
    \/ /\ PhaseOf(p) \in {"open", "taken"} /\ PhaseOf(p)' = "over"
       /\ UNCHANGED <<HolderOf(p), OfferOf(p)>>
    \/ /\ HolderOf(p) # NoOne
       /\ OfferOf(p) = Custody!NoOffer /\ OfferOf(p)' \in Custody!Offers
       /\ UNCHANGED <<PhaseOf(p), HolderOf(p)>>
    \/ /\ PhaseOf(p) = "taken"
       /\ OfferOf(p) # Custody!NoOffer /\ OfferOf(p).from = HolderOf(p)
       /\ HolderOf(p)' = OfferOf(p).to
       /\ OfferOf(p)' = Custody!NoOffer
       /\ UNCHANGED PhaseOf(p)
    \/ /\ OfferOf(p) # Custody!NoOffer /\ OfferOf(p)' = Custody!NoOffer
       /\ UNCHANGED <<PhaseOf(p), HolderOf(p)>>

LEMMA ViewStepIsCustody ==
    ASSUME NEW p \in Packages, ViewStep(p),
           \A q \in Packages : q # p => UNCHANGED <<PhaseOf(q), HolderOf(q), OfferOf(q)>>
    PROVE  Custody!Next \/ UNCHANGED Custody!vars
  <1> DEFINE ph == [q \in Packages |-> PhaseOf(q)]
             ho == [q \in Packages |-> HolderOf(q)]
             of == [q \in Packages |-> OfferOf(q)]
  <1>1. /\ ph[p] = PhaseOf(p) /\ ho[p] = HolderOf(p) /\ of[p] = OfferOf(p)
        /\ ph' = [ph EXCEPT ![p] = PhaseOf(p)']
        /\ ho' = [ho EXCEPT ![p] = HolderOf(p)']
        /\ of' = [of EXCEPT ![p] = OfferOf(p)']
        /\ (UNCHANGED PhaseOf(p)) => ph' = ph
        /\ (UNCHANGED HolderOf(p)) => ho' = ho
        /\ (UNCHANGED OfferOf(p)) => of' = of
    OBVIOUS
  <1> HIDE DEF ph, ho, of
  <1>2. CASE UNCHANGED <<PhaseOf(p), HolderOf(p), OfferOf(p)>>
    BY <1>1, <1>2 DEF Custody!vars, ph, ho, of
  <1>3. CASE /\ PhaseOf(p) = "absent" /\ PhaseOf(p)' = "open"
             /\ UNCHANGED <<HolderOf(p), OfferOf(p)>>
    <2>1. Custody!PutUp(p)
      BY <1>1, <1>3 DEF Custody!PutUp, ph, ho, of
    <2> QED BY <2>1 DEF Custody!Next
  <1>4. CASE /\ PhaseOf(p) = "absent" /\ PhaseOf(p)' = "taken"
             /\ HolderOf(p)' \in People
             /\ UNCHANGED OfferOf(p)
    <2>1. Custody!PutUp(p)
      BY <1>1, <1>4 DEF Custody!PutUp, ph, ho, of
    <2> QED BY <2>1 DEF Custody!Next
  <1>5. CASE /\ PhaseOf(p) = "open" /\ PhaseOf(p)' = "taken"
             /\ HolderOf(p)' \in People
             /\ UNCHANGED OfferOf(p)
    <2>1. Custody!Claim(p)
      BY <1>1, <1>5 DEF Custody!Claim, ph, ho, of
    <2> QED BY <2>1 DEF Custody!Next
  <1>6. CASE /\ PhaseOf(p) = "open" /\ PhaseOf(p)' = "taken"
             /\ UNCHANGED <<HolderOf(p), OfferOf(p)>>
    <2>1. Custody!Withdraw(p)
      BY <1>1, <1>6 DEF Custody!Withdraw, ph, ho, of
    <2> QED BY <2>1 DEF Custody!Next
  <1>7. CASE /\ PhaseOf(p) \in {"open", "taken"} /\ PhaseOf(p)' = "over"
             /\ UNCHANGED <<HolderOf(p), OfferOf(p)>>
    <2>1. Custody!Finish(p)
      BY <1>1, <1>7 DEF Custody!Finish, ph, ho, of
    <2> QED BY <2>1 DEF Custody!Next
  <1>8. CASE /\ HolderOf(p) # NoOne
             /\ OfferOf(p) = Custody!NoOffer /\ OfferOf(p)' \in Custody!Offers
             /\ UNCHANGED <<PhaseOf(p), HolderOf(p)>>
    <2>1. Custody!Offer(p)
      BY <1>1, <1>8 DEF Custody!Offer, ph, ho, of
    <2> QED BY <2>1 DEF Custody!Next
  <1>9. CASE /\ PhaseOf(p) = "taken"
             /\ OfferOf(p) # Custody!NoOffer /\ OfferOf(p).from = HolderOf(p)
             /\ HolderOf(p)' = OfferOf(p).to
             /\ OfferOf(p)' = Custody!NoOffer
             /\ UNCHANGED PhaseOf(p)
    <2>1. Custody!Accept(p)
      BY <1>1, <1>9 DEF Custody!Accept, ph, ho, of
    <2> QED BY <2>1 DEF Custody!Next
  <1>10. CASE /\ OfferOf(p) # Custody!NoOffer /\ OfferOf(p)' = Custody!NoOffer
              /\ UNCHANGED <<PhaseOf(p), HolderOf(p)>>
    <2>1. Custody!Decline(p)
      BY <1>1, <1>10 DEF Custody!Decline, ph, ho, of
    <2> QED BY <2>1 DEF Custody!Next
  <1> QED BY <1>2, <1>3, <1>4, <1>5, <1>6, <1>7, <1>8, <1>9, <1>10 DEF ViewStep

(* What is offered where one handoff is pending, and where none is.        *)
LEMMA OfferIs ==
    ASSUME NEW p \in Packages, IsTask(p), NEW i \in Pending(p), \A j, k \in Pending(p) : j = k
    PROVE  OfferOf(p) = [from |-> handoffs[i].from, to |-> handoffs[i].to]
  <1>1. (CHOOSE j \in Pending(p) : TRUE) = i
    BY TheOnly
  <1> QED BY <1>1 DEF OfferOf

LEMMA NoOfferIs == \A p : Pending(p) = {} \/ ~IsTask(p) => OfferOf(p) = Custody!NoOffer
  BY DEF OfferOf, Custody!NoOffer

LEMMA TemplateView ==
    ASSUME NEW p \in Packages, ~IsTask(p), ~IsTask(p)'
    PROVE  ViewStep(p)
  <1>1. /\ PhaseOf(p) = "absent" /\ HolderOf(p) = NoOne
        /\ PhaseOf(p)' = "absent" /\ HolderOf(p)' = NoOne
        /\ OfferOf(p) = [from |-> NoOne, to |-> NoOne]
        /\ OfferOf(p)' = [from |-> NoOne, to |-> NoOne]
    BY DEF PhaseOf, HolderOf, OfferOf, IsTask
  <1> QED BY <1>1 DEF ViewStep

(* A step that moves one row. *)
LEMMA RowView ==
    ASSUME NEW p \in Packages, ViewStep(p), UNCHANGED handoffs,
           \A q \in Packages : q # p => package'[q] = package[q]
    PROVE  Custody!Next \/ UNCHANGED Custody!vars
  <1>1. \A q \in Packages : Pending(q)' = Pending(q)
    BY DEF Pending
  <1>2. \A q \in Packages : q # p => UNCHANGED <<PhaseOf(q), HolderOf(q), OfferOf(q)>>
    BY <1>1, SameView
  <1> QED BY <1>2, ViewStepIsCustody

LEMMA QuietView ==
    ASSUME UNCHANGED <<package, handoffs>>
    PROVE  UNCHANGED Custody!vars
  <1>1. \A q \in Packages : Pending(q)' = Pending(q)
    BY DEF Pending
  <1>2. \A q \in Packages : UNCHANGED <<PhaseOf(q), HolderOf(q), OfferOf(q)>>
    BY <1>1, SameView
  <1> QED BY <1>2 DEF Custody!vars

LEMMA PublishView ==
    ASSUME CustodyInv, NEW p \in Packages, Publish(p)
    PROVE  Custody!Next \/ UNCHANGED Custody!vars
  <1>1. PICK a \in People \cup {NoOne}, t \in BOOLEAN :
            package' = [package EXCEPT ![p] =
                [mode |-> IF a = NoOne THEN "open_claim" ELSE "direct",
                 status |-> IF a = NoOne THEN "published" ELSE "assigned",
                 assignee |-> a, evidence |-> FALSE, template |-> t, version |-> 1]]
    BY DEF Publish
  <1>2. /\ \A q \in Packages : q # p => package'[q] = package[q]
        /\ package'[p].template = t /\ package'[p].assignee = a
        /\ package'[p].status = IF a = NoOne THEN "published" ELSE "assigned"
        /\ package[p].status = "absent" /\ package[p].version = 0
        /\ UNCHANGED handoffs
    BY <1>1 DEF Publish, CustodyInv, TypeOK, VersionsBegin
  <1>3. ~IsTask(p) /\ (IsTask(p)' <=> ~t)
    BY <1>2 DEF IsTask
  <1>4. Pending(p) = {} /\ Pending(p)' = {}
    BY <1>2 DEF Pending, CustodyInv, HandoffsFit, Fits
  <1>5. CASE ~t
    <2>1. PhaseOf(p) = "absent" /\ HolderOf(p) = NoOne
      BY <1>3 DEF PhaseOf, HolderOf
    <2>2. PhaseOf(p)' = (IF a = NoOne THEN "open" ELSE "taken") /\ HolderOf(p)' = a
      BY <1>2, <1>3, <1>5 DEF PhaseOf, HolderOf, Over
    <2>3. UNCHANGED OfferOf(p)
      BY <1>4 DEF OfferOf
    <2> QED BY <1>2, <2>1, <2>2, <2>3, RowView DEF ViewStep
  <1> QED BY <1>2, <1>3, <1>5, TemplateView, RowView

(* The replacement of a row, as custody sees it.                           *)
LEMMA ReplacesView ==
    ASSUME CustodyInv, NEW c \in Callers, ~At(c, "idle"), NEW next \in PackageRows,
           next.template = Seen(c).template, Replaces(c, next)
    PROVE  \/ UNCHANGED <<package, handoffs>>
           \/ \E p \in Packages :
                 /\ package[p] = Seen(c) /\ Seen(c) \in PackageRows
                 /\ UNCHANGED handoffs
                 /\ \A q \in Packages : q # p => package'[q] = package[q]
                 /\ package'[p].status = next.status
                 /\ package'[p].assignee = next.assignee
                 /\ IsTask(p) => Seen(c).status # "absent"
                 /\ next.status # "absent" => (IsTask(p)' <=> IsTask(p))
                 /\ UNCHANGED Pending(p)
                 /\ UNCHANGED IsTask(p) => UNCHANGED OfferOf(p)
  <1> DEFINE p == request[c].package
  <1>1. p \in Packages /\ Seen(c) \in PackageRows
    BY RequestShape DEF CustodyInv
  <1> SUFFICES ASSUME package[p].version = Seen(c).version,
                      package' = [package EXCEPT ![p] = [next EXCEPT !.version = Seen(c).version + 1]],
                      NEW r \in Packages, r = p
               PROVE  /\ package[r] = Seen(c)
                      /\ UNCHANGED handoffs
                      /\ \A q \in Packages : q # r => package'[q] = package[q]
                      /\ package'[r].status = next.status
                      /\ package'[r].assignee = next.assignee
                      /\ IsTask(r) => Seen(c).status # "absent"
                      /\ next.status # "absent" => (IsTask(r)' <=> IsTask(r))
                      /\ UNCHANGED Pending(r)
                      /\ UNCHANGED IsTask(r) => UNCHANGED OfferOf(r)
    BY <1>1 DEF Replaces
  <1>2. package[r] = Seen(c) /\ Seen(c).version # 0
    BY <1>1 DEF CustodyInv, ReadsAreOfThePast, MayHaveBecome, PackageRows
  <1>3. Seen(c).status # "absent"
    BY <1>2 DEF CustodyInv, VersionsBegin
  <1>4. /\ \A q \in Packages : q # r => package'[q] = package[q]
        /\ package'[r].status = next.status /\ package'[r].assignee = next.assignee
        /\ package'[r].template = next.template
    BY DEF CustodyInv, TypeOK, PackageRows
  <1>5. UNCHANGED handoffs
    BY DEF Replaces
  <1>6. UNCHANGED Pending(r)
    BY <1>5 DEF Pending
  <1>7. UNCHANGED IsTask(r) => UNCHANGED OfferOf(r)
    BY <1>5, <1>6, SameOffer
  <1>8. next.status # "absent" => (IsTask(r)' <=> IsTask(r))
    BY <1>2, <1>3, <1>4 DEF IsTask
  <1> QED BY <1>2, <1>3, <1>4, <1>5, <1>6, <1>7, <1>8

LEMMA ClaimView ==
    ASSUME CustodyInv, NEW c \in Callers, Claim(c)
    PROVE  Custody!Next \/ UNCHANGED Custody!vars
  <1>1. CASE Refused(c)
    BY <1>1, QuietView DEF Refused
  <1>2. ASSUME NEW a \in People, Replaces(c, [Seen(c) EXCEPT !.assignee = a, !.status = "claimed"])
        PROVE  Custody!Next \/ UNCHANGED Custody!vars
    <2> DEFINE next == [Seen(c) EXCEPT !.assignee = a, !.status = "claimed"]
    <2>1. ~At(c, "idle") /\ Seen(c) \in PackageRows /\ Claimable(Seen(c))
      BY RequestShape DEF Claim, At, CustodyInv, ReadsFit
    <2>2. /\ next \in PackageRows /\ next.template = Seen(c).template
          /\ next.status = "claimed" /\ next.assignee = a
      BY <2>1 DEF PackageRows, Statuses, Held
    <2> HIDE DEF next
    <2>3. ASSUME NEW p \in Packages, package[p] = Seen(c), UNCHANGED handoffs,
                 \A q \in Packages : q # p => package'[q] = package[q],
                 package'[p].status = "claimed", package'[p].assignee = a,
                 IsTask(p)' <=> IsTask(p), UNCHANGED IsTask(p) => UNCHANGED OfferOf(p)
          PROVE  Custody!Next \/ UNCHANGED Custody!vars
      <3>1. CASE ~IsTask(p)
        BY <2>3, <3>1, TemplateView, RowView
      <3>2. CASE IsTask(p)
        <4>1. PhaseOf(p) = "open"
          BY <2>1, <2>3, <3>2 DEF PhaseOf, Claimable, Over
        <4>2. PhaseOf(p)' = "taken" /\ HolderOf(p)' = a
          BY <2>3, <3>2 DEF PhaseOf, HolderOf, Over
        <4> QED BY <2>3, <3>2, <4>1, <4>2, RowView DEF ViewStep
      <3> QED BY <3>1, <3>2
    <2>4. Replaces(c, next)
      BY <1>2 DEF next
    <2>5. CASE UNCHANGED <<package, handoffs>>
      BY <2>5, QuietView
    <2>6. CASE ~UNCHANGED <<package, handoffs>>
      <3>1. PICK p \in Packages :
                /\ package[p] = Seen(c) /\ UNCHANGED handoffs
                /\ \A q \in Packages : q # p => package'[q] = package[q]
                /\ package'[p].status = next.status /\ package'[p].assignee = next.assignee
                /\ next.status # "absent" => (IsTask(p)' <=> IsTask(p))
                /\ UNCHANGED IsTask(p) => UNCHANGED OfferOf(p)
        BY <2>1, <2>2, <2>4, <2>6, ReplacesView
      <3> QED BY <2>2, <2>3, <3>1
    <2> QED BY <2>5, <2>6
  <1> QED BY <1>1, <1>2 DEF Claim

LEMMA UpdateTemplateView ==
    ASSUME CustodyInv, NEW c \in Callers, UpdateTemplate(c)
    PROVE  Custody!Next \/ UNCHANGED Custody!vars
  <1>1. PICK a \in People \cup {NoOne} :
            Replaces(c, [Seen(c) EXCEPT !.mode = IF a = NoOne THEN "open_claim" ELSE "direct",
                                        !.assignee = a])
    BY DEF UpdateTemplate
  <1> DEFINE next == [Seen(c) EXCEPT !.mode = IF a = NoOne THEN "open_claim" ELSE "direct",
                                     !.assignee = a]
  <1>2. ~At(c, "idle") /\ Seen(c) \in PackageRows /\ Seen(c).template
    BY RequestShape DEF UpdateTemplate, At, CustodyInv, ReadsFit
  <1>3. next \in PackageRows /\ next.template = Seen(c).template /\ next.status = Seen(c).status
    BY <1>2 DEF PackageRows
  <1> HIDE DEF next
  <1>4. ASSUME NEW p \in Packages, package[p] = Seen(c), UNCHANGED handoffs,
               \A q \in Packages : q # p => package'[q] = package[q],
               package'[p].status = Seen(c).status,
               Seen(c).status # "absent" => (IsTask(p)' <=> IsTask(p))
        PROVE  Custody!Next \/ UNCHANGED Custody!vars
    <2>1. ~IsTask(p) /\ ~IsTask(p)'
      BY <1>2, <1>4 DEF IsTask
    <2> QED BY <1>4, <2>1, TemplateView, RowView
  <1>5. Replaces(c, next)
    BY <1>1 DEF next
  <1>6. CASE UNCHANGED <<package, handoffs>>
    BY <1>6, QuietView
  <1>7. CASE ~UNCHANGED <<package, handoffs>>
    <2>1. PICK p \in Packages :
              /\ package[p] = Seen(c) /\ UNCHANGED handoffs
              /\ \A q \in Packages : q # p => package'[q] = package[q]
              /\ package'[p].status = next.status
              /\ next.status # "absent" => (IsTask(p)' <=> IsTask(p))
      BY <1>2, <1>3, <1>5, <1>7, ReplacesView
    <2> QED BY <1>3, <1>4, <2>1
  <1> QED BY <1>6, <1>7

LEMMA TransitionView ==
    ASSUME CustodyInv, NEW c \in Callers, Transition(c)
    PROVE  Custody!Next \/ UNCHANGED Custody!vars
  <1>1. PICK s \in Transitions(Seen(c).status), e \in BOOLEAN :
            Replaces(c, [Seen(c) EXCEPT !.status = s, !.evidence = e])
    BY DEF Transition
  <1> DEFINE next == [Seen(c) EXCEPT !.status = s, !.evidence = e]
  <1>2. ~At(c, "idle") /\ Seen(c) \in PackageRows
    BY RequestShape DEF Transition, At, CustodyInv
  <1>3. s \in Held \cup Over \cup {"in_review"} /\ Seen(c).status \notin Over \cup {"absent"}
    BY <1>1, TransitionStatus
  <1>4. /\ next \in PackageRows /\ next.template = Seen(c).template
        /\ next.status = s /\ next.assignee = Seen(c).assignee
    BY <1>2, <1>3 DEF PackageRows, Statuses, Held, Over
  <1> HIDE DEF next
  <1>5. ASSUME NEW p \in Packages, package[p] = Seen(c), UNCHANGED handoffs,
               \A q \in Packages : q # p => package'[q] = package[q],
               package'[p].status = s, package'[p].assignee = Seen(c).assignee,
               IsTask(p)' <=> IsTask(p), UNCHANGED IsTask(p) => UNCHANGED OfferOf(p)
        PROVE  Custody!Next \/ UNCHANGED Custody!vars
    <2>1. CASE ~IsTask(p)
      BY <1>5, <2>1, TemplateView, RowView
    <2>2. CASE IsTask(p)
      <3>1. UNCHANGED <<HolderOf(p), OfferOf(p)>>
        BY <1>5, <2>2 DEF HolderOf
      <3>2. PhaseOf(p) \in {"open", "taken"}
        BY <1>3, <1>5, <2>2 DEF PhaseOf
      <3>3. PhaseOf(p)' = IF s \in Over THEN "over" ELSE "taken"
        BY <1>3, <1>5, <2>2 DEF PhaseOf, Held, Over
      <3>4. ViewStep(p)
        BY <3>1, <3>2, <3>3 DEF ViewStep
      <3> QED BY <1>5, <3>4, RowView
    <2> QED BY <2>1, <2>2
  <1>6. s # "absent"
    BY <1>3 DEF Held, Over
  <1>7. Replaces(c, next)
    BY <1>1 DEF next
  <1>8. CASE UNCHANGED <<package, handoffs>>
    BY <1>8, QuietView
  <1>9. CASE ~UNCHANGED <<package, handoffs>>
    <2>1. PICK p \in Packages :
              /\ package[p] = Seen(c) /\ UNCHANGED handoffs
              /\ \A q \in Packages : q # p => package'[q] = package[q]
              /\ package'[p].status = next.status /\ package'[p].assignee = next.assignee
              /\ next.status # "absent" => (IsTask(p)' <=> IsTask(p))
              /\ UNCHANGED IsTask(p) => UNCHANGED OfferOf(p)
      BY <1>2, <1>4, <1>7, <1>9, ReplacesView
    <2> QED BY <1>4, <1>5, <1>6, <2>1
  <1> QED BY <1>8, <1>9

LEMMA InsertView ==
    ASSUME CustodyInv, NEW c \in Callers, InsertHandoff(c)
    PROVE  Custody!Next \/ UNCHANGED Custody!vars
  <1>1. CASE UNCHANGED handoffs
    BY <1>1, QuietView DEF InsertHandoff
  <1>2. ASSUME NEW p \in Packages, p = request[c].package,
               NEW b \in People \ {Seen(c).assignee}, NEW run \in Runs \cup {NoRun},
               ~Conflicts(p, run),
               handoffs' = Append(handoffs,
                   [package |-> p, version |-> Seen(c).version, from |-> Seen(c).assignee,
                    to |-> b, status |-> "pending", run |-> run, responseRun |-> NoRun])
        PROVE  Custody!Next \/ UNCHANGED Custody!vars
    <2> DEFINE h == [package |-> p, version |-> Seen(c).version, from |-> Seen(c).assignee,
                     to |-> b, status |-> "pending", run |-> run, responseRun |-> NoRun]
               n == Len(handoffs) + 1
    <2>1. /\ Seen(c) \in PackageRows /\ package[p] \in PackageRows
          /\ Transferable(Seen(c)) /\ MayHaveBecome(Seen(c), package[p])
      BY <1>2, RequestShape DEF InsertHandoff, At, CustodyInv, ReadsFit, ReadsAreOfThePast, TypeOK
    <2>2. Seen(c).assignee \in People /\ handoffs \in Seq(Handoffs)
      BY <2>1 DEF Transferable, PackageRows, CustodyInv, TypeOK
    <2>3. h \in Handoffs
      BY <2>1, <2>2 DEF Handoffs, PackageRows
    <2>4. /\ h.package = p /\ h.status = "pending" /\ h.from = Seen(c).assignee /\ h.to = b
      OBVIOUS
    <2> HIDE DEF h
    <2>5. /\ Len(handoffs) \in Nat
          /\ DOMAIN handoffs = 1..Len(handoffs)
          /\ DOMAIN handoffs' = 1..n
          /\ handoffs'[n] = h
          /\ \A i \in 1..Len(handoffs) : handoffs'[i] = handoffs[i]
      BY <1>2, <2>2, <2>3, Appending DEF h
    <2>6. UNCHANGED package
      BY DEF InsertHandoff
    <2>7. Pending(p) = {} /\ Pending(p)' = {n}
      <3>1. Pending(p) = {}
        BY <1>2 DEF Conflicts
      <3> QED BY <2>4, <2>5, <3>1 DEF Pending
    <2>8. ASSUME NEW q \in Packages \ {p} PROVE UNCHANGED <<PhaseOf(q), HolderOf(q), OfferOf(q)>>
      <3>1. Pending(q)' = Pending(q) /\ Pending(q) \subseteq DOMAIN handoffs
        BY <2>4, <2>5 DEF Pending
      <3> QED BY <2>5, <2>6, <3>1, SameView
    <2>9. IsTask(p)' <=> IsTask(p)
      BY <2>6 DEF IsTask
    <2>10. CASE IsTask(p)
      <3>1. HolderOf(p) # NoOne
        BY <2>1, <2>2, <2>10, NobodyAssumption DEF HolderOf, IsTask, MayHaveBecome
      <3>2. OfferOf(p) = Custody!NoOffer
        BY <2>7, NoOfferIs
      <3>3. OfferOf(p)' = [from |-> Seen(c).assignee, to |-> b]
        <4>1. (CHOOSE j \in Pending(p)' : TRUE) = n
          BY <2>7, TheOnly
        <4> QED BY <2>4, <2>5, <2>7, <2>9, <2>10, <4>1 DEF OfferOf
      <3>4. OfferOf(p)' \in Custody!Offers
        BY <2>2, <3>3 DEF Custody!Offers
      <3>5. UNCHANGED <<PhaseOf(p), HolderOf(p)>>
        BY <2>6, <2>9 DEF PhaseOf, HolderOf, IsTask
      <3>6. ViewStep(p)
        BY <3>1, <3>2, <3>4, <3>5 DEF ViewStep
      <3> QED BY <2>8, <3>6, ViewStepIsCustody
    <2>11. CASE ~IsTask(p)
      BY <2>8, <2>9, <2>11, TemplateView, ViewStepIsCustody
    <2> QED BY <2>10, <2>11
  <1>3. request[c].package \in Packages
    BY RequestShape DEF InsertHandoff, At, CustodyInv
  <1> QED BY <1>1, <1>2, <1>3 DEF InsertHandoff

LEMMA RespondView ==
    ASSUME CustodyInv, NEW c \in Callers, Respond(c)
    PROVE  Custody!Next \/ UNCHANGED Custody!vars
  <1>1. CASE UNCHANGED <<package, handoffs>>
    BY <1>1, QuietView
  <1>2. ASSUME NEW p \in Packages, p = request[c].package,
               NEW i \in DOMAIN handoffs, i = request[c].handoff,
               NEW d \in {"accepted", "rejected"}, NEW run \in Runs \cup {NoRun},
               handoffs[i].status = "pending", MayAnswer(c, run), Answers(i, d, run),
               IF d = "accepted"
               THEN package' = [package EXCEPT ![p] = HandedOver(Seen(c), handoffs[i].to)]
               ELSE UNCHANGED package
        PROVE  Custody!Next \/ UNCHANGED Custody!vars
    <2>1. /\ handoffs[i] \in Handoffs /\ handoffs[i].package = p
          /\ package[p] = Seen(c) /\ package[p] \in PackageRows
          /\ AsFrozen(handoffs[i], package[p])
          /\ package[p].status \in Held
      BY <1>2, AnswerFinds DEF Respond
    <2>2. /\ DOMAIN handoffs' = DOMAIN handoffs
          /\ handoffs'[i].status = d
          /\ \A j \in DOMAIN handoffs : j # i => handoffs'[j] = handoffs[j]
      BY <1>2, Answering DEF CustodyInv, TypeOK
    <2>3. \A j, k \in Pending(p) : j = k
      BY DEF CustodyInv, ChainUnbroken
    <2>4. i \in Pending(p)
      BY <1>2, <2>1 DEF Pending
    <2>5. Pending(p)' = {}
      <3>1. Pending(p)' \subseteq Pending(p) \ {i}
        BY <1>2, <2>1, <2>2 DEF Pending
      <3> QED BY <2>3, <2>4, <3>1
    <2>6. \A q \in Packages \ {p} : package'[q] = package[q]
      BY <1>2 DEF CustodyInv, TypeOK
    <2>7. ASSUME NEW q \in Packages \ {p} PROVE UNCHANGED <<PhaseOf(q), HolderOf(q), OfferOf(q)>>
      <3>1. Pending(q)' = Pending(q) /\ i \notin Pending(q) /\ Pending(q) \subseteq DOMAIN handoffs
        <4>1. handoffs'[i].package = p
          BY <1>2, <2>1, Answering DEF CustodyInv, TypeOK
        <4> QED BY <2>1, <2>2, <4>1 DEF Pending
      <3> QED BY <2>2, <2>6, <3>1, SameView
    <2>8. /\ package'[p].status = package[p].status /\ package'[p].template = package[p].template
          /\ package'[p].assignee = IF d = "accepted" THEN handoffs[i].to ELSE package[p].assignee
      <3>1. CASE d = "accepted"
        <4>1. handoffs[i].to \in People
          BY <2>1 DEF Handoffs
        <4>2. package'[p] = HandedOver(package[p], handoffs[i].to)
          BY <1>2, <2>1, <3>1 DEF CustodyInv, TypeOK
        <4> QED BY <2>1, <3>1, <4>1, <4>2, HandingOver
      <3>2. CASE d = "rejected"
        BY <1>2, <3>2
      <3> QED BY <3>1, <3>2
    <2>9. IsTask(p)' <=> IsTask(p)
      BY <2>8 DEF IsTask
    <2>10. CASE IsTask(p)
      <3>1. OfferOf(p) = [from |-> handoffs[i].from, to |-> handoffs[i].to]
        BY <2>3, <2>4, <2>10, OfferIs
      <3>2. OfferOf(p) # Custody!NoOffer /\ OfferOf(p).from = handoffs[i].from /\ OfferOf(p).to = handoffs[i].to
        BY <2>1, <3>1, NobodyAssumption DEF Handoffs, Custody!NoOffer
      <3>3. OfferOf(p)' = Custody!NoOffer
        BY <2>5 DEF OfferOf, Custody!NoOffer
      <3>4. PhaseOf(p) = "taken" /\ PhaseOf(p)' = "taken"
        BY <2>1, <2>8, <2>9, <2>10 DEF PhaseOf, Held, Over
      <3>5. HolderOf(p) = handoffs[i].from
        BY <2>1, <2>10 DEF HolderOf, AsFrozen
      <3>6. HolderOf(p)' = IF d = "accepted" THEN handoffs[i].to ELSE HolderOf(p)
        BY <2>8, <2>9, <2>10 DEF HolderOf
      <3>7. ViewStep(p)
        BY <3>2, <3>3, <3>4, <3>5, <3>6 DEF ViewStep
      <3> QED BY <2>7, <3>7, ViewStepIsCustody
    <2>11. CASE ~IsTask(p)
      BY <2>7, <2>9, <2>11, TemplateView, ViewStepIsCustody
    <2> QED BY <2>10, <2>11
  <1>3. request[c].package \in Packages /\ request[c].handoff \in DOMAIN handoffs
    BY RequestShape DEF Respond, At, CustodyInv, ReadsFit
  <1> QED BY <1>1, <1>2, <1>3 DEF Respond

LEMMA CustodyViewStep == CustodyInv /\ [Next]_vars => [Custody!Next]_Custody!vars
  <1> SUFFICES ASSUME CustodyInv, [Next]_vars PROVE Custody!Next \/ UNCHANGED Custody!vars
    OBVIOUS
  <1>1. ASSUME NEW p \in Packages, Publish(p) PROVE Custody!Next \/ UNCHANGED Custody!vars
    BY <1>1, PublishView
  <1>2. ASSUME NEW c \in Callers, Claim(c) \/ UpdateTemplate(c) \/ Transition(c)
        PROVE  Custody!Next \/ UNCHANGED Custody!vars
    BY <1>2, ClaimView, UpdateTemplateView, TransitionView
  <1>3. ASSUME NEW c \in Callers, InsertHandoff(c) \/ Respond(c)
        PROVE  Custody!Next \/ UNCHANGED Custody!vars
    BY <1>3, InsertView, RespondView
  <1>4. CASE UNCHANGED <<package, handoffs>>
    BY <1>4, QuietView
  <1> QED BY <1>1, <1>2, <1>3, <1>4 DEF Next, vars, ReadToClaim, ReadTemplate, ReadToTransition,
          ListHandoffs, ReadToHandOff, CheckPending, ReadHandoff, Crash, Reads, Refused

LEMMA CustodyViewInit == Init => Custody!Init
  <1> SUFFICES ASSUME Init PROVE Custody!Init
    OBVIOUS
  <1>1. \A p \in Packages : ~IsTask(p)
    BY DEF Init, IsTask, NoPackage
  <1>2. \A p \in Packages : /\ PhaseOf(p) = "absent" /\ HolderOf(p) = NoOne
                            /\ OfferOf(p) = [from |-> NoOne, to |-> NoOne]
    BY <1>1 DEF PhaseOf, HolderOf, OfferOf
  <1> QED BY <1>2 DEF Custody!Init, Custody!NoOffer

(* Every run of the task packages is a run of TaskCustody: a task passes   *)
(* only from its holder to the one it was offered to, when he accepts.     *)
THEOREM CustodyImplemented == Spec => ImplementsCustody
  BY CustodyHolds, CustodyViewInit, CustodyViewStep, PTL DEF Spec, ImplementsCustody, Custody!Spec
=============================================================================
