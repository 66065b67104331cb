---------------------- MODULE WorkerSupervisor_proofs ----------------------
(***************************************************************************)
(* What the shutdown of a worker process promises for any number of roles  *)
(* and tenants, any budget and any number of failures.                     *)
(***************************************************************************)
EXTENDS WorkerSupervisor, TLAPS

-----------------------------------------------------------------------------
(* The inductive invariant.                                                *)

(* One heartbeat is written at a time and the other loop waits for it; the *)
(* heartbeat loop never speaks of draining and has nothing more to say     *)
(* once the main loop writes its announcement.                             *)
BeatsFit ==
    /\ \A l \in Loops : inFlight = l <=> beat[l].step = "writing"
    /\ \A l \in Loops : beat[l].step = "waiting" => inFlight # "none"
    /\ beat["heartbeat"].step # "none" <=> pc["heartbeat"] = "beat"
    /\ beat["main"].step # "none" <=> pc["main"] \in {"beat", "announce"}
    /\ ~ beat["heartbeat"].draining
    /\ beat["main"].draining <=> pc["main"] = "announce"
    /\ pc["main"] \in {"announce", "join", "stopped"} /\ beat["main"].step # "waiting"
        => beat["heartbeat"].step = "none"
    /\ pc["heartbeat"] \in {"sleep", "beat", "stopped"}

Announcing == pc["main"] = "announce" /\ beat["main"].step = "writing"
Announced == pc["main"] \in {"join", "stopped"}

(* The announcement is written role by role, and by nobody else.           *)
RowsFit ==
    /\ \A r \in Roles : row[r] = "draining" => Announcing \/ Announced
    /\ Announcing => \A r \in Roles : r < beat["main"].role => row[r] = "draining"
    /\ Announced /\ faults["heartbeat"] = 0 => \A r \in Roles : row[r] = "draining"

(* Work that goes on is in the map of its role, unless it was displaced.   *)
WorkFits == \A l \in tracked : l \in displaced \/ entry[RunOf[l]] = l

(* Nothing begins after the signal, so what was in the map when drain()    *)
(* looked is all there is that was not displaced.                          *)
DrainFits ==
    /\ pc["main"] \in {"announce", "join", "stopped"} => aborted
    /\ \A r \in Detached : drain[r] # "open" => aborted
    /\ \A l \in tracked : drain[RunOf[l][1]] = "joining" => l \in displaced \cup joined
    /\ OnlyDisplacedIsLeft

(* A tenant is processed only while the role has budget.                   *)
CycleFits == MainIs("processing") => at.offset < NTenants /\ at.handled < Budget

ProcessInv == TypeOK /\ BeatsFit /\ RowsFit /\ WorkFits /\ DrainFits /\ CycleFits

LEMMA InitEstablishes == Init => ProcessInv
  <1> SUFFICES ASSUME Init PROVE ProcessInv
    OBVIOUS
  <1> USE SizeAssumption, MemberAssumption
  <1>1. TypeOK
    <2>1. 1 \in Roles /\ 0 \in Tenants /\ 0 \in 0 .. MaxFaults
      BY DEF Roles, Tenants
    <2>2. at \in [role : Roles, offset : 0 .. NTenants, handled : 0 .. Budget]
      BY <2>1 DEF Init, FirstOf
    <2>3. beat \in [Loops -> [step : {"none", "waiting", "writing"}, role : Roles, draining : BOOLEAN]]
      BY <2>1 DEF Init, NoBeat
    <2>4. cursor \in [Roles -> Tenants] /\ faults \in [Faults -> 0 .. MaxFaults]
      BY <2>1 DEF Init
    <2>5. entry \in [Keys -> Leases \cup {"none"}] /\ drain \in [Detached -> {"open", "aborting", "joining"}]
      BY DEF Init
    <2> QED BY <2>2, <2>3, <2>4, <2>5 DEF Init, TypeOK
  <1>2. BeatsFit
    BY DEF Init, BeatsFit, NoBeat, Loops
  <1>3. pc["main"] = "sleep"
    BY DEF Init, Loops
  <1>4. RowsFit
    BY <1>3 DEF Init, RowsFit, Announcing, Announced
  <1>5. WorkFits /\ DrainFits /\ CycleFits
    BY <1>3 DEF Init, WorkFits, DrainFits, OnlyDisplacedIsLeft, CycleFits, MainIs
  <1> QED BY <1>1, <1>2, <1>4, <1>5 DEF ProcessInv

-----------------------------------------------------------------------------
(* Heartbeats.                                                             *)

LEMMA LoopPairs ==
    /\ Loops = {"main", "heartbeat"}
    /\ Other("main") = "heartbeat" /\ Other("heartbeat") = "main"
    /\ "main" \in Loops /\ "heartbeat" \in Loops
  BY DEF Loops, Other

LEMMA LeaseTyped ==
    ASSUME NEW l \in Leases
    PROVE  RunOf[l] \in Keys /\ RunOf[l][1] \in Detached /\ l # "none"
  BY MemberAssumption DEF Keys

LEMMA AbortKeeps ==
    ASSUME ProcessInv, Abort
    PROVE  ProcessInv'
  <1> USE DEF ProcessInv, Abort, beatVars, workVars
  <1>1. TypeOK'
    BY DEF TypeOK
  <1>2. BeatsFit'
    BY DEF BeatsFit
  <1>3. RowsFit'
    BY DEF RowsFit, Announcing, Announced
  <1>4. WorkFits' /\ DrainFits'
    <2>1. \A r \in Detached : drain'[r] # "joining"
      OBVIOUS
    <2>2. tracked \subseteq Leases /\ \A l \in Leases : RunOf[l][1] \in Detached
      BY LeaseTyped DEF TypeOK
    <2> QED BY <2>1, <2>2 DEF WorkFits, DrainFits, OnlyDisplacedIsLeft
  <1>5. CycleFits'
    BY DEF CycleFits, MainIs
  <1> QED BY <1>1, <1>2, <1>3, <1>4, <1>5

(* A heartbeat that is called waits or is written at once.                 *)
LEMMA CallFits ==
    ASSUME TypeOK, NEW l \in Loops, NEW d \in BOOLEAN, Calls(l, d)
    PROVE  /\ beat' \in [Loops -> [step : {"none", "waiting", "writing"}, role : Roles, draining : BOOLEAN]]
           /\ inFlight' \in Loops \cup {"none"}
           /\ beat'[l].draining = d
           /\ \A k \in Loops \ {l} : beat'[k] = beat[k]
           /\ inFlight = "none" => beat'[l].step = "writing" /\ beat'[l].role = 1 /\ inFlight' = l
           /\ inFlight # "none" => beat'[l].step = "waiting" /\ inFlight' = inFlight
  <1>1. 1 \in Roles
    BY SizeAssumption DEF Roles
  <1> QED BY <1>1 DEF TypeOK, Calls, Begun, Waits

LEMMA HeartbeatLoopWakesKeeps ==
    ASSUME ProcessInv, HeartbeatLoopWakes
    PROVE  ProcessInv'
  <1> USE LoopPairs DEF ProcessInv, HeartbeatLoopWakes, cycleVars, workVars, drainVars
  <1>1. CASE aborted
    <2>1. TypeOK'
      BY <1>1 DEF TypeOK
    <2>2. BeatsFit'
      BY <1>1 DEF BeatsFit, TypeOK
    <2>3. RowsFit'
      BY <1>1 DEF RowsFit, Announcing, Announced, TypeOK
    <2>4. WorkFits' /\ DrainFits' /\ CycleFits'
      BY <1>1 DEF WorkFits, DrainFits, OnlyDisplacedIsLeft, CycleFits, MainIs, TypeOK
    <2> QED BY <2>1, <2>2, <2>3, <2>4
  <1>2. CASE ~ aborted
    <2>1. /\ Calls("heartbeat", FALSE)
          /\ pc' = [pc EXCEPT !["heartbeat"] = "beat"]
          /\ pc["main"] \notin {"announce", "join", "stopped"}
          /\ pc'["main"] = pc["main"]
      BY <1>2 DEF DrainFits, TypeOK
    <2>2. /\ beat' \in [Loops -> [step : {"none", "waiting", "writing"}, role : Roles, draining : BOOLEAN]]
          /\ inFlight' \in Loops \cup {"none"}
          /\ beat'["heartbeat"].draining = FALSE
          /\ beat'["main"] = beat["main"]
          /\ inFlight = "none" => beat'["heartbeat"].step = "writing" /\ inFlight' = "heartbeat"
          /\ inFlight # "none" => beat'["heartbeat"].step = "waiting" /\ inFlight' = inFlight
      BY <2>1, CallFits
    <2>3. TypeOK'
      BY <2>1, <2>2 DEF TypeOK
    <2>4. BeatsFit'
      BY <2>1, <2>2 DEF BeatsFit, TypeOK
    <2>5. RowsFit'
      BY <2>1, <2>2 DEF RowsFit, Announcing, Announced
    <2>6. WorkFits' /\ DrainFits' /\ CycleFits'
      BY <2>1, <2>2 DEF WorkFits, DrainFits, OnlyDisplacedIsLeft, CycleFits, MainIs
    <2> QED BY <2>3, <2>4, <2>5, <2>6
  <1> QED BY <1>1, <1>2

(* What the end of a heartbeat leaves, with whoever waited for it.         *)
LEMMA WriteFailsKeeps ==
    ASSUME ProcessInv, NEW l \in Loops, WriteFails(l)
    PROVE  ProcessInv'
  <1> USE LoopPairs DEF ProcessInv, WriteFails, cycleVars, workVars, drainVars
  <1>1. TypeOK'
    BY SizeAssumption DEF TypeOK, Fault, After, NoBeat, Roles, Faults
  <1>2. /\ \A k \in Loops : beat'[k].step = "none" /\ ~ beat'[k].draining
        /\ inFlight' = "none"
        /\ pc'["heartbeat"] \in {"sleep", "stopped"}
        /\ pc'["main"] \notin {"beat", "announce"}
        /\ pc'["main"] = "stopped" => pc["main"] = "stopped"
        /\ pc'["main"] = "join" => pc["main"] \in {"announce", "join"}
        /\ pc'["main"] = "processing" => pc["main"] = "processing"
        /\ pc["main"] \in {"join", "stopped"} => pc'["main"] = pc["main"]
        /\ pc["main"] = "announce" => pc'["main"] = "join"
    BY DEF After, NoBeat, BeatsFit, TypeOK
  <1>3. BeatsFit'
    BY <1>2 DEF BeatsFit
  <1>4. faults'["heartbeat"] # 0
    BY SizeAssumption DEF Fault, TypeOK, Faults
  <1>5. RowsFit'
    BY <1>2, <1>4 DEF RowsFit, Announcing, Announced
  <1>6. WorkFits' /\ DrainFits' /\ CycleFits'
    BY <1>2 DEF WorkFits, DrainFits, OnlyDisplacedIsLeft, CycleFits, MainIs
  <1> QED BY <1>1, <1>3, <1>5, <1>6

LEMMA WriteKeeps ==
    ASSUME ProcessInv, NEW l \in Loops, Write(l)
    PROVE  ProcessInv'
  <1> USE LoopPairs DEF ProcessInv, Write, cycleVars, workVars, drainVars
  <1>1. /\ beat[l].step = "writing" /\ inFlight = l
        /\ beat[l].role \in Roles
        /\ row' = [row EXCEPT ![beat[l].role] = IF beat[l].draining THEN "draining" ELSE "alive"]
        /\ beat[l].draining <=> l = "main" /\ pc["main"] = "announce"
    BY DEF BeatsFit, TypeOK
  <1>2. row' \in [Roles -> {"none", "alive", "draining"}]
    BY <1>1 DEF TypeOK
  <1>3. /\ l = "heartbeat" => ~ Announcing /\ ~ Announced
        /\ beat[l].draining <=> Announcing
        /\ ~ Announced
    BY <1>1 DEF Announcing, Announced, BeatsFit
  <1>4. CASE beat[l].role < NRoles
    <2>1. beat' = [beat EXCEPT ![l].role = beat[l].role + 1] /\ UNCHANGED <<pc, inFlight>>
      BY <1>4
    <2>2. beat[l].role + 1 \in Roles
      BY <1>4, SizeAssumption DEF TypeOK, Roles
    <2>3. TypeOK'
      BY <1>2, <2>1, <2>2 DEF TypeOK
    <2>4. /\ \A k \in Loops : beat'[k].step = beat[k].step /\ beat'[k].draining = beat[k].draining
          /\ beat'[l].role = beat[l].role + 1
      BY <2>1 DEF TypeOK
    <2>5. BeatsFit'
      BY <2>1, <2>4 DEF BeatsFit
    <2>6. RowsFit'
      <3>1. Announcing' = Announcing /\ Announced' = Announced
        BY <2>1, <2>4 DEF Announcing, Announced
      <3>2. Announcing => l = "main"
        BY <1>3
      <3>3. \A r \in Roles : row'[r] = "draining" => Announcing
        BY <1>1, <1>3 DEF RowsFit, TypeOK
      <3>4. Announcing => \A r \in Roles : r < beat'["main"].role => row'[r] = "draining"
        <4> SUFFICES ASSUME Announcing, NEW r \in Roles, r < beat["main"].role + 1
                     PROVE  row'[r] = "draining"
          BY <2>4, <3>2
        <4>1. r = beat["main"].role \/ r < beat["main"].role
          BY <1>1, <3>2 DEF Roles
        <4> QED BY <1>1, <1>3, <3>2, <4>1 DEF RowsFit, TypeOK
      <3> QED BY <1>3, <3>1, <3>3, <3>4 DEF RowsFit
    <2>7. WorkFits' /\ DrainFits' /\ CycleFits'
      BY <2>1 DEF WorkFits, DrainFits, OnlyDisplacedIsLeft, CycleFits, MainIs
    <2> QED BY <2>3, <2>5, <2>6, <2>7
  <1>5. CASE ~ (beat[l].role < NRoles)
    <2>1. Resolves(l)
      BY <1>5
    <2> DEFINE o == Other(l)
    <2>2. /\ o \in Loops /\ l # o /\ Loops = {l, o}
          /\ l = "main" => o = "heartbeat"
          /\ l = "heartbeat" => o = "main"
          /\ beat[o].step # "writing"
      BY <1>1 DEF BeatsFit
    <2>3. Announcing => \A r \in Roles : row'[r] = "draining"
      <3> SUFFICES ASSUME Announcing, NEW r \in Roles PROVE row'[r] = "draining"
        OBVIOUS
      <3>1. l = "main"
        BY <1>3
      <3>2. r = beat["main"].role \/ r < beat["main"].role
        BY <1>1, <1>5, <3>1, SizeAssumption DEF Roles
      <3> QED BY <1>1, <1>3, <3>1, <3>2 DEF RowsFit, TypeOK
    <2>4. ~ Announcing => \A r \in Roles : row'[r] # "draining"
      BY <1>1, <1>3 DEF RowsFit, TypeOK
    <2>5. CASE /\ beat[o].step = "waiting"
               /\ inFlight' = o
               /\ beat' = [beat EXCEPT ![l] = NoBeat, ![o] = Begun(beat[o].draining)]
               /\ pc' = [pc EXCEPT ![l] = After(l, TRUE)]
      <3>1. 1 \in Roles
        BY SizeAssumption DEF Roles
      <3>2. TypeOK'
        BY <1>2, <2>2, <2>5, <3>1 DEF TypeOK, After, NoBeat, Begun
      <3>3. /\ beat'[l].step = "none" /\ ~ beat'[l].draining
            /\ beat'[o].step = "writing" /\ beat'[o].role = 1 /\ beat'[o].draining = beat[o].draining
            /\ pc'[o] = pc[o] /\ pc'[l] = After(l, TRUE)
        BY <2>2, <2>5 DEF NoBeat, Begun, TypeOK
      <3>4. CASE l = "main"
        <4>1. pc["main"] = "beat" /\ pc'["main"] = "tenants"
          BY <1>1, <2>2, <2>5, <3>3, <3>4 DEF BeatsFit, After
        <4>2. BeatsFit'
          BY <2>2, <2>5, <3>3, <3>4, <4>1 DEF BeatsFit
        <4>3. RowsFit'
          BY <2>4, <4>1 DEF RowsFit, Announcing, Announced
        <4>4. WorkFits' /\ DrainFits' /\ CycleFits'
          BY <4>1 DEF WorkFits, DrainFits, OnlyDisplacedIsLeft, CycleFits, MainIs
        <4> QED BY <3>2, <4>2, <4>3, <4>4
      <3>5. CASE l = "heartbeat"
        <4>1. pc'["heartbeat"] = "sleep" /\ pc'["main"] = pc["main"]
          BY <2>2, <3>3, <3>5 DEF After
        <4>2. BeatsFit'
          BY <2>2, <2>5, <3>3, <3>5, <4>1 DEF BeatsFit
        <4>3. ~ Announced' /\ beat'["main"].role = 1
          BY <1>3, <2>2, <3>3, <3>5, <4>1 DEF Announced
        <4>4. RowsFit'
          BY <1>3, <2>4, <3>5, <4>3 DEF RowsFit, Roles
        <4>5. WorkFits' /\ DrainFits' /\ CycleFits'
          BY <4>1 DEF WorkFits, DrainFits, OnlyDisplacedIsLeft, CycleFits, MainIs
        <4> QED BY <3>2, <4>2, <4>4, <4>5
      <3> QED BY <3>4, <3>5
    <2>6. CASE /\ beat[o].step = "waiting" => ~ beat[o].draining
               /\ inFlight' = "none"
               /\ beat' = [k \in Loops |-> NoBeat]
               /\ pc' = [k \in Loops |-> IF k = l \/ beat[k].step = "waiting" THEN After(k, TRUE) ELSE pc[k]]
      <3>1. 1 \in Roles
        BY SizeAssumption DEF Roles
      <3>2. TypeOK'
        BY <1>2, <2>2, <2>6, <3>1 DEF TypeOK, After, NoBeat
      <3>3. \A k \in Loops : beat'[k].step = "none" /\ ~ beat'[k].draining
        BY <2>6 DEF NoBeat
      <3>4. /\ pc'["heartbeat"] \in {"sleep", "stopped"}
            /\ pc["main"] = "beat" => pc'["main"] = "tenants"
            /\ pc["main"] = "announce" => l = "main" /\ pc'["main"] = "join"
            /\ pc["main"] \notin {"beat", "announce"} => pc'["main"] = pc["main"]
        BY <1>1, <2>2, <2>6 DEF After, BeatsFit, TypeOK
      <3>5. BeatsFit'
        BY <2>6, <3>3, <3>4 DEF BeatsFit, TypeOK
      <3>6. RowsFit'
        <4>1. Announcing <=> pc["main"] = "announce"
          BY <1>1, <3>4 DEF Announcing
        <4>2. Announced' <=> Announcing
          BY <1>3, <3>4, <4>1 DEF Announced, TypeOK
        <4>3. ~ Announcing'
          BY <3>3 DEF Announcing
        <4> QED BY <2>3, <2>4, <4>2, <4>3 DEF RowsFit
      <3>7. WorkFits' /\ DrainFits' /\ CycleFits'
        BY <3>4 DEF WorkFits, DrainFits, OnlyDisplacedIsLeft, CycleFits, MainIs
      <3> QED BY <3>2, <3>5, <3>6, <3>7
    <2> QED BY <2>1, <2>5, <2>6 DEF Resolves
  <1> QED BY <1>4, <1>5

-----------------------------------------------------------------------------
(* A cycle.                                                                *)

(* A step that leaves the heartbeats alone and moves the main loop, if at  *)
(* all, between awaits that are none of a heartbeat or of the shutdown.    *)
LEMMA CycleStepKeeps ==
    ASSUME ProcessInv, TypeOK', CycleFits', WorkFits',
           UNCHANGED <<aborted, beatVars, drainVars>>,
           faults' = faults \/ faults'["heartbeat"] = faults["heartbeat"],
           pc'["heartbeat"] = pc["heartbeat"],
           pc["main"] \notin {"beat", "announce", "join", "stopped"},
           pc'["main"] \notin {"beat", "announce", "join", "stopped"},
           UNCHANGED workVars \/ ~ aborted
    PROVE  ProcessInv'
  <1> USE DEF ProcessInv, beatVars
  <1>1. BeatsFit'
    BY DEF BeatsFit
  <1>2. RowsFit'
    BY DEF RowsFit, Announcing, Announced
  <1>3. DrainFits'
    <2>1. ASSUME NEW l \in tracked', drain'[RunOf[l][1]] = "joining" PROVE l \in displaced' \cup joined'
      <3>1. aborted
        BY <2>1, LeaseTyped DEF TypeOK, drainVars, DrainFits
      <3> QED BY <2>1, <3>1 DEF workVars, drainVars, DrainFits
    <2> QED BY <2>1 DEF drainVars, DrainFits, OnlyDisplacedIsLeft
  <1> QED BY <1>1, <1>2, <1>3

LEMMA PollingKeeps ==
    ASSUME ProcessInv, TypeOK', CycleFits',
           UNCHANGED <<aborted, beatVars, workVars, drainVars>>,
           faults' = faults \/ faults'["heartbeat"] = faults["heartbeat"],
           pc'["heartbeat"] = pc["heartbeat"],
           pc["main"] \notin {"beat", "announce", "join", "stopped"},
           pc'["main"] \notin {"beat", "announce", "join", "stopped"}
    PROVE  ProcessInv'
  <1>1. WorkFits'
    BY DEF ProcessInv, WorkFits, workVars
  <1> QED BY <1>1, CycleStepKeeps

LEMMA MainMoves ==
    ASSUME TypeOK, NEW s \in {"sleep", "beat", "tenants", "poll", "processing", "announce", "join", "stopped"},
           MainGoes(s)
    PROVE  /\ pc' \in [Loops -> {"sleep", "beat", "tenants", "poll", "processing", "announce", "join", "stopped"}]
           /\ pc'["main"] = s
           /\ pc'["heartbeat"] = pc["heartbeat"]
  BY LoopPairs DEF TypeOK, MainGoes

LEMMA TenantTyped ==
    ASSUME TypeOK
    PROVE  /\ Tenant \in Tenants
           /\ \A r \in Roles : (cursor[r] + 1) % NTenants \in Tenants
  <1>1. \A n \in Nat : n % NTenants \in Tenants
    BY SizeAssumption DEF Tenants
  <1>2. /\ at.role \in Roles /\ at.offset \in Nat
        /\ \A r \in Roles : cursor[r] \in Nat
    BY SizeAssumption DEF TypeOK, Tenants
  <1> QED BY <1>1, <1>2 DEF Tenant

LEMMA StartCycleKeeps ==
    ASSUME ProcessInv, StartCycle
    PROVE  ProcessInv'
  <1> USE LoopPairs DEF ProcessInv, StartCycle, MainIs, cycleVars, workVars, drainVars
  <1>1. CASE MainGoes("beat") /\ Calls("main", FALSE)
    <2>1. pc'["main"] = "beat" /\ pc'["heartbeat"] = pc["heartbeat"]
      BY <1>1, MainMoves
    <2>2. /\ beat' \in [Loops -> [step : {"none", "waiting", "writing"}, role : Roles, draining : BOOLEAN]]
          /\ inFlight' \in Loops \cup {"none"}
          /\ beat'["main"].draining = FALSE
          /\ beat'["heartbeat"] = beat["heartbeat"]
          /\ inFlight = "none" => beat'["main"].step = "writing" /\ inFlight' = "main"
          /\ inFlight # "none" => beat'["main"].step = "waiting" /\ inFlight' = inFlight
      BY <1>1, CallFits
    <2>3. TypeOK'
      BY <1>1, <2>2, MainMoves DEF TypeOK
    <2>4. BeatsFit'
      BY <2>1, <2>2 DEF BeatsFit
    <2>5. RowsFit'
      BY <2>1 DEF RowsFit, Announcing, Announced
    <2>6. WorkFits' /\ DrainFits' /\ CycleFits'
      BY <2>1 DEF WorkFits, DrainFits, OnlyDisplacedIsLeft, CycleFits
    <2> QED BY <2>3, <2>4, <2>5, <2>6
  <1>2. CASE inFlight = "none" /\ MainGoes("tenants") /\ UNCHANGED <<beat, inFlight>>
    <2>1. TypeOK'
      BY <1>2, MainMoves DEF TypeOK
    <2>2. pc'["main"] = "tenants" /\ pc'["heartbeat"] = pc["heartbeat"]
      BY <1>2, MainMoves
    <2>3. CycleFits'
      BY <2>2 DEF CycleFits
    <2> QED BY <1>2, <2>1, <2>2, <2>3, PollingKeeps DEF beatVars
  <1> QED BY <1>1, <1>2

LEMMA ListTenantsKeeps ==
    ASSUME ProcessInv, ListTenants
    PROVE  ProcessInv'
  <1>1. pc'["main"] = "poll" /\ pc'["heartbeat"] = pc["heartbeat"]
    BY MainMoves DEF ProcessInv, ListTenants
  <1>2. FirstOf(1) \in [role : Roles, offset : 0 .. NTenants, handled : 0 .. Budget]
    BY SizeAssumption DEF FirstOf, Roles
  <1>3. TypeOK'
    BY <1>2, MainMoves DEF ProcessInv, ListTenants, TypeOK, beatVars, workVars, drainVars
  <1>4. CycleFits'
    BY <1>1 DEF CycleFits, MainIs
  <1> QED BY <1>1, <1>3, <1>4, PollingKeeps DEF ProcessInv, ListTenants, MainIs

LEMMA ListFailsKeeps ==
    ASSUME ProcessInv, ListFails
    PROVE  ProcessInv'
  <1>1. pc'["main"] = "sleep" /\ pc'["heartbeat"] = pc["heartbeat"]
    BY MainMoves DEF ProcessInv, ListFails
  <1>2. faults' \in [Faults -> 0 .. MaxFaults] /\ faults'["heartbeat"] = faults["heartbeat"]
    BY SizeAssumption DEF ProcessInv, ListFails, Fault, TypeOK, Faults
  <1>3. TypeOK'
    BY <1>2, MainMoves DEF ProcessInv, ListFails, TypeOK, beatVars, cycleVars, workVars, drainVars
  <1>4. CycleFits'
    BY <1>1 DEF CycleFits, MainIs
  <1> QED BY <1>1, <1>2, <1>3, <1>4, PollingKeeps DEF ProcessInv, ListFails, MainIs, cycleVars

LEMMA PollTenantKeeps ==
    ASSUME ProcessInv, PollTenant
    PROVE  ProcessInv'
  <1>1. pc'["main"] = "processing" /\ pc'["heartbeat"] = pc["heartbeat"]
    BY MainMoves DEF ProcessInv, PollTenant
  <1>2. TypeOK'
    BY MainMoves DEF ProcessInv, PollTenant, TypeOK, beatVars, cycleVars, workVars, drainVars
  <1>3. CycleFits'
    <2>1. at' = at /\ at.offset # NTenants /\ ~ (at.handled >= Budget)
      BY DEF PollTenant, RoleIsDone, cycleVars
    <2>2. at.offset \in 0 .. NTenants /\ at.handled \in 0 .. Budget
      BY DEF ProcessInv, TypeOK
    <2> QED BY <2>1, <2>2, SizeAssumption DEF CycleFits
  <1> QED BY <1>1, <1>2, <1>3, PollingKeeps DEF ProcessInv, PollTenant, MainIs, cycleVars

LEMMA NextRoleKeeps ==
    ASSUME ProcessInv, NextRole
    PROVE  ProcessInv'
  <1>1. cursor' \in [Roles -> Tenants]
    BY TenantTyped DEF ProcessInv, NextRole, TypeOK
  <1>2. CASE at.role < NRoles
    <2>1. at' = FirstOf(at.role + 1) /\ UNCHANGED pc
      BY <1>2 DEF NextRole
    <2>2. at.role + 1 \in Roles
      BY <1>2, SizeAssumption DEF ProcessInv, TypeOK, Roles
    <2>3. at' \in [role : Roles, offset : 0 .. NTenants, handled : 0 .. Budget]
      BY <2>1, <2>2, SizeAssumption DEF FirstOf
    <2>4. TypeOK'
      BY <1>1, <2>1, <2>3 DEF ProcessInv, NextRole, TypeOK, beatVars, workVars, drainVars
    <2>5. CycleFits'
      BY <2>1 DEF NextRole, CycleFits, MainIs
    <2> QED BY <2>1, <2>4, <2>5, PollingKeeps DEF ProcessInv, NextRole, MainIs
  <1>3. CASE ~ (at.role < NRoles)
    <2>1. MainGoes("sleep") /\ UNCHANGED at
      BY <1>3 DEF NextRole
    <2>2. pc'["main"] = "sleep" /\ pc'["heartbeat"] = pc["heartbeat"]
      BY <2>1, MainMoves DEF ProcessInv
    <2>3. TypeOK'
      BY <1>1, <2>1, MainMoves DEF ProcessInv, NextRole, TypeOK, beatVars, workVars, drainVars
    <2>4. CycleFits'
      BY <2>2 DEF CycleFits, MainIs
    <2> QED BY <2>2, <2>3, <2>4, PollingKeeps DEF ProcessInv, NextRole, MainIs
  <1> QED BY <1>2, <1>3

(* Going on to the next tenant.                                            *)
LEMMA AdvanceFits ==
    ASSUME ProcessInv, Processing, NEW n \in {0, 1}, Advances(n)
    PROVE  /\ at' \in [role : Roles, offset : 0 .. NTenants, handled : 0 .. Budget]
           /\ pc' \in [Loops -> {"sleep", "beat", "tenants", "poll", "processing", "announce", "join", "stopped"}]
           /\ pc'["main"] = "poll" /\ pc'["heartbeat"] = pc["heartbeat"]
           /\ pc["main"] = "processing"
           /\ CycleFits'
  <1>1. at.offset < NTenants /\ at.handled < Budget
    BY DEF ProcessInv, CycleFits, Processing
  <1>2. at.offset + 1 \in 0 .. NTenants /\ at.handled + n \in 0 .. Budget
    BY <1>1, SizeAssumption DEF ProcessInv, TypeOK
  <1>3. at' = [at EXCEPT !.offset = at.offset + 1, !.handled = at.handled + n] /\ MainGoes("poll")
    BY DEF Advances
  <1>4. at' \in [role : Roles, offset : 0 .. NTenants, handled : 0 .. Budget]
    BY <1>2, <1>3 DEF ProcessInv, TypeOK
  <1> QED BY <1>3, <1>4, MainMoves DEF ProcessInv, Processing, CycleFits, MainIs

LEMMA FindsNothingKeeps ==
    ASSUME ProcessInv, FindsNothing
    PROVE  ProcessInv'
  <1>1. TypeOK'
    BY AdvanceFits DEF ProcessInv, FindsNothing, TypeOK, beatVars, workVars, drainVars
  <1> QED BY <1>1, AdvanceFits, PollingKeeps DEF FindsNothing

LEMMA FinishesItemKeeps ==
    ASSUME ProcessInv, FinishesItem
    PROVE  ProcessInv'
  <1>1. TypeOK'
    BY AdvanceFits DEF ProcessInv, FinishesItem, TypeOK, beatVars, workVars, drainVars
  <1> QED BY <1>1, AdvanceFits, PollingKeeps DEF FinishesItem

(* Work that begins puts the work in its entry out of the map.             *)
LEMMA TrackFits ==
    ASSUME TypeOK, WorkFits, NEW lease \in Leases, Track(lease)
    PROVE  /\ tracked' \subseteq Leases
           /\ entry' \in [Keys -> Leases \cup {"none"}]
           /\ displaced' \subseteq tracked'
           /\ WorkFits'
  <1>1. RunOf[lease] \in Keys
    BY LeaseTyped
  <1>2. entry' \in [Keys -> Leases \cup {"none"}] /\ entry'[RunOf[lease]] = lease
    BY <1>1 DEF TypeOK, Track
  <1>3. ASSUME NEW l \in tracked' PROVE l \in displaced' \/ entry'[RunOf[l]] = l
    <2>1. CASE l = lease
      BY <1>2, <2>1
    <2>2. CASE l # lease
      <3>1. l \in tracked /\ RunOf[l] \in Keys
        BY <1>3, <2>2, LeaseTyped DEF Track, TypeOK
      <3>2. l \in displaced \/ entry[RunOf[l]] = l
        BY <3>1 DEF WorkFits
      <3> QED BY <1>1, <3>1, <3>2 DEF Track, TypeOK
    <2> QED BY <2>1, <2>2
  <1> QED BY <1>2, <1>3 DEF TypeOK, Track, WorkFits

LEMMA ReturnsDetachedKeeps ==
    ASSUME ProcessInv, ReturnsDetached
    PROVE  ProcessInv'
  <1>1. PICK n \in {0, 1} : Advances(n)
    BY DEF ReturnsDetached
  <1>2. CASE aborted
    <2>1. UNCHANGED workVars
      BY <1>2 DEF ReturnsDetached
    <2>2. TypeOK'
      BY <1>1, <2>1, AdvanceFits DEF ProcessInv, ReturnsDetached, TypeOK, beatVars, workVars, drainVars
    <2> QED BY <1>1, <2>1, <2>2, AdvanceFits, PollingKeeps DEF ReturnsDetached
  <1>3. CASE ~ aborted
    <2>1. PICK lease \in Leases : Track(lease)
      BY <1>3 DEF ReturnsDetached, Claimable
    <2>2. /\ tracked' \subseteq Leases
          /\ entry' \in [Keys -> Leases \cup {"none"}]
          /\ displaced' \subseteq tracked'
          /\ WorkFits'
      BY <2>1, TrackFits DEF ProcessInv
    <2>3. TypeOK'
      BY <1>1, <2>2, AdvanceFits DEF ProcessInv, ReturnsDetached, TypeOK, beatVars, drainVars
    <2> QED BY <1>1, <1>3, <2>2, <2>3, AdvanceFits, CycleStepKeeps DEF ReturnsDetached
  <1> QED BY <1>2, <1>3

LEMMA ThrowsKeeps ==
    ASSUME ProcessInv, Throws
    PROVE  ProcessInv'
  <1>1. pc'["main"] = "poll" /\ pc'["heartbeat"] = pc["heartbeat"]
    BY MainMoves DEF ProcessInv, Throws
  <1>2. faults' \in [Faults -> 0 .. MaxFaults] /\ faults'["heartbeat"] = faults["heartbeat"]
    BY SizeAssumption DEF ProcessInv, Throws, Fault, TypeOK, Faults
  <1>3. at' \in [role : Roles, offset : 0 .. NTenants, handled : 0 .. Budget]
    BY SizeAssumption DEF ProcessInv, Throws, TypeOK
  <1>4. TypeOK'
    BY <1>2, <1>3, MainMoves DEF ProcessInv, Throws, TypeOK, beatVars, workVars, drainVars
  <1>5. CycleFits'
    BY <1>1 DEF CycleFits, MainIs
  <1> QED BY <1>1, <1>2, <1>4, <1>5, PollingKeeps DEF ProcessInv, Throws, MainIs

LEMMA WorkEndsKeeps ==
    ASSUME ProcessInv, NEW lease \in tracked, WorkEnds(lease) \/ WorkFails(lease)
    PROVE  ProcessInv'
  <1> USE DEF ProcessInv, WorkEnds, WorkFails, beatVars, drainVars
  <1>1. Leaves(lease) /\ UNCHANGED <<aborted, pc, beatVars, at, cursor, drainVars, faults>>
    OBVIOUS
  <1>2. drainFailed' \in BOOLEAN /\ (drainFailed => drainFailed')
    BY DEF TypeOK
  <1>3. /\ tracked' = tracked \ {lease} /\ displaced' = displaced \ {lease}
        /\ entry' \in [Keys -> Leases \cup {"none"}]
        /\ \A l \in tracked' : entry[RunOf[l]] = l => entry'[RunOf[l]] = l
    <2>1. lease \in Leases /\ RunOf[lease] \in Keys /\ \A l \in tracked : RunOf[l] \in Keys
      BY LeaseTyped DEF TypeOK
    <2> QED BY <1>1, <2>1 DEF Leaves, TypeOK
  <1>4. TypeOK'
    BY <1>1, <1>2, <1>3 DEF TypeOK
  <1>5. BeatsFit' /\ RowsFit' /\ CycleFits'
    BY <1>1 DEF BeatsFit, RowsFit, Announcing, Announced, CycleFits, MainIs
  <1>6. WorkFits'
    BY <1>3 DEF WorkFits
  <1>7. DrainFits'
    BY <1>1, <1>2, <1>3 DEF DrainFits, OnlyDisplacedIsLeft
  <1> QED BY <1>4, <1>5, <1>6, <1>7

-----------------------------------------------------------------------------
(* Shutdown.                                                               *)

LEMMA AnnounceKeeps ==
    ASSUME ProcessInv, Announce
    PROVE  ProcessInv'
  <1> USE LoopPairs DEF ProcessInv, Announce, MainIs, cycleVars, workVars, drainVars
  <1>1. pc'["main"] = "announce" /\ pc'["heartbeat"] = pc["heartbeat"]
    BY MainMoves
  <1>2. /\ beat' \in [Loops -> [step : {"none", "waiting", "writing"}, role : Roles, draining : BOOLEAN]]
        /\ inFlight' \in Loops \cup {"none"}
        /\ beat'["main"].draining = TRUE
        /\ beat'["heartbeat"] = beat["heartbeat"]
        /\ inFlight = "none" => beat'["main"].step = "writing" /\ beat'["main"].role = 1 /\ inFlight' = "main"
        /\ inFlight # "none" => beat'["main"].step = "waiting" /\ inFlight' = inFlight
    BY CallFits
  <1>3. TypeOK'
    BY <1>2, MainMoves DEF TypeOK
  <1>4. BeatsFit'
    BY <1>1, <1>2 DEF BeatsFit, TypeOK
  <1>5. RowsFit'
    <2>1. ~ Announced' /\ \A r \in Roles : row'[r] # "draining"
      BY <1>1 DEF RowsFit, Announcing, Announced
    <2>2. Announcing' => beat'["main"].role = 1
      BY <1>2 DEF Announcing
    <2> QED BY <2>1, <2>2 DEF RowsFit, Roles
  <1>6. WorkFits' /\ DrainFits' /\ CycleFits'
    BY <1>1 DEF WorkFits, DrainFits, OnlyDisplacedIsLeft, CycleFits
  <1> QED BY <1>3, <1>4, <1>5, <1>6

(* A drain that joins waits for all that is in the map and not displaced.  *)
LEMMA JoinInFlightKeeps ==
    ASSUME ProcessInv, NEW r \in Detached, JoinInFlight(r)
    PROVE  ProcessInv'
  <1> USE DEF ProcessInv, JoinInFlight, beatVars, workVars
  <1>1. TypeOK'
    BY DEF TypeOK
  <1>2. BeatsFit' /\ RowsFit' /\ CycleFits' /\ WorkFits'
    BY DEF BeatsFit, RowsFit, Announcing, Announced, CycleFits, MainIs, WorkFits
  <1>3. aborted
    BY DEF DrainFits
  <1>4. ASSUME NEW l \in tracked, drain'[RunOf[l][1]] = "joining" PROVE l \in displaced \cup joined'
    <2>1. l \in Leases /\ RunOf[l][1] \in Detached
      BY LeaseTyped DEF TypeOK
    <2>2. CASE RunOf[l][1] = r
      BY <2>1, <2>2 DEF WorkFits
    <2>3. CASE RunOf[l][1] # r
      <3>1. drain[RunOf[l][1]] = "joining"
        BY <1>4, <2>1, <2>3 DEF TypeOK
      <3> QED BY <3>1 DEF DrainFits
    <2> QED BY <2>2, <2>3
  <1>5. DrainFits'
    BY <1>3, <1>4 DEF DrainFits, OnlyDisplacedIsLeft
  <1> QED BY <1>1, <1>2, <1>5

LEMMA StopKeeps ==
    ASSUME ProcessInv, Stop
    PROVE  ProcessInv'
  <1> USE LoopPairs DEF ProcessInv, Stop, MainIs, cycleVars, workVars, drainVars, beatVars
  <1>1. pc'["main"] = "stopped" /\ pc'["heartbeat"] = pc["heartbeat"]
    BY MainMoves
  <1>2. TypeOK'
    BY MainMoves DEF TypeOK
  <1>3. BeatsFit'
    BY <1>1 DEF BeatsFit
  <1>4. RowsFit'
    BY <1>1 DEF RowsFit, Announcing, Announced
  <1>5. WorkFits' /\ CycleFits'
    BY <1>1 DEF WorkFits, CycleFits
  <1>6. drainFailed \/ tracked \subseteq displaced
    <2>1. drainFailed \/ \A l \in tracked : l \in displaced \cup joined
      BY LeaseTyped DEF TypeOK, DrainFits
    <2> QED BY <2>1
  <1>7. DrainFits'
    BY <1>1, <1>6 DEF DrainFits, OnlyDisplacedIsLeft
  <1> QED BY <1>2, <1>3, <1>4, <1>5, <1>7

-----------------------------------------------------------------------------
LEMMA StepKeeps ==
    ASSUME ProcessInv, [Next]_vars
    PROVE  ProcessInv'
  <1>1. CASE Abort
    BY <1>1, AbortKeeps
  <1>2. CASE HeartbeatStep
    BY <1>2, WriteKeeps DEF HeartbeatStep
  <1>3. CASE HeartbeatLoopWakes
    BY <1>3, HeartbeatLoopWakesKeeps
  <1>4. CASE StartCycle
    BY <1>4, StartCycleKeeps
  <1>5. CASE CycleStep
    BY <1>5, ListTenantsKeeps, PollTenantKeeps, NextRoleKeeps, FindsNothingKeeps, FinishesItemKeeps,
       ReturnsDetachedKeeps, ThrowsKeeps DEF CycleStep
  <1>6. CASE ListFails
    BY <1>6, ListFailsKeeps
  <1>7. CASE Announce
    BY <1>7, AnnounceKeeps
  <1>8. CASE Stop
    BY <1>8, StopKeeps
  <1>9. CASE \E l \in Loops : WriteFails(l)
    BY <1>9, WriteFailsKeeps
  <1>10. CASE \E lease \in tracked : WorkEnds(lease) \/ WorkFails(lease)
    BY <1>10, WorkEndsKeeps
  <1>11. CASE \E r \in Detached : JoinInFlight(r)
    BY <1>11, JoinInFlightKeeps
  <1>12. CASE UNCHANGED vars
    BY <1>12 DEF vars, beatVars, cycleVars, workVars, drainVars, WorkFits, ProcessInv, TypeOK, BeatsFit, RowsFit, Announcing, Announced,
                 DrainFits, OnlyDisplacedIsLeft, CycleFits, MainIs
  <1> QED BY <1>1, <1>2, <1>3, <1>4, <1>5, <1>6, <1>7, <1>8, <1>9, <1>10, <1>11, <1>12 DEF Next

LEMMA Invariance == Spec => []ProcessInv
  BY InitEstablishes, StepKeeps, PTL DEF Spec

(* The supervisor's variables keep their types.                            *)
THEOREM TypeCorrect == Spec => []TypeOK
  <1>1. ProcessInv => TypeOK
    BY DEF ProcessInv
  <1> QED BY <1>1, Invariance, PTL

(* A process stops only after every role's heartbeat row says that it      *)
(* drains, unless the database has refused a heartbeat, for any number of  *)
(* roles and however the two loops' heartbeats overlap.                    *)
THEOREM StopsAreAnnounced == Spec => []StopIsAnnounced
  <1>1. ProcessInv => StopIsAnnounced
    BY DEF ProcessInv, RowsFit, Announced, StopIsAnnounced
  <1> QED BY <1>1, Invariance, PTL

(* run() returns with no detached work left but what a later lease of the  *)
(* same run has put out of the map, unless work it waits for has thrown:   *)
(* for any number of roles, runs and leases, and wherever the signal falls *)
(* between the claims, the ends and the failures of work.                  *)
THEOREM OnlyTheDisplacedAreLeft == Spec => []OnlyDisplacedIsLeft
  <1>1. ProcessInv => OnlyDisplacedIsLeft
    BY DEF ProcessInv, DrainFits
  <1> QED BY <1>1, Invariance, PTL

(* Nobody overwrites the announcement of a shutdown.                       *)
THEOREM AnnouncementsStand == Spec => DrainingIsFinal
  <1>1. ASSUME ProcessInv, [Next]_vars PROVE [StaysDraining]_vars
    <2> SUFFICES ASSUME NEW r \in Roles, row[r] = "draining" PROVE row'[r] = "draining"
      BY DEF StaysDraining
    <2>1. CASE \E l \in Loops : Write(l)
      <3>1. PICK l \in Loops : Write(l)
        BY <2>1
      <3>2. /\ beat[l].step = "writing" /\ inFlight = l
            /\ row' = [row EXCEPT ![beat[l].role] = IF beat[l].draining THEN "draining" ELSE "alive"]
        BY <1>1, <3>1 DEF Write, ProcessInv, BeatsFit
      <3>3. Announcing \/ Announced
        BY <1>1 DEF ProcessInv, RowsFit
      <3>4. l = "main" /\ pc["main"] = "announce"
        BY <1>1, <3>2, <3>3, LoopPairs DEF Announcing, Announced, ProcessInv, BeatsFit
      <3>5. beat[l].draining
        BY <1>1, <3>4 DEF ProcessInv, BeatsFit
      <3> QED BY <1>1, <3>2, <3>5 DEF ProcessInv, TypeOK
    <2>2. CASE UNCHANGED row
      BY <2>2
    <2>3. (\E l \in Loops : Write(l)) \/ UNCHANGED row
      BY <1>1 DEF Next, vars, beatVars, Abort, HeartbeatStep, HeartbeatLoopWakes, StartCycle, CycleStep, ListFails,
             Announce, Stop, WriteFails, WorkEnds, WorkFails, ListTenants, PollTenant, NextRole, FindsNothing,
             FinishesItem, ReturnsDetached, Throws, JoinInFlight
    <2> QED BY <2>1, <2>2, <2>3
  <1> QED BY <1>1, Invariance, PTL DEF Spec, DrainingIsFinal
=============================================================================
