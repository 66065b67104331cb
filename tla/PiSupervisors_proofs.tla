------------------------ MODULE PiSupervisors_proofs ------------------------
(***************************************************************************)
(* What the two supervisors promise: that of the microVMs (PiMachines) for *)
(* any number of sandboxes, requests and faults, and that of the           *)
(* workspaces (PiWorkspaces) for any number of instances, requests,        *)
(* tenants, items and faults.                                              *)
(***************************************************************************)
EXTENDS PiMachines, PiWorkspaces, TLAPS

-----------------------------------------------------------------------------
(* PiMachines: the inductive invariant.                                    *)

Creates(r) == req[r].pc # "idle" /\ req[r].op = "create"

\* A sandbox in creation has no name and concerns one request.
Sole ==
    \A r \in Requests : Creates(r) =>
        /\ req[r].box \in used \ (binding \cup vouched)
        /\ \A other \in Requests : req[other].box = req[r].box => other = r

Known ==
    /\ binding \cup vouched \subseteq used
    /\ \A r \in Requests : req[r].pc # "idle" => req[r].box \in used
    /\ \A s \in Sandboxes \ used : left[s] = {}

Kinds ==
    \A r \in Requests :
        /\ req[r].pc \in Creating \cup Undoing => req[r].op = "create"
        /\ req[r].pc = "adopt" => req[r].op # "create"
        /\ req[r].pc \in {"stop", "asked", "dying"} => req[r].op # "use"
        /\ req[r].pc \in Destroying => req[r].op \in {"create", "destroy"}

\* The parts a creation has made, or has not yet taken down, by what it does next.
PartsAt(pc) ==
    IF pc \in {"directory", "unbind"} THEN {}
    ELSE IF pc = "sockets" THEN {"directory"}
    ELSE IF pc \in {"cgroup", "remove"} THEN {"directory", "sockets"}
    ELSE IF pc = "unlink" THEN {"sockets"} ELSE Part

Built == \A r \in Requests : Creates(r) /\ req[r].pc \notin Undoing => left[req[r].box] = PartsAt(req[r].pc)

Quiet ==
    \A r \in Requests : req[r].pc # "idle" /\ Running(req[r].box) =>
        /\ req[r].pc \notin Destroying
        /\ req[r].pc \in {"reap", "dying", "clean"} => req[r].box \in killed
        /\ req[r].pc = "clean" => "slow" \in excuse[req[r].box]

Caged == \A s \in binding : Running(s) => "cgroup" \in left[s]

Reachable == \A r \in Requests : Creates(r) /\ req[r].pc \in {"look", "bind", "state"} => req[r].box \in held

IInv == TypeOK /\ Sole /\ Known /\ Kinds /\ Built /\ Quiet /\ Caged /\ Reachable /\ DestroyedIsGone /\ NothingUnowned

-----------------------------------------------------------------------------
(* What a step does to the request that takes it, and to no other.         *)

Moves(r, pc) ==
    /\ req'[r].pc = pc /\ req'[r].op = req[r].op /\ req'[r].box = req[r].box
    /\ \A other \in Requests \ {r} : req'[other] = req[other]

Ends(r) ==
    /\ req'[r] = Idle
    /\ \A other \in Requests \ {r} : req'[other] = req[other]

LEMMA RequestShape ==
    ASSUME TypeOK, NEW r \in Requests
    PROVE  /\ req[r].pc \in {"idle"} \cup Creating \cup Undoing \cup Stopping \cup Destroying
           /\ req[r].op \in Op
           /\ req[r].pc # "idle" => req[r].box \in Sandboxes /\ req[r] # Idle
           /\ req[r].pc = "idle" => req[r].box = NoSandbox
  BY DEF TypeOK, Request, Idle, Op, Creating, Undoing, Stopping, Destroying

LEMMA Going ==
    ASSUME TypeOK, NEW r \in Requests, NEW pc \in Creating \cup Undoing \cup Stopping \cup Destroying,
           req[r].pc # "idle", Goto(r, pc)
    PROVE  Moves(r, pc) /\ req' \in [Requests -> Request]
  <1>1. req[r] \in [op : Op, pc : Creating \cup Undoing \cup Stopping \cup Destroying, box : Sandboxes]
    BY DEF TypeOK, Request, Idle
  <1>2. [req[r] EXCEPT !.pc = pc] \in Request
    BY <1>1 DEF Request
  <1> QED BY <1>1, <1>2 DEF TypeOK, Goto, Moves

LEMMA Ending ==
    ASSUME TypeOK, NEW r \in Requests, Done(r)
    PROVE  Ends(r) /\ req' \in [Requests -> Request]
  BY DEF TypeOK, Done, Ends, Request

-----------------------------------------------------------------------------
(* What keeps one part of the invariant when request r moves or ends.      *)

\* The part "request r is at pc" plays after the step.
Steps(r) == Ends(r) \/ \E pc \in Creating \cup Undoing \cup Stopping \cup Destroying : Moves(r, pc)

LEMMA KindsKept ==
    ASSUME IInv, NEW r \in Requests, NEW pc \in Creating \cup Undoing \cup Stopping \cup Destroying, Moves(r, pc),
           pc \in Creating \cup Undoing => req[r].op = "create",
           pc = "adopt" => req[r].op # "create",
           pc \in {"stop", "asked", "dying"} => req[r].op # "use",
           pc \in Destroying => req[r].op \in {"create", "destroy"}
    PROVE  Kinds'
  <1> SUFFICES ASSUME NEW x \in Requests
               PROVE  /\ req'[x].pc \in Creating \cup Undoing => req'[x].op = "create"
                      /\ req'[x].pc = "adopt" => req'[x].op # "create"
                      /\ req'[x].pc \in {"stop", "asked", "dying"} => req'[x].op # "use"
                      /\ req'[x].pc \in Destroying => req'[x].op \in {"create", "destroy"}
    BY DEF Kinds
  <1>1. CASE x = r
    BY <1>1 DEF Moves
  <1>2. CASE x # r
    BY <1>2 DEF Moves, IInv, Kinds
  <1> QED BY <1>1, <1>2

LEMMA BuiltKept ==
    ASSUME IInv, NEW r \in Requests, req[r].pc # "idle",
           NEW pc \in Creating \cup Undoing \cup Stopping \cup Destroying, Moves(r, pc),
           \A s \in Sandboxes : s # req[r].box => left'[s] = left[s],
           Creates(r) /\ pc \notin Undoing => left'[req[r].box] = PartsAt(pc)
    PROVE  Built'
  <1> SUFFICES ASSUME NEW x \in Requests, Creates(x)', req'[x].pc \notin Undoing
               PROVE  left'[req'[x].box] = PartsAt(req'[x].pc)
    BY DEF Built
  <1>1. CASE x = r
    BY <1>1 DEF Moves, Creates
  <1>2. CASE x # r
    <2>1. req'[x] = req[x] /\ Creates(x)
      BY <1>2 DEF Moves, Creates
    <2>2. req[x].box \in Sandboxes
      BY <2>1, RequestShape DEF IInv, Creates
    <2>3. req[x].box # req[r].box
      BY <1>2, <2>1 DEF IInv, Sole
    <2> QED BY <2>1, <2>2, <2>3 DEF IInv, Built
  <1> QED BY <1>1, <1>2

LEMMA QuietKept ==
    ASSUME IInv, NEW r \in Requests, NEW pc \in Creating \cup Undoing \cup Stopping \cup Destroying, Moves(r, pc),
           killed \subseteq killed', \A s \in Sandboxes : excuse[s] \subseteq excuse'[s],
           \A s \in Sandboxes : process'[s] = process[s],
           Running(req[r].box) =>
                /\ pc \notin Destroying
                /\ pc \in {"reap", "dying", "clean"} => req[r].box \in killed'
                /\ pc = "clean" => "slow" \in excuse'[req[r].box],
           req[r].pc # "idle"
    PROVE  Quiet'
  <1> SUFFICES ASSUME NEW x \in Requests, req'[x].pc # "idle", Running(req[x].box)'
               PROVE  /\ req'[x].pc \notin Destroying
                      /\ req'[x].pc \in {"reap", "dying", "clean"} => req'[x].box \in killed'
                      /\ req'[x].pc = "clean" => "slow" \in excuse'[req'[x].box]
    BY DEF Quiet
  <1>1. CASE x = r
    <2>1. req[r].box \in Sandboxes
      BY RequestShape DEF IInv
    <2> QED BY <1>1, <2>1 DEF Moves, Running
  <1>2. CASE x # r
    <2>1. req'[x] = req[x]
      BY <1>2 DEF Moves
    <2>2. req[x].box \in Sandboxes
      BY <2>1, RequestShape DEF IInv
    <2>3. Running(req[x].box)
      BY <2>1, <2>2 DEF Running
    <2> QED BY <2>1, <2>2, <2>3 DEF IInv, Quiet
  <1> QED BY <1>1, <1>2

\* Sandboxes r does not deal with are owned, killed and excused as before.
LEMMA OthersOwned ==
    ASSUME IInv, NEW r \in Requests, NEW box \in Sandboxes, box = req[r].box, Steps(r), used' = used, binding \subseteq binding',
           \A s \in Sandboxes : s # box => left'[s] = left[s] /\ process'[s] = process[s],
           killed \subseteq killed', \A s \in Sandboxes : excuse[s] \subseteq excuse'[s],
           Unowned(box)' => /\ left'[box] # {} => excuse'[box] # {}
                            /\ Running(box)' => box \in killed' \/ excuse'[box] \cap {"crash", "unread"} # {}
    PROVE  NothingUnowned'
  <1> SUFFICES ASSUME NEW s \in Sandboxes, Unowned(s)', s # box
               PROVE  /\ left'[s] # {} => excuse'[s] # {}
                      /\ Running(s)' => s \in killed' \/ excuse'[s] \cap {"crash", "unread"} # {}
    BY DEF NothingUnowned
  <1>1. \A x \in Requests : x # r => req'[x] = req[x]
    BY DEF Steps, Moves, Ends
  <1>2. Unowned(s)
    BY <1>1 DEF Unowned, Serving
  <1>3. left'[s] = left[s] /\ (Running(s)' <=> Running(s))
    BY DEF Running
  <1> QED BY <1>2, <1>3 DEF IInv, NothingUnowned

LEMMA MakeDirectoryKeeps ==
    ASSUME IInv, NEW r \in Requests, MakeDirectory(r)
    PROVE  IInv'
  <1>1. /\ req[r].box \in Sandboxes /\ req' \in [Requests -> Request]
        /\ Moves(r, "sockets")
    BY RequestShape, Going, Ending DEF IInv, MakeDirectory, MakePart, Creating, Undoing, Stopping, Destroying
  <1>2. TypeOK'
    BY <1>1 DEF IInv, TypeOK, MakeDirectory, MakePart, historyVars, Part
  <1>3. Sole'
    BY <1>1 DEF IInv, Sole, Creates, MakeDirectory, MakePart, Moves, historyVars
  <1>4. Known'
    BY <1>1 DEF IInv, Known, MakeDirectory, MakePart, Moves, historyVars
  <1>5. Kinds'
    BY <1>1 DEF IInv, Kinds, MakeDirectory, MakePart, Moves, Creating
  <1>6. Built'
    <2>1. /\ \A s \in Sandboxes : s # req[r].box => left'[s] = left[s]
          /\ left'[req[r].box] = left[req[r].box] \cup {"directory"}
      BY <1>1 DEF IInv, TypeOK, MakeDirectory, MakePart
    <2>2. Creates(r) => left[req[r].box] = PartsAt("directory")
      BY DEF IInv, Built, Creates, MakeDirectory, MakePart, Undoing
    <2>3. PartsAt("directory") \cup {"directory"} = PartsAt("sockets")
      BY DEF PartsAt, Part
    <2> QED BY <1>1, <2>1, <2>2, <2>3, BuiltKept
       DEF MakeDirectory, MakePart, Creating, Undoing, Stopping, Destroying
  <1>7. Reachable'
    BY <1>1 DEF IInv, Reachable, Creates, MakeDirectory, MakePart, Moves
  <1>8. Quiet'
    BY <1>1 DEF IInv, Quiet, Running, MakeDirectory, MakePart, Moves, historyVars, Destroying
  <1>9. Caged'
    BY <1>1 DEF IInv, Caged, Running, MakeDirectory, MakePart
  <1>10. DestroyedIsGone'
    BY <1>1
       DEF IInv, DestroyedIsGone, Sole, Kinds, Running, Creates, MakeDirectory, MakePart, historyVars, Creating
  <1>11. NothingUnowned'
    BY <1>1
       DEF IInv, NothingUnowned, Kinds, Running, Unowned, Serving, MakeDirectory, MakePart, Moves,
           historyVars, Creating
  <1> QED BY <1>2, <1>3, <1>4, <1>5, <1>6, <1>7, <1>8, <1>9, <1>10, <1>11 DEF IInv

LEMMA MakeSocketsKeeps ==
    ASSUME IInv, NEW r \in Requests, MakeSockets(r)
    PROVE  IInv'
  <1>1. /\ req[r].box \in Sandboxes /\ req' \in [Requests -> Request]
        /\ Moves(r, "cgroup")
    BY RequestShape, Going, Ending DEF IInv, MakeSockets, MakePart, Creating, Undoing, Stopping, Destroying
  <1>2. TypeOK'
    BY <1>1 DEF IInv, TypeOK, MakeSockets, MakePart, historyVars, Part
  <1>3. Sole'
    BY <1>1 DEF IInv, Sole, Creates, MakeSockets, MakePart, Moves, historyVars
  <1>4. Known'
    BY <1>1 DEF IInv, Known, MakeSockets, MakePart, Moves, historyVars
  <1>5. Kinds'
    BY <1>1, KindsKept DEF IInv, Kinds, MakeSockets, MakePart, Creating, Undoing, Stopping, Destroying
  <1>6. Built'
    <2>1. /\ \A s \in Sandboxes : s # req[r].box => left'[s] = left[s]
          /\ left'[req[r].box] = left[req[r].box] \cup {"sockets"}
      BY <1>1 DEF IInv, TypeOK, MakeSockets, MakePart
    <2>2. Creates(r) => left[req[r].box] = PartsAt("sockets")
      BY DEF IInv, Built, Creates, MakeSockets, MakePart, Undoing
    <2>3. PartsAt("sockets") \cup {"sockets"} = PartsAt("cgroup")
      BY DEF PartsAt, Part
    <2> QED BY <1>1, <2>1, <2>2, <2>3, BuiltKept
       DEF MakeSockets, MakePart, Creating, Undoing, Stopping, Destroying
  <1>7. Reachable'
    BY <1>1 DEF IInv, Reachable, Creates, MakeSockets, MakePart, Moves
  <1>8. Quiet'
    BY <1>1 DEF IInv, Quiet, Running, MakeSockets, MakePart, Moves, historyVars, Destroying
  <1>9. Caged'
    BY <1>1 DEF IInv, Caged, Running, MakeSockets, MakePart
  <1>10. DestroyedIsGone'
    BY <1>1
       DEF IInv, DestroyedIsGone, Sole, Kinds, Running, Creates, MakeSockets, MakePart, historyVars, Creating
  <1>11. NothingUnowned'
    BY <1>1
       DEF IInv, NothingUnowned, Kinds, Running, Unowned, Serving, MakeSockets, MakePart, Moves, historyVars,
           Creating
  <1> QED BY <1>2, <1>3, <1>4, <1>5, <1>6, <1>7, <1>8, <1>9, <1>10, <1>11 DEF IInv

LEMMA MakeCgroupKeeps ==
    ASSUME IInv, NEW r \in Requests, MakeCgroup(r)
    PROVE  IInv'
  <1>1. /\ req[r].box \in Sandboxes /\ req' \in [Requests -> Request]
        /\ Moves(r, "spawn")
    BY RequestShape, Going, Ending DEF IInv, MakeCgroup, MakePart, Creating, Undoing, Stopping, Destroying
  <1>2. TypeOK'
    BY <1>1 DEF IInv, TypeOK, MakeCgroup, MakePart, historyVars, Part
  <1>3. Sole'
    BY <1>1 DEF IInv, Sole, Creates, MakeCgroup, MakePart, Moves, historyVars
  <1>4. Known'
    BY <1>1 DEF IInv, Known, MakeCgroup, MakePart, Moves, historyVars
  <1>5. Kinds'
    BY <1>1, RequestShape, SandboxAssumption
       DEF IInv, TypeOK, Kinds, MakeCgroup, MakePart, Moves, Ends, Idle, hostVars, historyVars, Creating,
           Undoing, Stopping, Destroying
  <1>6. Built'
    <2>1. /\ \A s \in Sandboxes : s # req[r].box => left'[s] = left[s]
          /\ left'[req[r].box] = left[req[r].box] \cup {"cgroup"}
      BY <1>1 DEF IInv, TypeOK, MakeCgroup, MakePart
    <2>2. Creates(r) => left[req[r].box] = PartsAt("cgroup")
      BY DEF IInv, Built, Creates, MakeCgroup, MakePart, Undoing
    <2>3. PartsAt("cgroup") \cup {"cgroup"} = PartsAt("spawn")
      BY DEF PartsAt, Part
    <2> QED BY <1>1, <2>1, <2>2, <2>3, BuiltKept
       DEF MakeCgroup, MakePart, Creating, Undoing, Stopping, Destroying
  <1>7. Reachable'
    BY <1>1 DEF IInv, Reachable, Creates, MakeCgroup, MakePart, Moves
  <1>8. Quiet'
    BY <1>1 DEF IInv, Quiet, Running, MakeCgroup, MakePart, Moves, historyVars, Destroying
  <1>9. Caged'
    BY <1>1 DEF IInv, Caged, Running, MakeCgroup, MakePart
  <1>10. DestroyedIsGone'
    BY <1>1
       DEF IInv, DestroyedIsGone, Sole, Kinds, Running, Creates, MakeCgroup, MakePart, historyVars, Creating
  <1>11. NothingUnowned'
    BY <1>1
       DEF IInv, NothingUnowned, Kinds, Running, Unowned, Serving, MakeCgroup, MakePart, Moves, historyVars,
           Creating
  <1> QED BY <1>2, <1>3, <1>4, <1>5, <1>6, <1>7, <1>8, <1>9, <1>10, <1>11 DEF IInv

LEMMA SpawnKeeps ==
    ASSUME IInv, NEW r \in Requests, Spawn(r)
    PROVE  IInv'
  <1>1. /\ req[r].box \in Sandboxes /\ req' \in [Requests -> Request]
        /\ Moves(r, "attach")
    BY RequestShape, Going, Ending DEF IInv, Spawn, Creating, Undoing, Stopping, Destroying
  <1>2. TypeOK'
    BY <1>1 DEF IInv, TypeOK, Spawn, historyVars
  <1>3. Sole'
    BY <1>1 DEF IInv, Sole, Creates, Spawn, Moves, historyVars
  <1>4. Known'
    BY <1>1 DEF IInv, Known, Spawn, Moves, historyVars
  <1>5. Kinds'
    BY <1>1 DEF IInv, Kinds, Spawn, Moves, Creating
  <1>6. Built'
    BY <1>1 DEF IInv, Built, Creates, PartsAt, Spawn, Moves, Undoing
  <1>7. Reachable'
    BY <1>1 DEF IInv, Reachable, Creates, Spawn, Moves
  <1>8. Quiet'
    <2> SUFFICES ASSUME NEW x \in Requests, req'[x].pc # "idle", Running(req[x].box)'
                 PROVE  /\ req'[x].pc \notin Destroying
                        /\ req'[x].pc \in {"reap", "dying", "clean"} => req'[x].box \in killed'
                        /\ req'[x].pc = "clean" => "slow" \in excuse'[req'[x].box]
      BY DEF Quiet
    <2>1. CASE x = r
      BY <1>1, <2>1 DEF Moves, Destroying
    <2>2. CASE x # r
      <3>1. req'[x] = req[x]
        BY <1>1, <2>2 DEF Moves
      <3>2. Creates(r)
        BY DEF IInv, Kinds, Creates, Spawn, Creating
      <3>3. req[x].box \in Sandboxes /\ req[x].box # req[r].box
        BY <2>2, <3>1, <3>2, RequestShape DEF IInv, Sole
      <3>4. Running(req[x].box)
        BY <3>1, <3>3 DEF IInv, TypeOK, Spawn, Running
      <3> QED BY <3>1, <3>4 DEF IInv, Quiet, Spawn, historyVars
    <2> QED BY <2>1, <2>2
  <1>9. Caged'
    BY <1>1 DEF IInv, Caged, Sole, Kinds, Running, Creates, Spawn, Creating
  <1>10. DestroyedIsGone'
    BY <1>1 DEF IInv, DestroyedIsGone, Sole, Kinds, Running, Creates, Spawn, historyVars, Creating
  <1>11. NothingUnowned'
    BY <1>1 DEF IInv, NothingUnowned, Kinds, Running, Unowned, Serving, Spawn, Moves, historyVars, Creating
  <1> QED BY <1>2, <1>3, <1>4, <1>5, <1>6, <1>7, <1>8, <1>9, <1>10, <1>11 DEF IInv

LEMMA AttachKeeps ==
    ASSUME IInv, NEW r \in Requests, Attach(r)
    PROVE  IInv'
  <1>1. /\ req[r].box \in Sandboxes /\ req' \in [Requests -> Request]
        /\ Moves(r, "metadata")
    BY RequestShape, Going, Ending DEF IInv, Attach, Creating, Undoing, Stopping, Destroying
  <1>2. TypeOK'
    BY <1>1 DEF IInv, TypeOK, Attach, historyVars
  <1>3. Sole'
    BY <1>1 DEF IInv, Sole, Creates, Attach, Moves, historyVars
  <1>4. Known'
    BY <1>1 DEF IInv, Known, Attach, Moves, historyVars
  <1>5. Kinds'
    BY <1>1, RequestShape, SandboxAssumption
       DEF IInv, TypeOK, Kinds, Attach, Moves, Ends, Idle, hostVars, historyVars, Creating, Undoing, Stopping,
           Destroying
  <1>6. Built'
    BY <1>1, RequestShape, SandboxAssumption
       DEF IInv, TypeOK, Built, Sole, Kinds, Known, Creates, PartsAt, Attach, Moves, Ends, Idle, hostVars,
           historyVars, Creating, Undoing, Stopping, Destroying, Part
  <1>7. Reachable'
    BY <1>1 DEF IInv, Reachable, Creates, Attach, Moves
  <1>8. Quiet'
    BY <1>1 DEF IInv, Quiet, Running, Attach, Moves, historyVars, Destroying
  <1>9. Caged'
    BY <1>1 DEF IInv, Caged, Running, Attach
  <1>10. DestroyedIsGone'
    BY <1>1 DEF IInv, DestroyedIsGone, Running, Attach, historyVars
  <1>11. NothingUnowned'
    BY <1>1 DEF IInv, NothingUnowned, Running, Unowned, Serving, Attach, Moves, historyVars
  <1> QED BY <1>2, <1>3, <1>4, <1>5, <1>6, <1>7, <1>8, <1>9, <1>10, <1>11 DEF IInv

LEMMA WriteMetadataKeeps ==
    ASSUME IInv, NEW r \in Requests, WriteMetadata(r)
    PROVE  IInv'
  <1>1. /\ req[r].box \in Sandboxes /\ req' \in [Requests -> Request]
        /\ Moves(r, "start")
    BY RequestShape, Going, Ending DEF IInv, WriteMetadata, Creating, Undoing, Stopping, Destroying
  <1>2. TypeOK'
    BY <1>1 DEF IInv, TypeOK, WriteMetadata, historyVars
  <1>3. Sole'
    BY <1>1 DEF IInv, Sole, Creates, WriteMetadata, Moves, historyVars
  <1>4. Known'
    BY <1>1 DEF IInv, Known, WriteMetadata, Moves, historyVars
  <1>5. Kinds'
    BY <1>1 DEF IInv, Kinds, WriteMetadata, Moves, Creating
  <1>6. Built'
    BY <1>1 DEF IInv, Built, Creates, PartsAt, WriteMetadata, Moves, Undoing
  <1>7. Reachable'
    BY <1>1 DEF IInv, Reachable, Creates, WriteMetadata, Moves
  <1>8. Quiet'
    BY <1>1 DEF IInv, Quiet, Running, WriteMetadata, Moves, historyVars, Destroying
  <1>9. Caged'
    BY <1>1 DEF IInv, Caged, Running, WriteMetadata
  <1>10. DestroyedIsGone'
    BY <1>1 DEF IInv, DestroyedIsGone, Running, WriteMetadata, historyVars
  <1>11. NothingUnowned'
    BY <1>1 DEF IInv, NothingUnowned, Running, Unowned, Serving, WriteMetadata, Moves, historyVars
  <1> QED BY <1>2, <1>3, <1>4, <1>5, <1>6, <1>7, <1>8, <1>9, <1>10, <1>11 DEF IInv

LEMMA StartKeeps ==
    ASSUME IInv, NEW r \in Requests, Start(r)
    PROVE  IInv'
  <1>1. /\ req[r].box \in Sandboxes /\ req' \in [Requests -> Request]
        /\ Moves(r, "look")
    BY RequestShape, Going, Ending DEF IInv, Start, Creating, Undoing, Stopping, Destroying
  <1>2. TypeOK'
    BY <1>1 DEF IInv, TypeOK, Start, hostVars, historyVars
  <1>3. Sole'
    BY <1>1 DEF IInv, Sole, Creates, Start, Moves, historyVars
  <1>4. Known'
    BY <1>1 DEF IInv, Known, Start, Moves, hostVars, historyVars
  <1>5. Kinds'
    BY <1>1 DEF IInv, Kinds, Start, Moves, Creating
  <1>6. Built'
    BY <1>1 DEF IInv, Built, Creates, PartsAt, Start, Moves, hostVars, Undoing
  <1>7. Reachable'
    BY <1>1 DEF IInv, Reachable, Creates, Start, Moves
  <1>8. Quiet'
    BY <1>1, QuietKept DEF Start, hostVars, historyVars, Creating, Undoing, Stopping, Destroying
  <1>9. Caged'
    BY <1>1 DEF IInv, Caged, Running, Start, hostVars
  <1>10. DestroyedIsGone'
    BY <1>1 DEF IInv, DestroyedIsGone, Running, Start, hostVars, historyVars
  <1>11. NothingUnowned'
    BY <1>1 DEF IInv, NothingUnowned, Running, Unowned, Serving, Start, Moves, hostVars, historyVars
  <1> QED BY <1>2, <1>3, <1>4, <1>5, <1>6, <1>7, <1>8, <1>9, <1>10, <1>11 DEF IInv

LEMMA LookForDuplicateKeeps ==
    ASSUME IInv, NEW r \in Requests, LookForDuplicate(r)
    PROVE  IInv'
  <1>1. /\ req[r].box \in Sandboxes /\ req' \in [Requests -> Request]
        /\ Moves(r, "bind")
    BY RequestShape, Going, Ending DEF IInv, LookForDuplicate, Creating, Undoing, Stopping, Destroying
  <1>2. TypeOK'
    BY <1>1 DEF IInv, TypeOK, LookForDuplicate, hostVars, historyVars
  <1>3. Sole'
    BY <1>1 DEF IInv, Sole, Creates, LookForDuplicate, Moves, historyVars
  <1>4. Known'
    BY <1>1 DEF IInv, Known, LookForDuplicate, Moves, hostVars, historyVars
  <1>5. Kinds'
    BY <1>1 DEF IInv, Kinds, LookForDuplicate, Moves, Creating
  <1>6. Built'
    BY <1>1 DEF IInv, Built, Creates, PartsAt, LookForDuplicate, Moves, hostVars, Undoing
  <1>7. Reachable'
    BY <1>1 DEF IInv, Reachable, Creates, LookForDuplicate, Moves
  <1>8. Quiet'
    BY <1>1 DEF IInv, Quiet, Running, LookForDuplicate, Moves, hostVars, historyVars, Destroying
  <1>9. Caged'
    BY <1>1 DEF IInv, Caged, Running, LookForDuplicate, hostVars
  <1>10. DestroyedIsGone'
    BY <1>1 DEF IInv, DestroyedIsGone, Running, LookForDuplicate, hostVars, historyVars
  <1>11. NothingUnowned'
    BY <1>1 DEF IInv, NothingUnowned, Running, Unowned, Serving, LookForDuplicate, Moves, hostVars, historyVars
  <1> QED BY <1>2, <1>3, <1>4, <1>5, <1>6, <1>7, <1>8, <1>9, <1>10, <1>11 DEF IInv

LEMMA BindKeeps ==
    ASSUME IInv, NEW r \in Requests, Bind(r)
    PROVE  IInv'
  <1>1. /\ req[r].box \in Sandboxes /\ req' \in [Requests -> Request]
        /\ Ends(r)
    BY RequestShape, Going, Ending DEF IInv, Bind, Creating, Undoing, Stopping, Destroying
  <1>2. TypeOK'
    BY <1>1 DEF IInv, TypeOK, Bind, hostVars, historyVars
  <1>3. Sole'
    BY <1>1, RequestShape, SandboxAssumption DEF IInv, Sole, Creates, Bind, Ends, Idle, historyVars
  <1>4. Known'
    BY <1>1 DEF IInv, Known, Bind, Ends, Idle, hostVars, historyVars
  <1>5. Kinds'
    BY <1>1 DEF IInv, Kinds, Ends, Idle, Creating, Undoing, Destroying
  <1>6. Built'
    BY <1>1 DEF IInv, Built, Creates, Bind, Ends, Idle, hostVars
  <1>7. Reachable'
    BY <1>1 DEF IInv, Reachable, Creates, Bind, Ends, Idle
  <1>8. Quiet'
    BY <1>1 DEF IInv, Quiet, Running, Bind, Ends, Idle, hostVars, historyVars
  <1>9. Caged'
    <2>1. left' = left /\ process' = process /\ binding' = binding \cup {req[r].box}
      BY DEF Bind, hostVars
    <2>2. left[req[r].box] = PartsAt("bind")
      BY DEF IInv, Built, Kinds, Creates, Bind, Creating, Undoing
    <2>3. "cgroup" \in left[req[r].box]
      BY <2>2 DEF PartsAt, Part
    <2> QED BY <2>1, <2>3 DEF IInv, Caged, Running
  <1>10. DestroyedIsGone'
    BY <1>1 DEF IInv, DestroyedIsGone, Running, Bind, hostVars, historyVars
  <1>11. NothingUnowned'
    BY <1>1 DEF IInv, NothingUnowned, Running, Unowned, Serving, Bind, Ends, hostVars, historyVars
  <1> QED BY <1>2, <1>3, <1>4, <1>5, <1>6, <1>7, <1>8, <1>9, <1>10, <1>11 DEF IInv

LEMMA AbortKeeps ==
    ASSUME IInv, NEW r \in Requests, Abort(r)
    PROVE  IInv'
  <1>1. /\ req[r].box \in Sandboxes /\ req' \in [Requests -> Request]
        /\ \/ Moves(r, "reap") /\ Running(req[r].box) /\ killed' = killed \cup {req[r].box}
           \/ Moves(r, "clean") /\ ~Running(req[r].box) /\ killed' = killed
    BY RequestShape, Going, Ending DEF IInv, Abort, Creating, Undoing, Stopping, Destroying
  <1>2. TypeOK'
    BY <1>1 DEF IInv, TypeOK, Abort, historyVars
  <1>3. Sole'
    BY <1>1 DEF IInv, Sole, Creates, Abort, Moves, historyVars
  <1>4. Known'
    BY <1>1 DEF IInv, Known, Abort, Moves, historyVars
  <1>5. Kinds'
    BY <1>1 DEF IInv, Kinds, Abort, Moves, Undoing
  <1>6. Built'
    BY <1>1, BuiltKept DEF Abort, Creating, Undoing, Stopping, Destroying
  <1>7. Reachable'
    BY <1>1 DEF IInv, Reachable, Creates, Abort, Moves
  <1>8. Quiet'
    <2>1. CASE Moves(r, "reap") /\ killed' = killed \cup {req[r].box}
      BY <2>1, QuietKept DEF Abort, historyVars, Creating, Undoing, Stopping, Destroying
    <2>2. CASE Moves(r, "clean") /\ ~Running(req[r].box) /\ killed' = killed
      BY <2>2, QuietKept DEF Abort, historyVars, Creating, Undoing, Stopping, Destroying
    <2> QED BY <1>1, <2>1, <2>2
  <1>9. Caged'
    BY <1>1 DEF IInv, Caged, Running, Abort
  <1>10. DestroyedIsGone'
    BY <1>1 DEF IInv, DestroyedIsGone, Running, Abort, historyVars
  <1>11. NothingUnowned'
    BY <1>1 DEF IInv, NothingUnowned, Running, Unowned, Serving, Abort, Moves, historyVars
  <1> QED BY <1>2, <1>3, <1>4, <1>5, <1>6, <1>7, <1>8, <1>9, <1>10, <1>11 DEF IInv

LEMMA ReapKeeps ==
    ASSUME IInv, NEW r \in Requests, Reap(r)
    PROVE  IInv'
  <1>1. /\ req[r].box \in Sandboxes /\ req' \in [Requests -> Request]
        /\ Moves(r, "clean")
    BY RequestShape, Going, Ending, SMTT(20) DEF IInv, Reap, Creating, Undoing, Stopping, Destroying
  <1>2. TypeOK'
    BY <1>1 DEF IInv, TypeOK, Reap, Blame, hostVars, Excuse
  <1>3. Sole'
    BY <1>1 DEF IInv, Sole, Creates, Reap, Moves
  <1>4. Known'
    BY <1>1 DEF IInv, Known, Reap, Moves, hostVars
  <1>5. Kinds'
    BY <1>1 DEF IInv, Kinds, Reap, Moves, Undoing
  <1>6. Built'
    BY <1>1 DEF IInv, Built, Creates, Reap, Moves, hostVars, Undoing
  <1>7. Reachable'
    BY <1>1 DEF IInv, Reachable, Creates, Reap, Moves
  <1>8. Quiet'
    BY <1>1 DEF IInv, TypeOK, Quiet, Running, Reap, Blame, Moves, hostVars, Destroying
  <1>9. Caged'
    BY <1>1 DEF IInv, Caged, Running, Reap, hostVars
  <1>10. DestroyedIsGone'
    BY <1>1 DEF IInv, DestroyedIsGone, Running, Reap, hostVars
  <1>11. NothingUnowned'
    BY <1>1 DEF IInv, NothingUnowned, Running, Unowned, Serving, Reap, Blame, Moves, hostVars
  <1> QED BY <1>2, <1>3, <1>4, <1>5, <1>6, <1>7, <1>8, <1>9, <1>10, <1>11 DEF IInv

LEMMA CleanUpKeeps ==
    ASSUME IInv, NEW r \in Requests, CleanUp(r)
    PROVE  IInv'
  <1>1. /\ req[r].box \in Sandboxes /\ req' \in [Requests -> Request]
        /\ Ends(r)
    BY RequestShape, Going, Ending DEF IInv, CleanUp, Creating, Undoing, Stopping, Destroying
  <1>2. TypeOK'
    BY <1>1, FaultAssumption DEF IInv, TypeOK, CleanUp, Blame, Excuse
  <1>3. Sole'
    BY <1>1, RequestShape, SandboxAssumption DEF IInv, Sole, Creates, CleanUp, Ends, Idle
  <1>4. Known'
    BY <1>1 DEF IInv, Known, CleanUp, Ends, Idle
  <1>5. Kinds'
    BY <1>1 DEF IInv, Kinds, Ends, Idle, Creating, Undoing, Destroying
  <1>6. Built'
    BY <1>1 DEF IInv, Built, Sole, Creates, CleanUp, Ends, Idle
  <1>7. Reachable'
    BY <1>1 DEF IInv, Reachable, Creates, CleanUp, Ends, Idle
  <1>8. Quiet'
    BY <1>1 DEF IInv, Quiet, Running, CleanUp, Blame, Ends, Idle
  <1>9. Caged'
    BY <1>1 DEF IInv, Caged, Sole, Kinds, Running, Creates, CleanUp, Undoing
  <1>10. DestroyedIsGone'
    BY <1>1 DEF IInv, DestroyedIsGone, Running, CleanUp
  <1>11. NothingUnowned'
    <2> PICK s \in Sandboxes : s = req[r].box
      BY <1>1
    <2>1. PICK kept \in SUBSET left[s] :
            /\ Stuck(s) \subseteq kept
            /\ left' = [left EXCEPT ![s] = kept]
            /\ excuse' = [excuse EXCEPT ![s] = @ \cup IF kept # Stuck(s) THEN {"failed"} ELSE {}]
      BY DEF CleanUp, Blame
    <2>2. process' = process /\ killed' = killed /\ used' = used /\ binding' = binding
      BY DEF CleanUp
    <2>3. \A x \in Sandboxes : excuse[x] \subseteq excuse'[x] /\ (x # s => left'[x] = left[x])
      BY <1>1, <2>1 DEF IInv, TypeOK
    <2>4. excuse'[s] = excuse[s] \cup IF kept # Stuck(s) THEN {"failed"} ELSE {}
      BY <1>1, <2>1 DEF IInv, TypeOK
    <2>5. left'[s] = kept
      BY <1>1, <2>1 DEF IInv, TypeOK
    <2>6. Running(s) => s \in killed /\ "slow" \in excuse[s]
      BY DEF IInv, Quiet, CleanUp
    <2>7. left'[s] # {} => excuse'[s] # {}
      BY <2>4, <2>5, <2>6 DEF Stuck
    <2>8. Running(s)' => s \in killed'
      BY <2>2, <2>6 DEF Running
    <2> QED BY <1>1, <2>2, <2>3, <2>7, <2>8, OthersOwned DEF Steps, CleanUp
  <1> QED BY <1>2, <1>3, <1>4, <1>5, <1>6, <1>7, <1>8, <1>9, <1>10, <1>11 DEF IInv

LEMMA StateKeeps ==
    ASSUME IInv, NEW r \in Requests, State(r)
    PROVE  IInv'
  <1>1. /\ req[r].box \in Sandboxes /\ req' \in [Requests -> Request]
        /\ \/ Moves(r, "stop") /\ req[r].box \in held /\ req[r].op # "use" /\ excuse' = excuse
           \/ Moves(r, "adopt") /\ req[r].box \notin held /\ excuse' = excuse
           \/ Ends(r) /\ req[r].op = "use" /\ excuse' = excuse
           \/ Ends(r) /\ req[r].box \notin held
    BY RequestShape, Going, Ending DEF IInv, State, AfterState, Creating, Undoing, Stopping, Destroying
  <1>2. TypeOK'
    BY <1>1 DEF IInv, TypeOK, State, Blame, hostVars, Excuse
  <1>3. Sole'
    BY <1>1, RequestShape, SandboxAssumption DEF IInv, Sole, Creates, State, Moves, Ends, Idle
  <1>4. Known'
    BY <1>1 DEF IInv, Known, State, Moves, Ends, Idle, hostVars
  <1>5. Kinds'
    <2>1. CASE Moves(r, "stop") /\ req[r].op # "use"
      BY <2>1, KindsKept DEF Creating, Undoing, Stopping, Destroying
    <2>2. CASE Moves(r, "adopt") /\ req[r].op # "create"
      BY <2>2, KindsKept DEF Creating, Undoing, Stopping, Destroying
    <2>3. CASE Ends(r)
      BY <2>3 DEF IInv, Kinds, Ends, Idle, Creating, Undoing, Stopping, Destroying
    <2>4. req[r].op = "create" => req[r].box \in held
      BY <1>1, RequestShape DEF IInv, Reachable, Creates, State
    <2> QED BY <1>1, <2>1, <2>2, <2>3, <2>4
  <1>6. Built'
    BY <1>1 DEF IInv, Built, Creates, PartsAt, State, Moves, Ends, Idle, hostVars, Undoing
  <1>7. Reachable'
    BY <1>1 DEF IInv, Reachable, Creates, State, Moves, Ends, Idle
  <1>8. Quiet'
    BY <1>1 DEF IInv, TypeOK, Quiet, Running, State, Blame, Moves, Ends, Idle, hostVars, Destroying
  <1>9. Caged'
    BY <1>1 DEF IInv, Caged, Running, State, hostVars
  <1>10. DestroyedIsGone'
    BY <1>1 DEF IInv, DestroyedIsGone, Running, State, hostVars
  <1>11. NothingUnowned'
    BY <1>1
       DEF IInv, TypeOK, NothingUnowned, Reachable, Running, Creates, Unowned, Serving, State, Blame, Moves,
           Ends, hostVars
  <1> QED BY <1>2, <1>3, <1>4, <1>5, <1>6, <1>7, <1>8, <1>9, <1>10, <1>11 DEF IInv

LEMMA AdoptKeeps ==
    ASSUME IInv, NEW r \in Requests, Adopt(r)
    PROVE  IInv'
  <1>1. /\ req[r].box \in Sandboxes /\ req' \in [Requests -> Request]
        /\ \/ Moves(r, "stop") /\ req[r].op # "use"
           \/ Ends(r)
    BY RequestShape, Going, Ending DEF IInv, Adopt, AfterState, Creating, Undoing, Stopping, Destroying
  <1>2. TypeOK'
    BY <1>1 DEF IInv, TypeOK, Adopt, hostVars, historyVars
  <1>3. Sole'
    BY <1>1, RequestShape, SandboxAssumption DEF IInv, Sole, Creates, Adopt, Moves, Ends, Idle, historyVars
  <1>4. Known'
    BY <1>1 DEF IInv, Known, Adopt, Moves, Ends, Idle, hostVars, historyVars
  <1>5. Kinds'
    BY <1>1 DEF IInv, Kinds, Moves, Ends, Idle, Creating, Undoing, Destroying
  <1>6. Built'
    BY <1>1 DEF IInv, Built, Kinds, Creates, Adopt, Moves, Ends, Idle, hostVars
  <1>7. Reachable'
    BY <1>1 DEF IInv, Reachable, Creates, Adopt, Moves, Ends, Idle
  <1>8. Quiet'
    BY <1>1 DEF IInv, Quiet, Running, Adopt, Moves, Ends, Idle, hostVars, historyVars, Destroying
  <1>9. Caged'
    BY <1>1 DEF IInv, Caged, Running, Adopt, hostVars
  <1>10. DestroyedIsGone'
    BY <1>1 DEF IInv, DestroyedIsGone, Running, Adopt, hostVars, historyVars
  <1>11. NothingUnowned'
    BY <1>1
       DEF IInv, NothingUnowned, Kinds, Running, Unowned, Serving, Adopt, Moves, Ends, hostVars, historyVars
  <1> QED BY <1>2, <1>3, <1>4, <1>5, <1>6, <1>7, <1>8, <1>9, <1>10, <1>11 DEF IInv

LEMMA StopKeeps ==
    ASSUME IInv, NEW r \in Requests, Stop(r)
    PROVE  IInv'
  <1>1. /\ req[r].box \in Sandboxes /\ req' \in [Requests -> Request]
        /\ \/ Moves(r, "asked")
           \/ Moves(r, "release") /\ ~Running(req[r].box) /\ req[r].op # "terminate"
           \/ Ends(r) /\ req[r].op = "terminate"
    BY RequestShape, Going, Ending DEF IInv, Stop, AfterStop, Creating, Undoing, Stopping, Destroying
  <1>2. TypeOK'
    BY <1>1 DEF IInv, TypeOK, Stop, hostVars, historyVars
  <1>3. Sole'
    BY <1>1, RequestShape, SandboxAssumption DEF IInv, Sole, Creates, Stop, Moves, Ends, Idle, historyVars
  <1>4. Known'
    BY <1>1 DEF IInv, Known, Stop, Moves, Ends, Idle, hostVars, historyVars
  <1>5. Kinds'
    <2>0. req[r].pc \in {"stop", "asked", "dying"} => req[r].op # "use"
      BY DEF IInv, Kinds
    <2>1. CASE Moves(r, "asked") /\ req[r].pc = "stop"
      BY <2>1, <2>0, RequestShape, KindsKept DEF IInv, Kinds, Op, Creating, Undoing, Stopping, Destroying
    <2>2. CASE Moves(r, "release") /\ req[r].op # "terminate" /\ req[r].pc \in {"stop", "asked", "dying"}
      BY <2>2, <2>0, RequestShape, KindsKept DEF IInv, Kinds, Op, Creating, Undoing, Stopping, Destroying
    <2>3. CASE Ends(r)
      BY <2>3 DEF IInv, Kinds, Ends, Idle, Creating, Undoing, Stopping, Destroying
    <2> QED BY <1>1, <2>1, <2>2, <2>3 DEF Stop
  <1>6. Built'
    BY <1>1 DEF IInv, Built, Creates, PartsAt, Stop, Moves, Ends, Idle, hostVars, Undoing
  <1>7. Reachable'
    BY <1>1 DEF IInv, Reachable, Creates, Stop, Moves, Ends, Idle
  <1>8. Quiet'
    BY <1>1 DEF IInv, Quiet, Running, Stop, Moves, Ends, Idle, hostVars, historyVars, Destroying
  <1>9. Caged'
    BY <1>1 DEF IInv, Caged, Running, Stop, hostVars
  <1>10. DestroyedIsGone'
    BY <1>1 DEF IInv, DestroyedIsGone, Running, Stop, hostVars, historyVars
  <1>11. NothingUnowned'
    BY <1>1 DEF IInv, NothingUnowned, Running, Unowned, Serving, Stop, Moves, Ends, hostVars, historyVars
  <1> QED BY <1>2, <1>3, <1>4, <1>5, <1>6, <1>7, <1>8, <1>9, <1>10, <1>11 DEF IInv

LEMMA KillKeeps ==
    ASSUME IInv, NEW r \in Requests, Kill(r)
    PROVE  IInv'
  <1>1. /\ req[r].box \in Sandboxes /\ req' \in [Requests -> Request]
        /\ \/ Moves(r, "dying") /\ killed' = killed \cup {req[r].box}
           \/ Moves(r, "release") /\ ~Running(req[r].box) /\ req[r].op # "terminate" /\ killed' = killed
           \/ Ends(r) /\ req[r].op = "terminate" /\ killed' = killed
    BY RequestShape, Going, Ending DEF IInv, Kill, AfterStop, Creating, Undoing, Stopping, Destroying
  <1>2. TypeOK'
    BY <1>1 DEF IInv, TypeOK, Kill, historyVars
  <1>3. Sole'
    BY <1>1, RequestShape, SandboxAssumption DEF IInv, Sole, Creates, Kill, Moves, Ends, Idle, historyVars
  <1>4. Known'
    BY <1>1 DEF IInv, Known, Kill, Moves, Ends, Idle, historyVars
  <1>5. Kinds'
    <2>0. req[r].pc \in {"stop", "asked", "dying"} => req[r].op # "use"
      BY DEF IInv, Kinds
    <2>1. CASE Moves(r, "dying") /\ req[r].pc = "asked"
      BY <2>1, <2>0, RequestShape, KindsKept DEF IInv, Kinds, Op, Creating, Undoing, Stopping, Destroying
    <2>2. CASE Moves(r, "release") /\ req[r].op # "terminate" /\ req[r].pc \in {"stop", "asked", "dying"}
      BY <2>2, <2>0, RequestShape, KindsKept DEF IInv, Kinds, Op, Creating, Undoing, Stopping, Destroying
    <2>3. CASE Ends(r)
      BY <2>3 DEF IInv, Kinds, Ends, Idle, Creating, Undoing, Stopping, Destroying
    <2> QED BY <1>1, <2>1, <2>2, <2>3 DEF Kill
  <1>6. Built'
    BY <1>1 DEF IInv, Built, Creates, PartsAt, Kill, Moves, Ends, Idle, Undoing
  <1>7. Reachable'
    BY <1>1 DEF IInv, Reachable, Creates, Kill, Moves, Ends, Idle
  <1>8. Quiet'
    BY <1>1 DEF IInv, Quiet, Running, Kill, Moves, Ends, Idle, historyVars, Destroying
  <1>9. Caged'
    BY <1>1 DEF IInv, Caged, Running, Kill
  <1>10. DestroyedIsGone'
    BY <1>1 DEF IInv, DestroyedIsGone, Running, Kill, historyVars
  <1>11. NothingUnowned'
    BY <1>1 DEF IInv, NothingUnowned, Running, Unowned, Serving, Kill, Moves, Ends, historyVars
  <1> QED BY <1>2, <1>3, <1>4, <1>5, <1>6, <1>7, <1>8, <1>9, <1>10, <1>11 DEF IInv

LEMMA EndOfWaitKeeps ==
    ASSUME IInv, NEW r \in Requests, EndOfWait(r)
    PROVE  IInv'
  <1>1. /\ req[r].box \in Sandboxes /\ req' \in [Requests -> Request]
        /\ \/ Moves(r, "release") /\ ~Running(req[r].box) /\ req[r].op # "terminate" /\ excuse' = excuse
           \/ Ends(r) /\ req[r].op = "terminate" /\ excuse' = excuse
           \/ Ends(r) /\ Blame(req[r].box, {"slow"})
    BY RequestShape, Going, Ending DEF IInv, EndOfWait, AfterStop, Creating, Undoing, Stopping, Destroying
  <1>2. TypeOK'
    BY <1>1 DEF IInv, TypeOK, EndOfWait, Blame, hostVars, Excuse
  <1>3. Sole'
    BY <1>1, RequestShape, SandboxAssumption DEF IInv, Sole, Creates, EndOfWait, Moves, Ends, Idle
  <1>4. Known'
    BY <1>1 DEF IInv, Known, EndOfWait, Moves, Ends, Idle, hostVars
  <1>5. Kinds'
    <2>0. req[r].pc \in {"stop", "asked", "dying"} => req[r].op # "use"
      BY DEF IInv, Kinds
    <2>1. CASE Moves(r, "release") /\ req[r].op # "terminate" /\ req[r].pc \in {"stop", "asked", "dying"}
      BY <2>1, <2>0, RequestShape, KindsKept DEF IInv, Kinds, Op, Creating, Undoing, Stopping, Destroying
    <2>2. CASE Ends(r)
      BY <2>2 DEF IInv, Kinds, Ends, Idle, Creating, Undoing, Stopping, Destroying
    <2> QED BY <1>1, <2>1, <2>2 DEF EndOfWait
  <1>6. Built'
    BY <1>1 DEF IInv, Built, Creates, PartsAt, EndOfWait, Moves, Ends, Idle, hostVars, Undoing
  <1>7. Reachable'
    BY <1>1 DEF IInv, Reachable, Creates, EndOfWait, Moves, Ends, Idle
  <1>8. Quiet'
    BY <1>1 DEF IInv, TypeOK, Quiet, Running, EndOfWait, Blame, Moves, Ends, Idle, hostVars
  <1>9. Caged'
    BY <1>1 DEF IInv, Caged, Running, EndOfWait, hostVars
  <1>10. DestroyedIsGone'
    BY <1>1 DEF IInv, DestroyedIsGone, Running, EndOfWait, hostVars
  <1>11. NothingUnowned'
    <2>1. /\ used' = used /\ binding' = binding /\ process' = process /\ killed \subseteq killed'
          /\ \A s \in Sandboxes : excuse[s] \subseteq excuse'[s] /\ left'[s] \subseteq left[s]
          /\ \A s \in Sandboxes : s # req[r].box => left'[s] = left[s]
          /\ Steps(r)
      BY <1>1
         DEF IInv, TypeOK, Steps, EndOfWait, AfterStop, Blame, hostVars, Creating, Undoing, Stopping, Destroying
    <2> PICK s \in Sandboxes : s = req[r].box
      BY <1>1
    <2> SUFFICES ASSUME Unowned(s)'
                 PROVE  /\ left'[s] # {} => excuse'[s] # {}
                        /\ Running(s)' => s \in killed' \/ excuse'[s] \cap {"crash", "unread"} # {}
      BY <1>1, <2>1, OthersOwned DEF EndOfWait
    <2>2. ASSUME req[r].op # "create"
          PROVE  Unowned(s)
      BY <1>1, <2>1, <2>2 DEF Unowned, Serving, Steps, Moves, Ends, Idle
    <2>3. CASE Unowned(s)
      BY <1>1, <2>1, <2>3 DEF IInv, NothingUnowned, Running
    <2>4. ASSUME req[r].op = "create"
          PROVE  Ends(r)
      BY <1>1, <2>4 DEF Unowned, Serving, Moves
    <2>5. CASE req[r].op = "create"
      <3>1. excuse'[s] = excuse[s] \cup {"slow"}
        BY <1>1, <2>4, <2>5 DEF IInv, TypeOK, EndOfWait, Blame, Ends, Moves, Idle
      <3>2. Running(s) => s \in killed
        BY DEF IInv, Quiet, EndOfWait
      <3> QED BY <2>1, <3>1, <3>2 DEF Running
    <2> QED BY <2>2, <2>3, <2>5
  <1> QED BY <1>2, <1>3, <1>4, <1>5, <1>6, <1>7, <1>8, <1>9, <1>10, <1>11 DEF IInv

LEMMA ReleaseCgroupKeeps ==
    ASSUME IInv, NEW r \in Requests, ReleaseCgroup(r)
    PROVE  IInv'
  <1>1. /\ req[r].box \in Sandboxes /\ req' \in [Requests -> Request]
        /\ \/ Moves(r, "remove") /\ "cgroup" \in left[req[r].box]
           \/ Ends(r) /\ "cgroup" \notin left[req[r].box]
    BY RequestShape, Going, Ending DEF IInv, ReleaseCgroup, Remove, Creating, Undoing, Stopping, Destroying
  <1>2. TypeOK'
    BY <1>1 DEF IInv, TypeOK, ReleaseCgroup, Remove, Without, historyVars
  <1>3. Sole'
    BY <1>1, RequestShape, SandboxAssumption
       DEF IInv, Sole, Creates, ReleaseCgroup, Moves, Ends, Idle, historyVars
  <1>4. Known'
    BY <1>1 DEF IInv, Known, ReleaseCgroup, Remove, Without, Moves, Ends, Idle, historyVars
  <1>5. Kinds'
    BY <1>1 DEF IInv, Kinds, ReleaseCgroup, Remove, Moves, Ends, Idle, Creating, Undoing, Destroying
  <1>6. Built'
    <2>1. /\ \A s \in Sandboxes : s # req[r].box => left'[s] = left[s]
          /\ left'[req[r].box] = left[req[r].box] \ {"cgroup"}
      BY <1>1 DEF IInv, TypeOK, ReleaseCgroup, Remove, Without
    <2>2. Creates(r) => left[req[r].box] = PartsAt("release")
      BY DEF IInv, Built, Creates, ReleaseCgroup, Remove, Undoing
    <2>3. PartsAt("release") \ {"cgroup"} = PartsAt("remove")
      BY DEF PartsAt, Part
    <2>4. CASE Moves(r, "remove")
      BY <2>1, <2>2, <2>3, <2>4, BuiltKept DEF ReleaseCgroup, Remove, Creating, Undoing, Stopping, Destroying
    <2>5. CASE Ends(r)
      <3> SUFFICES ASSUME NEW x \in Requests, Creates(x)', req'[x].pc \notin Undoing
                   PROVE  left'[req'[x].box] = PartsAt(req'[x].pc)
        BY DEF Built
      <3>1. x # r /\ req'[x] = req[x] /\ Creates(x)
        BY <2>5 DEF Ends, Creates, Idle
      <3>2. req[x].box \in Sandboxes /\ req[x].box # req[r].box
        BY <3>1, RequestShape DEF IInv, Creates, Sole
      <3> QED BY <2>1, <3>1, <3>2 DEF IInv, Built
    <2> QED BY <1>1, <2>4, <2>5
  <1>7. Reachable'
    BY <1>1 DEF IInv, Reachable, Creates, ReleaseCgroup, Moves, Ends, Idle
  <1>8. Quiet'
    BY <1>1, RequestShape
       DEF IInv, Quiet, Running, ReleaseCgroup, Remove, Moves, Ends, Idle, historyVars, Creating, Undoing,
           Stopping
  <1>9. Caged'
    BY RequestShape
       DEF IInv, Caged, Sole, Kinds, Quiet, Running, Creates, ReleaseCgroup, Remove, Without, Stopping
  <1>10. DestroyedIsGone'
    BY <1>1 DEF IInv, DestroyedIsGone, Running, ReleaseCgroup, Remove, Without, historyVars
  <1>11. NothingUnowned'
    <2>1. /\ used' = used /\ binding' = binding /\ process' = process /\ killed \subseteq killed'
          /\ \A s \in Sandboxes : excuse[s] \subseteq excuse'[s] /\ left'[s] \subseteq left[s]
          /\ \A s \in Sandboxes : s # req[r].box => left'[s] = left[s]
          /\ Steps(r)
      BY <1>1
         DEF IInv, TypeOK, Steps, ReleaseCgroup, Remove, Without, historyVars, Creating, Undoing, Stopping,
             Destroying
    <2> PICK s \in Sandboxes : s = req[r].box
      BY <1>1
    <2> SUFFICES ASSUME Unowned(s)'
                 PROVE  /\ left'[s] # {} => excuse'[s] # {}
                        /\ Running(s)' => s \in killed' \/ excuse'[s] \cap {"crash", "unread"} # {}
      BY <1>1, <2>1, OthersOwned DEF ReleaseCgroup, Remove
    <2>2. ASSUME req[r].op # "create"
          PROVE  Unowned(s)
      BY <1>1, <2>1, <2>2 DEF Unowned, Serving, Steps, Moves, Ends, Idle
    <2>3. CASE Unowned(s)
      BY <1>1, <2>1, <2>3 DEF IInv, NothingUnowned, Running
    <2>4. ASSUME req[r].op = "create"
          PROVE  Ends(r)
      BY <1>1, <2>4 DEF Unowned, Serving, Moves
    <2>5. req[r].op # "create"
      <3> SUFFICES ASSUME req[r].op = "create"
                   PROVE  FALSE
        OBVIOUS
      <3>1. left[s] = PartsAt("release")
        BY DEF IInv, Built, Creates, ReleaseCgroup, Remove, Undoing
      <3>2. "cgroup" \in left[s]
        BY <3>1 DEF PartsAt, Part
      <3> QED BY <1>1, <2>4, <3>2 DEF Ends, Moves, Idle
    <2> QED BY <2>2, <2>3, <2>5
  <1> QED BY <1>2, <1>3, <1>4, <1>5, <1>6, <1>7, <1>8, <1>9, <1>10, <1>11 DEF IInv

LEMMA RemoveDirectoryKeeps ==
    ASSUME IInv, NEW r \in Requests, RemoveDirectory(r)
    PROVE  IInv'
  <1>1. /\ req[r].box \in Sandboxes /\ req' \in [Requests -> Request]
        /\ \/ Moves(r, "unlink") /\ "directory" \in left[req[r].box]
           \/ Ends(r) /\ "directory" \notin left[req[r].box]
    BY RequestShape, Going, Ending DEF IInv, RemoveDirectory, Remove, Creating, Undoing, Stopping, Destroying
  <1>2. TypeOK'
    BY <1>1 DEF IInv, TypeOK, RemoveDirectory, Remove, Without, historyVars
  <1>3. Sole'
    BY <1>1, RequestShape, SandboxAssumption
       DEF IInv, Sole, Creates, RemoveDirectory, Moves, Ends, Idle, historyVars
  <1>4. Known'
    BY <1>1 DEF IInv, Known, RemoveDirectory, Remove, Without, Moves, Ends, Idle, historyVars
  <1>5. Kinds'
    BY <1>1 DEF IInv, Kinds, RemoveDirectory, Remove, Moves, Ends, Idle, Creating, Undoing, Destroying
  <1>6. Built'
    <2>1. /\ \A s \in Sandboxes : s # req[r].box => left'[s] = left[s]
          /\ left'[req[r].box] = left[req[r].box] \ {"directory"}
      BY <1>1 DEF IInv, TypeOK, RemoveDirectory, Remove, Without
    <2>2. Creates(r) => left[req[r].box] = PartsAt("remove")
      BY DEF IInv, Built, Creates, RemoveDirectory, Remove, Undoing
    <2>3. PartsAt("remove") \ {"directory"} = PartsAt("unlink")
      BY DEF PartsAt, Part
    <2>4. CASE Moves(r, "unlink")
      BY <2>1, <2>2, <2>3, <2>4, BuiltKept DEF RemoveDirectory, Remove, Creating, Undoing, Stopping, Destroying
    <2>5. CASE Ends(r)
      <3> SUFFICES ASSUME NEW x \in Requests, Creates(x)', req'[x].pc \notin Undoing
                   PROVE  left'[req'[x].box] = PartsAt(req'[x].pc)
        BY DEF Built
      <3>1. x # r /\ req'[x] = req[x] /\ Creates(x)
        BY <2>5 DEF Ends, Creates, Idle
      <3>2. req[x].box \in Sandboxes /\ req[x].box # req[r].box
        BY <3>1, RequestShape DEF IInv, Creates, Sole
      <3> QED BY <2>1, <3>1, <3>2 DEF IInv, Built
    <2> QED BY <1>1, <2>4, <2>5
  <1>7. Reachable'
    BY <1>1 DEF IInv, Reachable, Creates, RemoveDirectory, Moves, Ends, Idle
  <1>8. Quiet'
    BY <1>1, RequestShape
       DEF IInv, Quiet, Running, RemoveDirectory, Remove, Moves, Ends, Idle, historyVars, Creating, Undoing,
           Stopping
  <1>9. Caged'
    BY <1>1 DEF IInv, Caged, Running, RemoveDirectory, Remove, Without
  <1>10. DestroyedIsGone'
    BY <1>1 DEF IInv, DestroyedIsGone, Running, RemoveDirectory, Remove, Without, historyVars
  <1>11. NothingUnowned'
    BY <1>1
       DEF IInv, NothingUnowned, Built, Running, Creates, PartsAt, Unowned, Serving, RemoveDirectory, Remove,
           Without, Moves, Ends, historyVars, Undoing
  <1> QED BY <1>2, <1>3, <1>4, <1>5, <1>6, <1>7, <1>8, <1>9, <1>10, <1>11 DEF IInv

LEMMA RemoveSocketsKeeps ==
    ASSUME IInv, NEW r \in Requests, RemoveSockets(r)
    PROVE  IInv'
  <1>1. /\ req[r].box \in Sandboxes /\ req' \in [Requests -> Request]
        /\ \/ Moves(r, "unbind") /\ "sockets" \in left[req[r].box]
           \/ Ends(r) /\ "sockets" \notin left[req[r].box]
    BY RequestShape, Going, Ending DEF IInv, RemoveSockets, Remove, Creating, Undoing, Stopping, Destroying
  <1>2. TypeOK'
    BY <1>1 DEF IInv, TypeOK, RemoveSockets, Remove, Without, historyVars
  <1>3. Sole'
    BY <1>1, RequestShape, SandboxAssumption
       DEF IInv, Sole, Creates, RemoveSockets, Moves, Ends, Idle, historyVars
  <1>4. Known'
    BY <1>1 DEF IInv, Known, RemoveSockets, Remove, Without, Moves, Ends, Idle, historyVars
  <1>5. Kinds'
    BY <1>1 DEF IInv, Kinds, RemoveSockets, Remove, Moves, Ends, Idle, Creating, Undoing, Destroying
  <1>6. Built'
    <2>1. /\ \A s \in Sandboxes : s # req[r].box => left'[s] = left[s]
          /\ left'[req[r].box] = left[req[r].box] \ {"sockets"}
      BY <1>1 DEF IInv, TypeOK, RemoveSockets, Remove, Without
    <2>2. Creates(r) => left[req[r].box] = PartsAt("unlink")
      BY DEF IInv, Built, Creates, RemoveSockets, Remove, Undoing
    <2>3. PartsAt("unlink") \ {"sockets"} = PartsAt("unbind")
      BY DEF PartsAt, Part
    <2>4. CASE Moves(r, "unbind")
      BY <2>1, <2>2, <2>3, <2>4, BuiltKept DEF RemoveSockets, Remove, Creating, Undoing, Stopping, Destroying
    <2>5. CASE Ends(r)
      <3> SUFFICES ASSUME NEW x \in Requests, Creates(x)', req'[x].pc \notin Undoing
                   PROVE  left'[req'[x].box] = PartsAt(req'[x].pc)
        BY DEF Built
      <3>1. x # r /\ req'[x] = req[x] /\ Creates(x)
        BY <2>5 DEF Ends, Creates, Idle
      <3>2. req[x].box \in Sandboxes /\ req[x].box # req[r].box
        BY <3>1, RequestShape DEF IInv, Creates, Sole
      <3> QED BY <2>1, <3>1, <3>2 DEF IInv, Built
    <2> QED BY <1>1, <2>4, <2>5
  <1>7. Reachable'
    BY <1>1 DEF IInv, Reachable, Sole, Creates, RemoveSockets, Moves, Ends, Idle
  <1>8. Quiet'
    BY <1>1, RequestShape
       DEF IInv, Quiet, Running, RemoveSockets, Remove, Moves, Ends, Idle, historyVars, Creating, Undoing,
           Stopping
  <1>9. Caged'
    BY <1>1 DEF IInv, Caged, Running, RemoveSockets, Remove, Without
  <1>10. DestroyedIsGone'
    BY <1>1 DEF IInv, DestroyedIsGone, Running, RemoveSockets, Remove, Without, historyVars
  <1>11. NothingUnowned'
    BY <1>1
       DEF IInv, NothingUnowned, Built, Running, Creates, PartsAt, Unowned, Serving, RemoveSockets, Remove,
           Without, Moves, Ends, historyVars, Undoing
  <1> QED BY <1>2, <1>3, <1>4, <1>5, <1>6, <1>7, <1>8, <1>9, <1>10, <1>11 DEF IInv

LEMMA UnbindKeeps ==
    ASSUME IInv, NEW r \in Requests, Unbind(r)
    PROVE  IInv'
  <1>1. /\ req[r].box \in Sandboxes /\ req' \in [Requests -> Request]
        /\ Ends(r)
    BY RequestShape, Going, Ending DEF IInv, Unbind, Creating, Undoing, Stopping, Destroying
  <1>2. TypeOK'
    BY <1>1 DEF IInv, TypeOK, Unbind, hostVars
  <1>3. Sole'
    BY <1>1, RequestShape, SandboxAssumption DEF IInv, Sole, Creates, Unbind, Ends, Idle
  <1>4. Known'
    BY <1>1 DEF IInv, Known, Unbind, Ends, Idle, hostVars
  <1>5. Kinds'
    BY <1>1 DEF IInv, Kinds, Ends, Idle, Creating, Undoing, Destroying
  <1>6. Built'
    BY <1>1 DEF IInv, Built, Creates, Unbind, Ends, Idle, hostVars
  <1>7. Reachable'
    BY <1>1 DEF IInv, Reachable, Creates, Unbind, Ends, Idle
  <1>8. Quiet'
    BY <1>1 DEF IInv, Quiet, Running, Unbind, Ends, Idle, hostVars
  <1>9. Caged'
    BY <1>1 DEF IInv, Caged, Running, Unbind, hostVars
  <1>10. DestroyedIsGone'
    BY RequestShape DEF IInv, DestroyedIsGone, Kinds, Quiet, Running, Unbind, Destroyed, hostVars, Stopping
  <1>11. NothingUnowned'
    BY <1>1, RequestShape
       DEF IInv, NothingUnowned, Built, Quiet, Running, Creates, PartsAt, Unowned, Serving, Unbind, Destroyed,
           Ends, hostVars, Creating, Undoing, Stopping
  <1> QED BY <1>2, <1>3, <1>4, <1>5, <1>6, <1>7, <1>8, <1>9, <1>10, <1>11 DEF IInv

LEMMA FailCreateKeeps ==
    ASSUME IInv, NEW r \in Requests, FailCreate(r)
    PROVE  IInv'
  <1>1. /\ req[r].box \in Sandboxes /\ req' \in [Requests -> Request]
        /\ Moves(r, "abort")
    BY RequestShape, Going, Ending DEF IInv, FailCreate, Creating, Undoing, Stopping, Destroying
  <1>2. TypeOK'
    BY <1>1, FaultAssumption DEF IInv, TypeOK, FailCreate, hostVars, historyVars
  <1>3. Sole'
    BY <1>1, RequestShape, SandboxAssumption DEF IInv, Sole, Creates, FailCreate, Moves, historyVars
  <1>4. Known'
    BY <1>1, RequestShape, SandboxAssumption DEF IInv, Known, FailCreate, Moves, hostVars, historyVars
  <1>5. Kinds'
    BY <1>1 DEF IInv, Kinds, FailCreate, Moves
  <1>6. Built'
    BY <1>1 DEF IInv, Built, Creates, FailCreate, Moves, hostVars, Undoing
  <1>7. Reachable'
    BY <1>1 DEF IInv, Reachable, Creates, FailCreate, Moves
  <1>8. Quiet'
    BY <1>1 DEF IInv, Quiet, Running, FailCreate, Moves, hostVars, historyVars, Destroying
  <1>9. Caged'
    BY <1>1 DEF IInv, Caged, Running, FailCreate, hostVars
  <1>10. DestroyedIsGone'
    BY <1>1 DEF IInv, DestroyedIsGone, Running, FailCreate, hostVars, historyVars
  <1>11. NothingUnowned'
    BY <1>1 DEF IInv, NothingUnowned, Running, Unowned, Serving, FailCreate, Moves, hostVars, historyVars
  <1> QED BY <1>2, <1>3, <1>4, <1>5, <1>6, <1>7, <1>8, <1>9, <1>10, <1>11 DEF IInv

LEMMA FailCgroupKeeps ==
    ASSUME IInv, NEW r \in Requests, FailCgroup(r)
    PROVE  IInv'
  <1>1. /\ req[r].box \in Sandboxes /\ req' \in [Requests -> Request]
        /\ Moves(r, "abort")
    BY RequestShape, Going DEF IInv, FailCgroup, Creating, Undoing, Stopping, Destroying
  <1>2. TypeOK'
    BY <1>1, FaultAssumption DEF IInv, TypeOK, FailCgroup, Blame, Excuse, Part
  <1>3. Sole'
    BY <1>1, RequestShape, SandboxAssumption DEF IInv, Sole, Creates, FailCgroup, Moves
  <1>4. Known'
    BY <1>1, RequestShape, SandboxAssumption DEF IInv, Known, FailCgroup, Moves
  <1>5. Kinds'
    BY <1>1 DEF IInv, Kinds, Creating, Undoing, FailCgroup, Moves, Destroying
  <1>6. Built'
    BY <1>1 DEF IInv, Built, Sole, Kinds, Creates, FailCgroup, Moves, Undoing, Creating
  <1>7. Reachable'
    BY <1>1 DEF IInv, Reachable, Creates, FailCgroup, Moves
  <1>8. Quiet'
    BY <1>1 DEF IInv, TypeOK, Quiet, Running, FailCgroup, Blame, Moves, Destroying
  <1>9. Caged'
    BY <1>1 DEF IInv, Caged, TypeOK, Running, FailCgroup
  <1>10. DestroyedIsGone'
    BY <1>1 DEF IInv, DestroyedIsGone, Sole, Kinds, Creating, Creates, Running, FailCgroup
  <1>11. NothingUnowned'
    <2>1. /\ used' = used /\ binding' = binding /\ process' = process /\ killed' = killed
          /\ req[r].op = "create" /\ req'[r].op = "create" /\ req'[r].box = req[r].box
          /\ \A s \in Sandboxes \ {req[r].box} : left'[s] = left[s] /\ excuse'[s] = excuse[s]
      BY <1>1, RequestShape DEF IInv, TypeOK, Kinds, Creating, FailCgroup, Blame, Moves
    <2>2. ~ Unowned(req[r].box)'
      BY <1>1, <2>1 DEF Unowned, Serving
    <2>3. ASSUME NEW s \in Sandboxes \ {req[r].box}, Unowned(s)'
          PROVE  Unowned(s)
      BY <1>1, <2>1, <2>3 DEF Unowned, Serving, Moves
    <2> QED BY <2>1, <2>2, <2>3 DEF IInv, NothingUnowned, Running
  <1> QED BY <1>2, <1>3, <1>4, <1>5, <1>6, <1>7, <1>8, <1>9, <1>10, <1>11 DEF IInv

LEMMA FailBindKeeps ==
    ASSUME IInv, NEW r \in Requests, FailBind(r)
    PROVE  IInv'
  <1>1. /\ req[r].box \in Sandboxes /\ req' \in [Requests -> Request]
        /\ \/ Moves(r, "state") /\ excuse' = excuse
           \/ Ends(r) /\ Blame(req[r].box, {"unread"})
    BY RequestShape, Going, Ending DEF IInv, FailBind, Creating, Undoing, Stopping, Destroying
  <1>2. TypeOK'
    BY <1>1, FaultAssumption DEF IInv, TypeOK, FailBind, Blame, hostVars, Excuse
  <1>3. Sole'
    BY <1>1, RequestShape, SandboxAssumption DEF IInv, Sole, Creates, FailBind, Moves, Ends, Idle
  <1>4. Known'
    BY <1>1 DEF IInv, Known, FailBind, Moves, Ends, Idle, hostVars
  <1>5. Kinds'
    BY <1>1 DEF IInv, Kinds, Moves, Ends, Idle, Creating, Undoing, Destroying
  <1>6. Built'
    BY <1>1 DEF IInv, Built, Creates, PartsAt, FailBind, Moves, Ends, Idle, hostVars, Undoing
  <1>7. Reachable'
    BY <1>1 DEF IInv, Reachable, Creates, FailBind, Moves, Ends, Idle
  <1>8. Quiet'
    BY <1>1 DEF IInv, TypeOK, Quiet, Running, FailBind, Blame, Moves, Ends, Idle, hostVars, Destroying
  <1>9. Caged'
    BY <1>1 DEF IInv, Caged, Running, FailBind, hostVars
  <1>10. DestroyedIsGone'
    BY <1>1 DEF IInv, DestroyedIsGone, Running, FailBind, hostVars
  <1>11. NothingUnowned'
    <2>1. /\ used' = used /\ binding' = binding /\ process' = process /\ killed \subseteq killed'
          /\ \A s \in Sandboxes : excuse[s] \subseteq excuse'[s] /\ left'[s] \subseteq left[s]
          /\ \A s \in Sandboxes : s # req[r].box => left'[s] = left[s]
          /\ Steps(r)
      BY <1>1 DEF IInv, TypeOK, Steps, FailBind, Blame, hostVars, Creating, Undoing, Stopping, Destroying
    <2> PICK s \in Sandboxes : s = req[r].box
      BY <1>1
    <2> SUFFICES ASSUME Unowned(s)'
                 PROVE  /\ left'[s] # {} => excuse'[s] # {}
                        /\ Running(s)' => s \in killed' \/ excuse'[s] \cap {"crash", "unread"} # {}
      BY <1>1, <2>1, OthersOwned DEF FailBind
    <2>2. ASSUME req[r].op # "create"
          PROVE  Unowned(s)
      BY <1>1, <2>1, <2>2 DEF Unowned, Serving, Steps, Moves, Ends, Idle
    <2>3. CASE Unowned(s)
      BY <1>1, <2>1, <2>3 DEF IInv, NothingUnowned, Running
    <2>4. ASSUME req[r].op = "create"
          PROVE  Ends(r)
      BY <1>1, <2>4 DEF Unowned, Serving, Moves
    <2>5. CASE req[r].op = "create"
      <3>1. excuse'[s] = excuse[s] \cup {"unread"}
        BY <1>1, <2>4, <2>5 DEF IInv, TypeOK, Blame, Ends, Moves, Idle
      <3> QED BY <3>1
    <2> QED BY <2>2, <2>3, <2>5
  <1> QED BY <1>2, <1>3, <1>4, <1>5, <1>6, <1>7, <1>8, <1>9, <1>10, <1>11 DEF IInv

LEMMA FailOtherKeeps ==
    ASSUME IInv, NEW r \in Requests, FailOther(r)
    PROVE  IInv'
  <1>1. /\ req[r].box \in Sandboxes /\ req' \in [Requests -> Request]
        /\ Ends(r)
    BY RequestShape, Going, Ending DEF IInv, FailOther, Creating, Undoing, Stopping, Destroying
  <1>2. TypeOK'
    BY <1>1, FaultAssumption DEF IInv, TypeOK, FailOther, Blame, hostVars, Excuse
  <1>3. Sole'
    BY <1>1, RequestShape, SandboxAssumption DEF IInv, Sole, Creates, FailOther, Ends, Idle
  <1>4. Known'
    BY <1>1 DEF IInv, Known, FailOther, Ends, Idle, hostVars
  <1>5. Kinds'
    BY <1>1 DEF IInv, Kinds, Ends, Idle, Creating, Undoing, Destroying
  <1>6. Built'
    BY <1>1 DEF IInv, Built, Creates, FailOther, Ends, Idle, hostVars
  <1>7. Reachable'
    BY <1>1 DEF IInv, Reachable, Creates, FailOther, Ends, Idle
  <1>8. Quiet'
    BY <1>1 DEF IInv, Quiet, Running, FailOther, Blame, Ends, Idle, hostVars
  <1>9. Caged'
    BY <1>1 DEF IInv, Caged, Running, FailOther, hostVars
  <1>10. DestroyedIsGone'
    BY <1>1 DEF IInv, DestroyedIsGone, Running, FailOther, hostVars
  <1>11. NothingUnowned'
    BY <1>1, RequestShape, SandboxAssumption
       DEF IInv, TypeOK, NothingUnowned, Sole, Known, Kinds, Quiet, Reachable, Caged, Running, Creates,
           PartsAt, Unowned, Serving, FailOther, Blame, Moves, Ends, Idle, hostVars, historyVars, Creating,
           Undoing, Stopping, Destroying
  <1> QED BY <1>2, <1>3, <1>4, <1>5, <1>6, <1>7, <1>8, <1>9, <1>10, <1>11 DEF IInv

-----------------------------------------------------------------------------
(* The other steps. *)

LEMMA CreateKeeps ==
    ASSUME IInv, NEW r \in Requests, NEW s \in Sandboxes, Create(r, s)
    PROVE  IInv'
  <1>1. /\ req'[r] = [op |-> "create", pc |-> "directory", box |-> s] /\ req' \in [Requests -> Request]
        /\ \A x \in Requests \ {r} : req'[x] = req[x]
        /\ \A x \in Requests : req[x].box # s
    BY RequestShape, SandboxAssumption DEF IInv, TypeOK, Known, Create, Request, Op, Creating
  <1>2. TypeOK'
    BY <1>1 DEF IInv, TypeOK, Create, hostVars, historyVars
  <1>3. Sole'
    BY <1>1 DEF IInv, Sole, Known, Creates, Create, historyVars
  <1>4. Known'
    BY <1>1 DEF IInv, Known, Create, hostVars, historyVars
  <1>5. Kinds'
    BY <1>1 DEF IInv, Kinds
  <1>6. Built'
    BY <1>1, RequestShape, FaultAssumption
       DEF IInv, TypeOK, Sole, Kinds, Built, Known, Creates, PartsAt, Create, Idle, hostVars, historyVars,
           Creating, Undoing, Stopping, Destroying
  <1>7. Reachable'
    BY <1>1 DEF IInv, Reachable, Creates, Create
  <1>8. Quiet'
    BY <1>1 DEF IInv, Quiet, Running, Create, hostVars, historyVars, Destroying
  <1>9. Caged'
    BY <1>1 DEF IInv, Caged, Running, Create, hostVars
  <1>10. DestroyedIsGone'
    BY <1>1 DEF IInv, DestroyedIsGone, Running, Create, hostVars, historyVars
  <1>11. NothingUnowned'
    BY <1>1, RequestShape, SandboxAssumption
       DEF IInv, NothingUnowned, Running, Unowned, Serving, Create, hostVars, historyVars
  <1> QED BY <1>2, <1>3, <1>4, <1>5, <1>6, <1>7, <1>8, <1>9, <1>10, <1>11 DEF IInv

LEMMA CallKeeps ==
    ASSUME IInv, NEW r \in Requests, NEW op \in Op, NEW s \in Sandboxes, Call(r, op, s)
    PROVE  IInv'
  <1>1. /\ req'[r] = [op |-> op, pc |-> "state", box |-> s] /\ req' \in [Requests -> Request]
        /\ \A x \in Requests \ {r} : req'[x] = req[x]
        /\ \A x \in Requests : Creates(x) => req[x].box # s
    BY RequestShape DEF IInv, TypeOK, Sole, Creates, Call, Request, Stopping
  <1>2. TypeOK'
    BY <1>1 DEF IInv, TypeOK, Call, hostVars, historyVars
  <1>3. Sole'
    BY <1>1 DEF IInv, Sole, Creates, Call, historyVars
  <1>4. Known'
    BY <1>1 DEF IInv, Known, Call, hostVars, historyVars
  <1>5. Kinds'
    BY <1>1 DEF IInv, Kinds, Creating, Undoing, Destroying
  <1>6. Built'
    BY <1>1 DEF IInv, Built, Creates, Call, hostVars
  <1>7. Reachable'
    BY <1>1 DEF IInv, Reachable, Creates, Call
  <1>8. Quiet'
    BY <1>1 DEF IInv, Quiet, Running, Call, hostVars, historyVars, Destroying
  <1>9. Caged'
    BY <1>1 DEF IInv, Caged, Running, Call, hostVars
  <1>10. DestroyedIsGone'
    BY <1>1 DEF IInv, DestroyedIsGone, Running, Call, hostVars, historyVars
  <1>11. NothingUnowned'
    BY RequestShape, SandboxAssumption
       DEF IInv, NothingUnowned, Running, Unowned, Serving, Call, hostVars, historyVars
  <1> QED BY <1>2, <1>3, <1>4, <1>5, <1>6, <1>7, <1>8, <1>9, <1>10, <1>11 DEF IInv

LEMMA StatusKeeps ==
    ASSUME IInv, NEW s \in Sandboxes, Status(s)
    PROVE  IInv'
  <1>1. TypeOK'
    BY RequestShape DEF IInv, TypeOK, Status, hostVars
  <1>2. Sole'
    BY RequestShape DEF IInv, Sole, Creates, Status
  <1>3. Known'
    BY RequestShape DEF IInv, Known, Status, hostVars
  <1>4. Kinds'
    BY RequestShape DEF IInv, Kinds, Status
  <1>5. Built'
    BY RequestShape DEF IInv, Built, Creates, Status, hostVars
  <1>6. Reachable'
    BY RequestShape DEF IInv, Reachable, Creates, Status
  <1>7. Quiet'
    BY RequestShape DEF IInv, Quiet, Running, Status, hostVars
  <1>8. Caged'
    BY RequestShape DEF IInv, Caged, Running, Status, hostVars
  <1>9. DestroyedIsGone'
    BY RequestShape DEF IInv, Caged, DestroyedIsGone, Running, Status, Destroyed, hostVars
  <1>10. NothingUnowned'
    BY RequestShape DEF IInv, NothingUnowned, Running, Unowned, Serving, Status, hostVars
  <1> QED BY <1>1, <1>2, <1>3, <1>4, <1>5, <1>6, <1>7, <1>8, <1>9, <1>10 DEF IInv

LEMMA ExitKeeps ==
    ASSUME IInv, NEW s \in Sandboxes, Exit(s)
    PROVE  IInv'
  <1>1. TypeOK'
    BY RequestShape DEF IInv, TypeOK, Exit, historyVars
  <1>2. Sole'
    BY RequestShape DEF IInv, Sole, Creates, Exit, historyVars
  <1>3. Known'
    BY RequestShape DEF IInv, Known, Exit, historyVars
  <1>4. Kinds'
    BY RequestShape DEF IInv, Kinds, Exit
  <1>5. Built'
    BY RequestShape DEF IInv, Built, Creates, Exit
  <1>6. Reachable'
    BY RequestShape DEF IInv, Reachable, Creates, Exit
  <1>7. Quiet'
    BY RequestShape DEF IInv, Quiet, Running, Exit, historyVars
  <1>8. Caged'
    BY RequestShape DEF IInv, Caged, Running, Exit
  <1>9. DestroyedIsGone'
    BY RequestShape DEF IInv, DestroyedIsGone, Running, Exit, historyVars
  <1>10. NothingUnowned'
    BY RequestShape DEF IInv, NothingUnowned, Running, Unowned, Serving, Exit, historyVars
  <1> QED BY <1>1, <1>2, <1>3, <1>4, <1>5, <1>6, <1>7, <1>8, <1>9, <1>10 DEF IInv

LEMMA CrashKeeps ==
    ASSUME IInv, Crash
    PROVE  IInv'
  <1>1. \A r \in Requests : req'[r] = Idle
    BY DEF Crash
  <1>2. TypeOK'
    BY FaultAssumption DEF IInv, TypeOK, Crash, hostVars, Excuse, Request
  <1>3. Sole'
    BY <1>1 DEF Sole, Creates, Idle
  <1>4. Known'
    BY <1>1 DEF IInv, Known, Crash, Idle, hostVars
  <1>5. Kinds'
    BY <1>1 DEF Kinds, Idle, Creating, Undoing, Destroying
  <1>6. Built'
    BY <1>1 DEF Built, Creates, Idle
  <1>7. Reachable'
    BY <1>1 DEF Reachable, Idle
  <1>8. Quiet'
    BY <1>1 DEF Quiet, Idle
  <1>9. Caged'
    BY <1>1 DEF IInv, Caged, Running, Crash, hostVars
  <1>10. DestroyedIsGone'
    BY <1>1 DEF IInv, DestroyedIsGone, Running, Crash, hostVars
  <1>11. NothingUnowned'
    <2> SUFFICES ASSUME NEW s \in Sandboxes, Unowned(s)'
                 PROVE  /\ left'[s] # {} => excuse'[s] # {}
                        /\ Running(s)' => s \in killed' \/ excuse'[s] \cap {"crash", "unread"} # {}
      BY DEF NothingUnowned
    <2>1. /\ used' = used /\ binding' = binding /\ left' = left /\ process' = process /\ killed' = killed
          /\ excuse'[s] = IF \E r \in Serving(s) : req[r].op # "use" THEN excuse[s] \cup {"crash"} ELSE excuse[s]
      BY DEF Crash, hostVars
    <2>2. CASE \E r \in Serving(s) : req[r].op = "create"
      BY <2>1, <2>2
    <2>3. CASE \A r \in Serving(s) : req[r].op # "create"
      <3>1. Unowned(s)
        BY <2>1, <2>3 DEF Unowned
      <3> QED BY <2>1, <3>1 DEF IInv, NothingUnowned, Running
    <2> QED BY <2>2, <2>3
  <1> QED BY <1>2, <1>3, <1>4, <1>5, <1>6, <1>7, <1>8, <1>9, <1>10, <1>11 DEF IInv

LEMMA InitHolds == Init => IInv
  BY SandboxAssumption, FaultAssumption
  DEF Init, IInv, TypeOK, Sole, Known, Kinds, Built, Quiet, Caged, Reachable, DestroyedIsGone, NothingUnowned,
      Idle, Creates, Request, Running, Unowned, Creating, Undoing, Destroying

LEMMA StutterKeeps ==
    ASSUME IInv, UNCHANGED vars
    PROVE  IInv'
  BY DEF vars, hostVars, historyVars, IInv, TypeOK, Sole, Known, Kinds, Built, Quiet, Caged, Reachable,
         DestroyedIsGone, NothingUnowned, Creates, Running, Unowned, Serving

LEMMA StepKeeps ==
    ASSUME IInv, [Next]_vars
    PROVE  IInv'
  <1>1. ASSUME NEW r \in Requests, NEW s \in Sandboxes, Create(r, s)
        PROVE  IInv'
    BY <1>1, CreateKeeps
  <1>2. ASSUME NEW r \in Requests, NEW s \in Sandboxes, NEW op \in Op, Call(r, op, s)
        PROVE  IInv'
    BY <1>2, CallKeeps
  <1>3. ASSUME NEW r \in Requests, Provision(r)
        PROVE  IInv'
    BY <1>3, MakeDirectoryKeeps, MakeSocketsKeeps, MakeCgroupKeeps, SpawnKeeps, AttachKeeps, WriteMetadataKeeps,
       StartKeeps, LookForDuplicateKeeps, BindKeeps
    DEF Provision
  <1>4. ASSUME NEW r \in Requests, Undo(r)
        PROVE  IInv'
    BY <1>4, AbortKeeps, ReapKeeps, CleanUpKeeps DEF Undo
  <1>5. ASSUME NEW r \in Requests, Reach(r)
        PROVE  IInv'
    BY <1>5, StateKeeps, AdoptKeeps, StopKeeps, KillKeeps, EndOfWaitKeeps DEF Reach
  <1>6. ASSUME NEW r \in Requests, Destroy(r)
        PROVE  IInv'
    BY <1>6, ReleaseCgroupKeeps, RemoveDirectoryKeeps, RemoveSocketsKeeps, UnbindKeeps DEF Destroy
  <1>7. ASSUME NEW r \in Requests, FailCreate(r) \/ FailCgroup(r) \/ FailBind(r) \/ FailOther(r)
        PROVE  IInv'
    BY <1>7, FailCreateKeeps, FailCgroupKeeps, FailBindKeeps, FailOtherKeeps
  <1>8. ASSUME NEW s \in Sandboxes, Status(s) \/ Exit(s)
        PROVE  IInv'
    BY <1>8, StatusKeeps, ExitKeeps
  <1>9. CASE Crash
    BY <1>9, CrashKeeps
  <1>10. CASE UNCHANGED vars
    BY <1>10, StutterKeeps
  <1> QED BY <1>1, <1>2, <1>3, <1>4, <1>5, <1>6, <1>7, <1>8, <1>9, <1>10 DEF Next, Proceed

(* The inductive invariant holds in every state. *)
THEOREM InvariantHolds == Spec => []IInv
  BY InitHolds, StepKeeps, PTL DEF Spec

-----------------------------------------------------------------------------
(* The parts, records and requests of every sandbox keep to their types.   *)
THEOREM TypeCorrect == Spec => []TypeOK
  <1>1. IInv => TypeOK
    BY DEF IInv
  <1> QED BY InvariantHolds, <1>1, PTL

(* A caller that was told that a sandbox is destroyed finds no process and *)
(* no part of it on the host, however requests overlap and whichever       *)
(* supervisor answered.                                                    *)
THEOREM DestructionIsReal == Spec => []DestroyedIsGone
  <1>1. IInv => DestroyedIsGone
    BY DEF IInv
  <1> QED BY InvariantHolds, <1>1, PTL

(* What has no name does not stay on the host unless taking it down went   *)
(* wrong, and its process was killed unless the supervisor died or could   *)
(* not read its bindings.                                                  *)
THEOREM NothingIsAbandoned == Spec => []NothingUnowned
  <1>1. IInv => NothingUnowned
    BY DEF IInv
  <1> QED BY InvariantHolds, <1>1, PTL
-----------------------------------------------------------------------------
(* PiWorkspaces: what the invariants speak of.                             *)

(* What a start, a write or an undo may bring an item back from.           *)
Has(i, x) == x \in mem[i] \/ x \in snap[i] \/ \E q \in Slots : job[q].at = i /\ x \in job[q].taken

Busy(q) == job[q].pc # "idle"
Early(q) == job[q].pc \in {"called", "out", "back"}
Writes(q) == job[q].pc = "saving"
Makes(q) == Busy(q) /\ GivesId(job[q].op)
Home(q) == TenantOf[job[q].item]
Secret == Items \ Objects

OpFits(op, x) ==
    /\ op \in {"issue", "revoke"} => x \in Leases
    /\ op \in {"prepare", "use", "cleanup"} => x \in Workspaces
    /\ op \in {"put", "delete"} => x \in Objects
    /\ op \in {"grant", "ungrant", "download"} => x \in Grants

RequestsFit ==
    \A q \in Slots : Busy(q) =>
        /\ OpFits(job[q].op, job[q].item) /\ job[q].item \in ids
        /\ Listening(job[q].at)
        /\ job[q].taken \subseteq GoneIn(job[q])
        /\ Early(q) => job[q].taken = {}
        /\ job[q].pc \in {"out", "back"} => job[q].op \notin {"issue", "grant"}
        /\ job[q].pc = "undo" => job[q].op \in {"issue", "revoke", "prepare"}

WritesFit ==
    \A q \in Slots : Writes(q) =>
        /\ queue[job[q].at] # <<>> /\ Head(queue[job[q].at]) = q
        /\ job[q].op # "download" =>
              /\ todo[job[q].at] \subseteq {Home(q)}
              /\ phase[job[q].at] # "closing" => Home(q) \in todo[job[q].at] \cup owned[job[q].at]

PhasesFit ==
    \A i \in Instances :
        /\ phase[i] = "down" => mem[i] = {} /\ owned[i] = {}
        /\ phase[i] \in {"down", "loading"} => snap[i] = {}
        /\ phase[i] = "loading" => todo[i] \cap owned[i] = {} /\ \A x \in mem[i] : TenantOf[x] \in owned[i]
        /\ phase[i] = "restoring" => snap[i] = mem[i]
        /\ phase[i] = "closing" => owned[i] = {}

RowsFit ==
    \A t \in Tenants : \A x \in record[t] : TenantOf[x] = t /\ (x \in Grants => ObjectOf[x] \in record[t])

Base == WsTypeOK /\ RequestsFit /\ WritesFit /\ PhasesFit /\ RowsFit

LEMMA ItemFacts ==
    /\ Leases \subseteq Items /\ Workspaces \subseteq Items /\ Objects \subseteq Items /\ Grants \subseteq Items
    /\ TenantOf \in [Items -> Tenants] /\ LeaseOf \in [Workspaces -> Leases] /\ ObjectOf \in [Grants -> Objects]
    /\ \A w \in Workspaces : TenantOf[LeaseOf[w]] = TenantOf[w]
    /\ \A g \in Grants : TenantOf[ObjectOf[g]] = TenantOf[g]
    /\ \A x \in Items : /\ x \in Leases => x \notin Workspaces \cup Objects \cup Grants
                        /\ x \in Workspaces => x \notin Objects \cup Grants
                        /\ x \in Objects => x \notin Grants
    /\ "none" \notin Items /\ "none" \notin Instances
  BY ItemAssumption, OwnerAssumption DEF Items

(* What a request takes away is of its tenant. *)
LEMMA GoneFacts ==
    ASSUME NEW op, NEW x \in Items, OpFits(op, x)
    PROVE  /\ \A y \in Gone(op, x) : y \in Items /\ TenantOf[y] = TenantOf[x]
           /\ op \notin Removing => Gone(op, x) = {}
           /\ \A g \in Grants : ObjectOf[g] \in Gone(op, x) => g \in Gone(op, x)
           /\ \A y \in Gone(op, x) : y \in Objects => op = "delete" /\ y = x
  <1>1. CASE op = "cleanup"
    <2>1. Gone(op, x) = {x, LeaseOf[x]}
      BY <1>1 DEF Gone
    <2> QED BY <1>1, <2>1, ItemFacts DEF OpFits, Removing
  <1>2. CASE op = "delete"
    <2>1. Gone(op, x) = {x} \cup {g \in Grants : ObjectOf[g] = x}
      BY <1>2 DEF Gone
    <2> QED BY <1>2, <2>1, ItemFacts DEF OpFits, Removing
  <1>3. CASE op \in {"revoke", "ungrant"}
    <2>1. Gone(op, x) = {x}
      BY <1>3 DEF Gone
    <2> QED BY <1>3, <2>1, ItemFacts DEF OpFits, Removing
  <1>4. CASE op \notin Removing
    <2>1. Gone(op, x) = {}
      BY <1>4 DEF Gone, Removing
    <2> QED BY <1>4, <2>1
  <1> QED BY <1>1, <1>2, <1>3, <1>4 DEF Removing

LEMMA CallFacts ==
    ASSUME NEW c \in Calls
    PROVE  /\ c.item \in Items /\ OpFits(c.op, c.item)
           /\ c.op \in Adding \cup Removing \cup {"use", "download"}
  BY ItemFacts DEF Calls, OpFits, Adding, Removing

LEMMA RequestFacts ==
    ASSUME WsTypeOK, NEW q \in Slots
    PROVE  /\ job[q] \in Jobs
           /\ ~Busy(q) => job[q] = NoJob /\ job[q].at \notin Instances /\ job[q].taken = {} /\ job[q].item \notin Items
           /\ Busy(q) => /\ job[q] \in [pc : {"called", "out", "back", "queued", "saving", "undo"}, at : Instances,
                                        op : Adding \cup Removing \cup {"use", "download"}, item : Items,
                                        taken : SUBSET Items, clash : BOOLEAN]
                         /\ job[q].at \in Instances /\ job[q].item \in Items /\ job[q].taken \subseteq Items
                         /\ job[q].clash \in BOOLEAN
           /\ job[q].at \in Instances => Busy(q)
  BY ItemFacts DEF WsTypeOK, Jobs, NoJob, Busy

(* A step gives one request other values, and leaves the others as they are. *)
LEMMA GoesFacts ==
    ASSUME WsTypeOK, NEW q \in Slots, Busy(q), NEW pc \in {"called", "out", "back", "queued", "saving", "undo"},
           Goes(q, pc)
    PROVE  /\ job' \in [Slots -> Jobs]
           /\ job'[q].pc = pc /\ job'[q].at = job[q].at /\ job'[q].op = job[q].op
           /\ job'[q].item = job[q].item /\ job'[q].taken = job[q].taken /\ job'[q].clash = job[q].clash
           /\ \A p \in Slots \ {q} : job'[p] = job[p]
  BY RequestFacts DEF WsTypeOK, Jobs, Goes

LEMMA AnswerFacts ==
    ASSUME WsTypeOK, NEW q \in Slots, Answer(q)
    PROVE  /\ job' \in [Slots -> Jobs]
           /\ job'[q] = NoJob /\ \A p \in Slots \ {q} : job'[p] = job[p]
  BY DEF WsTypeOK, Jobs, Answer

LEMMA ApplyFacts ==
    ASSUME WsTypeOK, NEW q \in Slots, Busy(q), OpFits(job[q].op, job[q].item), Apply(q)
    PROVE  LET i == job[q].at  away == GoneIn(job[q]) IN
           /\ job' \in [Slots -> Jobs]
           /\ job'[q].pc = "queued" /\ job'[q].at = i /\ job'[q].op = job[q].op
           /\ job'[q].item = job[q].item /\ job'[q].taken = mem[i] \cap away /\ job'[q].clash = job[q].clash
           /\ \A p \in Slots \ {q} : job'[p] = job[p]
           /\ mem' \in [Instances -> SUBSET Items]
           /\ mem'[i] = (mem[i] \ away) \cup (IF job[q].op \in Adding THEN {job[q].item} ELSE {})
           /\ \A j \in Instances \ {i} : mem'[j] = mem[j]
           /\ queue' \in [Instances -> Seq(Slots)]
           /\ queue'[i] = Append(queue[i], q)
           /\ \A j \in Instances \ {i} : queue'[j] = queue[j]
  <1> DEFINE i == job[q].at
             away == GoneIn(job[q])
  <1>1. /\ i \in Instances /\ job[q].item \in Items /\ mem[i] \subseteq Items
        /\ job[q] \in [pc : {"called", "out", "back", "queued", "saving", "undo"}, at : Instances,
                       op : Adding \cup Removing \cup {"use", "download"}, item : Items,
                       taken : SUBSET Items, clash : BOOLEAN]
    BY RequestFacts DEF WsTypeOK
  <1>2. /\ mem' = [mem EXCEPT ![i] = (@ \ away) \cup (IF job[q].op \in Adding THEN {job[q].item} ELSE {})]
        /\ job' = [job EXCEPT ![q].pc = "queued", ![q].taken = mem[i] \cap away]
        /\ queue' = [queue EXCEPT ![i] = Append(@, q)]
    BY DEF Apply, At, OpOf, Item
  <1> HIDE DEF away
  <1>3. mem[i] \cap away \in SUBSET Items
    BY <1>1
  <1>4. job' \in [Slots -> Jobs]
    BY <1>1, <1>2, <1>3 DEF WsTypeOK, Jobs
  <1>5. mem' \in [Instances -> SUBSET Items]
    BY <1>1, <1>2 DEF WsTypeOK
  <1>6. queue' \in [Instances -> Seq(Slots)]
    BY <1>1, <1>2 DEF WsTypeOK
  <1>7. /\ job'[q].pc = "queued" /\ job'[q].at = i /\ job'[q].op = job[q].op
        /\ job'[q].item = job[q].item /\ job'[q].taken = mem[i] \cap away /\ job'[q].clash = job[q].clash
        /\ \A p \in Slots \ {q} : job'[p] = job[p]
    BY <1>1, <1>2 DEF WsTypeOK
  <1>8. /\ mem'[i] = (mem[i] \ away) \cup (IF job[q].op \in Adding THEN {job[q].item} ELSE {})
        /\ \A j \in Instances \ {i} : mem'[j] = mem[j]
    BY <1>1, <1>2 DEF WsTypeOK
  <1>9. /\ queue'[i] = Append(queue[i], q)
        /\ \A j \in Instances \ {i} : queue'[j] = queue[j]
    BY <1>1, <1>2 DEF WsTypeOK
  <1> HIDE DEF i
  <1> QED BY <1>4, <1>5, <1>6, <1>7, <1>8, <1>9 DEF away, i

LEMMA DownFacts ==
    ASSUME WsTypeOK, NEW i \in Instances, Down(i)
    PROVE  /\ \A q \in Slots : IF job[q].at = i THEN job'[q] = NoJob ELSE job'[q] = job[q]
           /\ job' \in [Slots -> Jobs]
           /\ phase'[i] = "down" /\ mem'[i] = {} /\ owned'[i] = {} /\ snap'[i] = {} /\ todo'[i] = {}
           /\ \A j \in Instances \ {i} : /\ phase'[j] = phase[j] /\ mem'[j] = mem[j] /\ owned'[j] = owned[j]
                                         /\ snap'[j] = snap[j] /\ todo'[j] = todo[j] /\ queue'[j] = queue[j]
           /\ \A t \in Tenants : owner'[t] \in Instances \ {i} => owner'[t] = owner[t]
           /\ UNCHANGED <<record, version, live, listed, disk, expired, ids, known, owed, withdrawn, forfeited>>
  BY OwnerAssumption DEF WsTypeOK, Down, Jobs, worldVars, wsHistoryVars


-----------------------------------------------------------------------------
(* Type correctness.                                                       *)

LEMMA ClaimFacts ==
    ASSUME WsTypeOK, NEW i \in Instances, NEW t \in Tenants, Claim(i, t)
    PROVE  /\ owner' \in [Tenants -> Instances \cup {"none", "gone"}] /\ live' \in [Tenants -> BOOLEAN]
           /\ version' \in [Tenants -> Nat]
           /\ owned' \in [Instances -> SUBSET Tenants] /\ seen' \in [Instances -> [Tenants -> Nat]]
           /\ record' = record
           /\ owner'[t] = i /\ \A u \in Tenants \ {t} : owner'[u] = owner[u]
           /\ owned'[i] = owned[i] \cup {t} /\ \A j \in Instances \ {i} : owned'[j] = owned[j]
  <1>1. /\ owner' = [owner EXCEPT ![t] = i] /\ live' = [live EXCEPT ![t] = TRUE]
        /\ version' = [version EXCEPT ![t] = IF @ = 0 THEN 1 ELSE @]
        /\ owned' = [owned EXCEPT ![i] = @ \cup {t}]
        /\ seen' = [seen EXCEPT ![i][t] = version'[t]]
        /\ record' = record
    BY DEF Claim
  <1>2. version' \in [Tenants -> Nat]
    BY <1>1 DEF WsTypeOK
  <1>3. seen' \in [Instances -> [Tenants -> Nat]]
    BY <1>1, <1>2 DEF WsTypeOK
  <1> QED BY <1>1, <1>2, <1>3 DEF WsTypeOK

LEMMA SliceFacts ==
    ASSUME NEW S \in SUBSET Items, NEW t \in Tenants
    PROVE  /\ Slice(S, t) \subseteq S
           /\ \A x \in Slice(S, t) : TenantOf[x] = t /\ (x \in Grants => ObjectOf[x] \in Slice(S, t))
  BY ItemFacts DEF Slice

LEMMA WriteFacts ==
    ASSUME WsTypeOK, NEW i \in Instances, NEW t \in Tenants, Write(i, t)
    PROVE  /\ record' \in [Tenants -> SUBSET Items] /\ version' \in [Tenants -> Nat]
           /\ record'[t] = Slice(snap[i], t) /\ \A u \in Tenants \ {t} : record'[u] = record[u]
           /\ owner' = owner /\ live' = live
  <1>1. Slice(snap[i], t) \subseteq Items
    BY SliceFacts DEF WsTypeOK
  <1> QED BY <1>1 DEF WsTypeOK, Write

LEMMA DownType == ASSUME WsTypeOK, NEW i \in Instances, Down(i), mishaps' \in Nat PROVE WsTypeOK'
  <1>1. job' \in [Slots -> Jobs]
    BY DownFacts
  <1>2. seen' \in [Instances -> [Tenants -> Nat]]
    BY DEF WsTypeOK, Down
  <1>3. owner' \in [Tenants -> Instances \cup {"none", "gone"}]
    BY DEF WsTypeOK, Down
  <1>4. queue' \in [Instances -> Seq(Slots)]
    BY DEF WsTypeOK, Down
  <1> QED BY <1>1, <1>2, <1>3, <1>4 DEF WsTypeOK, Down, worldVars, wsHistoryVars

LEMMA CallFitsType ==
    ASSUME WsTypeOK, NEW q \in Slots, NEW i \in Instances, NEW c \in Calls, Arrive(q, i, c)
    PROVE  WsTypeOK'
  <1>1. ASSUME NEW p \in Slots PROVE job'[p] \in Jobs
    <2>1. CASE p = q
      <3>1. (c.item \in Leaving) \in BOOLEAN
        OBVIOUS
      <3>2. job'[p] = [pc |-> "called", at |-> i, op |-> c.op, item |-> c.item, taken |-> {},
                       clash |-> c.item \in Leaving]
        BY <2>1 DEF Arrive
      <3> QED BY <3>1, <3>2, CallFacts DEF Jobs
    <2>2. CASE p # q
      <3>1. job'[p] = [job[p] EXCEPT !.clash = @ \/ Item(p) \in Gone(c.op, c.item)]
        BY <2>2 DEF Arrive
      <3>2. CASE Busy(p)
        <4>1. (job[p].clash \/ Item(p) \in Gone(c.op, c.item)) \in BOOLEAN
          BY <3>2, RequestFacts
        <4> QED BY <3>1, <3>2, <4>1, RequestFacts DEF Jobs
      <3>3. CASE ~Busy(p)
        <4>1. Item(p) \notin Gone(c.op, c.item) /\ job[p] = NoJob
          BY <3>3, RequestFacts, GoneFacts, CallFacts DEF Item
        <4>2. (job[p].clash \/ Item(p) \in Gone(c.op, c.item)) = FALSE
          BY <4>1 DEF NoJob
        <4>3. job'[p] = [NoJob EXCEPT !.clash = FALSE]
          BY <3>1, <4>1, <4>2
        <4>4. job'[p] = NoJob
          BY <4>3 DEF NoJob
        <4> QED BY <4>4 DEF Jobs
      <3> QED BY <3>2, <3>3
    <2> QED BY <2>1, <2>2
  <1>2. job' \in [Slots -> Jobs]
    BY <1>1 DEF Arrive
  <1>3. owed' \subseteq Items /\ ids' \subseteq Items /\ calls' \in Nat
    BY CallFacts DEF Arrive, WsTypeOK
  <1> QED BY <1>2, <1>3 DEF Arrive, WsTypeOK, rowVars, instanceVars, storeVars, saveVars

USE DEF rowVars, storeVars, saveVars, instanceVars, worldVars, wsHistoryVars, countVars

LEMMA FaultType == WsTypeOK /\ Mishap => mishaps' \in Nat
  BY DEF WsTypeOK, Mishap

LEMMA StartStepType == ASSUME WsTypeOK, NEW i \in Instances, StartStep(i) PROVE WsTypeOK'
  <1>1. CASE Listen(i)
    BY <1>1 DEF WsTypeOK, Listen
  <1>2. CASE GiveUpStart(i) \/ \E t \in Tenants : LoadRefused(i, t)
    BY <1>2, DownType DEF GiveUpStart, LoadRefused, WsTypeOK
  <1>3. ASSUME NEW t \in Tenants, Load(i, t) PROVE WsTypeOK'
    <2>1. mem' \in [Instances -> SUBSET Items] /\ todo' \in [Instances -> SUBSET Tenants]
      BY <1>3 DEF Load, WsTypeOK
    <2> QED BY <1>3, <2>1, ClaimFacts DEF Load, WsTypeOK
  <1>4. ASSUME NEW D \in SUBSET Workspaces, Restore(i, D) PROVE WsTypeOK'
    <2>1. mem' \in [Instances -> SUBSET Items]
      BY <1>4 DEF Restore, WsTypeOK
    <2>2. snap' \in [Instances -> SUBSET Items]
      BY <1>4, <2>1 DEF Restore, WsTypeOK
    <2>3. /\ todo' \in [Instances -> SUBSET Tenants]
          /\ phase' \in [Instances -> {"down", "loading", "restoring", "up", "closing"}]
          /\ forfeited' \subseteq Items
      BY <1>4, ItemFacts DEF Restore, WsTypeOK
    <2>4. mishaps' \in Nat
      BY <1>4, FaultType DEF Restore, WsTypeOK
    <2> QED BY <1>4, <2>1, <2>2, <2>3, <2>4 DEF Restore, WsTypeOK
  <1> QED BY <1>1, <1>2, <1>3, <1>4 DEF StartStep

LEMMA InstanceStepType == ASSUME WsTypeOK, NEW i \in Instances, InstanceStep(i) PROVE WsTypeOK'
  <1>1. CASE StartInstance(i)
    BY <1>1 DEF StartInstance, WsTypeOK
  <1>2. CASE Close(i)
    <2>1. /\ owner' \in [Tenants -> Instances \cup {"none", "gone"}] /\ live' \in [Tenants -> BOOLEAN]
          /\ seen' \in [Instances -> [Tenants -> Nat]]
      BY <1>2 DEF Close, WsTypeOK
    <2> QED BY <1>2, <2>1 DEF Close, WsTypeOK
  <1>3. CASE ExitInstance(i)
    BY <1>3, DownType DEF ExitInstance, WsTypeOK
  <1>4. CASE CrashInstance(i)
    BY <1>4, DownType, FaultType DEF CrashInstance
  <1>5. CASE RenewFails(i)
    BY <1>5 DEF RenewFails, WsTypeOK
  <1>6. ASSUME NEW t \in Tenants, Save(i, t) PROVE WsTypeOK'
    <2>1. seen' \in [Instances -> [Tenants -> Nat]] /\ todo' \in [Instances -> SUBSET Tenants]
      BY <1>6 DEF Save, WsTypeOK
    <2> QED BY <1>6, <2>1, WriteFacts DEF Save, WsTypeOK
  <1> QED BY <1>1, <1>2, <1>3, <1>4, <1>5, <1>6, StartStepType DEF InstanceStep

LEMMA RequestStepType == ASSUME Base, NEW q \in Slots, RequestStep(q) PROVE WsTypeOK'
  <1> USE DEF Base
  <1>0. job[q].pc # "idle" => Busy(q) /\ job[q].at \in Instances /\ job[q].item \in Items /\ OpFits(job[q].op, job[q].item)
    BY RequestFacts DEF RequestsFit, Busy
  <1>1. CASE Refuse(q)
    <2>1. mem' \in [Instances -> SUBSET Items]
      BY <1>1 DEF Refuse, WsTypeOK
    <2> QED BY <1>1, <2>1, AnswerFacts DEF Refuse, WsTypeOK
  <1>2. CASE GoOut(q)
    BY <1>0, <1>2, GoesFacts DEF GoOut, WsTypeOK
  <1>3. CASE Touch(q)
    BY <1>0, <1>3, ApplyFacts DEF Touch, WsTypeOK
  <1>4. CASE Land(q)
    BY <1>0, <1>4, ApplyFacts DEF Land, WsTypeOK
  <1>5. CASE Outside(q)
    <2>1. disk' \subseteq Workspaces
      BY <1>0, <1>5 DEF Outside, WsTypeOK, OpOf, Item, OpFits
    <2> QED BY <1>0, <1>5, <2>1, GoesFacts DEF Outside, WsTypeOK
  <1>6. CASE OutsideFails(q)
    <2>1. mishaps' \in Nat
      BY <1>6, FaultType DEF OutsideFails, WsTypeOK
    <2> QED BY <1>6, <2>1, AnswerFacts DEF OutsideFails, WsTypeOK
  <1>7. CASE BeginSave(q)
    <2>1. snap' \in [Instances -> SUBSET Items] /\ todo' \in [Instances -> SUBSET Tenants]
      BY <1>0, <1>7, ItemFacts DEF BeginSave, WsTypeOK, At, Item
    <2> QED BY <1>0, <1>7, <2>1, GoesFacts DEF BeginSave, WsTypeOK
  <1>8. ASSUME Pop(q), Writes(q) PROVE queue' \in [Instances -> Seq(Slots)]
    BY <1>0, <1>8 DEF Pop, At, WsTypeOK, WritesFit, Writes
  <1>9. CASE EndSave(q)
    <2>1. owed' \subseteq Items /\ known' \subseteq Items /\ withdrawn' \subseteq Items
      BY <1>0, <1>9, RequestFacts DEF EndSave, WsTypeOK, Item
    <2> QED BY <1>8, <1>9, <2>1, AnswerFacts DEF EndSave, WsTypeOK, Writes
  <1>10. CASE TakeBack(q)
    <2>1. mem' \in [Instances -> SUBSET Items]
      BY <1>0, <1>10, RequestFacts DEF TakeBack, WsTypeOK, At
    <2>2. disk' \subseteq Workspaces
      BY <1>10 DEF TakeBack, WsTypeOK
    <2> QED BY <1>10, <2>1, <2>2, AnswerFacts DEF TakeBack, WsTypeOK
  <1>11. ASSUME NEW t \in Tenants, ClaimLate(q, t) PROVE WsTypeOK'
    <2>1. forfeited' \subseteq Items
      BY <1>11 DEF ClaimLate, WsTypeOK
    <2> QED BY <1>0, <1>11, <2>1, ClaimFacts DEF ClaimLate, WsTypeOK, At
  <1>12. ASSUME NEW t \in Tenants, NEW written \in BOOLEAN, FailSave(q, t, written) PROVE WsTypeOK'
    <2>1. job' \in [Slots -> Jobs]
      BY <1>0, <1>12, GoesFacts, AnswerFacts DEF FailSave
    <2>2. record' \in [Tenants -> SUBSET Items] /\ version' \in [Tenants -> Nat] /\ owner' = owner /\ live' = live
      BY <1>0, <1>12, WriteFacts DEF FailSave, At, WsTypeOK
    <2>3. todo' \in [Instances -> SUBSET Tenants] /\ failed' \in [Instances -> BOOLEAN]
      BY <1>12 DEF FailSave, WsTypeOK
    <2>4. mishaps' \in Nat
      BY <1>12, FaultType DEF FailSave, WsTypeOK
    <2>5. queue' \in [Instances -> Seq(Slots)]
      BY <1>8, <1>12 DEF FailSave, Writes
    <2> QED BY <1>12, <2>1, <2>2, <2>3, <2>4, <2>5 DEF FailSave, WsTypeOK
  <1> QED BY <1>1, <1>2, <1>3, <1>4, <1>5, <1>6, <1>7, <1>9, <1>10, <1>11, <1>12 DEF RequestStep

LEMMA WorldStepType ==
    ASSUME WsTypeOK, \/ \E t \in Tenants : OwnerExpires(t) \/ OpenTenant(t)
                   \/ \E x \in Items : ItemExpires(x)
    PROVE  WsTypeOK'
  BY DEF OwnerExpires, OpenTenant, ItemExpires, WsTypeOK


-----------------------------------------------------------------------------
(* Where requests, writes, instances and rows stand.                       *)

Answers(q) == job'[q] = NoJob /\ \A p \in Slots \ {q} : job'[p] = job[p]
Turns(q, pc) ==
    /\ job'[q].pc = pc /\ job'[q].at = job[q].at /\ job'[q].op = job[q].op
    /\ job'[q].item = job[q].item /\ job'[q].taken = job[q].taken /\ job'[q].clash = job[q].clash
    /\ \A p \in Slots \ {q} : job'[p] = job[p]

LEMMA Owner ==
    ASSUME Base, NEW q \in Slots, job[q].pc # "idle"
    PROVE  /\ Busy(q) /\ job[q].at \in Instances /\ job[q].item \in Items /\ OpFits(job[q].op, job[q].item)
           /\ Listening(job[q].at) /\ job[q].taken \subseteq Items /\ job[q].clash \in BOOLEAN
           /\ job[q].op \in Adding \cup Removing \cup {"use", "download"}
           /\ \A x \in job[q].taken : TenantOf[x] = Home(q)
           /\ job[q].taken # {} => job[q].op \in Removing
  <1>1. /\ Busy(q) /\ job[q].at \in Instances /\ job[q].item \in Items /\ OpFits(job[q].op, job[q].item)
        /\ Listening(job[q].at) /\ job[q].taken \subseteq Items /\ job[q].clash \in BOOLEAN
        /\ job[q].op \in Adding \cup Removing \cup {"use", "download"}
    BY RequestFacts DEF Base, RequestsFit, Busy
  <1>2. job[q].taken \subseteq Gone(job[q].op, job[q].item)
    BY <1>1 DEF Base, RequestsFit, GoneIn
  <1> QED BY <1>1, <1>2, GoneFacts DEF Home

(* One write at a time. *)
LEMMA OneWrite ==
    ASSUME Base, NEW p \in Slots, NEW q \in Slots, Writes(p), Writes(q), job[p].at = job[q].at
    PROVE  p = q
  BY DEF Base, WritesFit

LEMMA RequestsFitKept == ASSUME Base, WsTypeOK', [WsNext]_wsVars PROVE RequestsFit'
  <1> USE DEF Base
  <1>1. ASSUME UNCHANGED job, ids \subseteq ids', \A i \in Instances : Listening(i) => Listening(i)' PROVE RequestsFit'
    BY <1>1, Owner DEF RequestsFit, OpFits, GoneIn, Busy, Early
  <1>2. ASSUME NEW q \in Slots, Answers(q), UNCHANGED <<phase, ids>> PROVE RequestsFit'
    BY <1>2 DEF RequestsFit, OpFits, GoneIn, Busy, Early, Answers, Listening, NoJob
  <1>3. ASSUME NEW q \in Slots, Busy(q), NEW pc \in {"out", "back", "queued", "saving", "undo"}, Turns(q, pc),
               UNCHANGED <<phase, ids>>,
               pc \in {"out", "back"} => Early(q) /\ job[q].op \notin {"issue", "grant"},
               pc = "undo" => job[q].op \in {"issue", "revoke", "prepare"}
        PROVE RequestsFit'
    BY <1>3 DEF RequestsFit, OpFits, GoneIn, Busy, Early, Turns, Listening
  <1>4. ASSUME NEW i \in Instances, Down(i) PROVE RequestsFit'
    <2>1. \A q \in Slots : job'[q].pc # "idle" => job'[q] = job[q] /\ job[q].at \in Instances \ {i}
      BY <1>4, DownFacts, Owner DEF NoJob
    <2>2. \A q \in Slots : job'[q].pc # "idle" => Listening(job[q].at)'
      BY <1>4, <2>1, DownFacts, Owner DEF Listening
    <2>3. ids' = ids
      BY <1>4, DownFacts
    <2> QED BY <2>1, <2>2, <2>3 DEF RequestsFit, OpFits, GoneIn, Busy, Early
  <1>5. ASSUME NEW i \in Instances, InstanceStep(i) PROVE RequestsFit'
    <2>1. CASE StartInstance(i) \/ Close(i) \/ RenewFails(i) \/ Listen(i)
      BY <1>1, <2>1 DEF StartInstance, Close, RenewFails, Listen, Listening, WsTypeOK
    <2>2. CASE GiveUpStart(i) \/ ExitInstance(i) \/ CrashInstance(i) \/ \E t \in Tenants : LoadRefused(i, t)
      BY <1>4, <2>2 DEF GiveUpStart, ExitInstance, CrashInstance, LoadRefused
    <2>3. ASSUME NEW t \in Tenants, Load(i, t) \/ Save(i, t) PROVE RequestsFit'
      BY <1>1, <2>3 DEF Load, Save, Listening
    <2>4. ASSUME NEW D \in SUBSET Workspaces, Restore(i, D) PROVE RequestsFit'
      BY <1>1, <2>4 DEF Restore, Listening, WsTypeOK
    <2> QED BY <1>5, <2>1, <2>2, <2>3, <2>4 DEF InstanceStep, StartStep
  <1>6. ASSUME NEW q \in Slots, RequestStep(q) PROVE RequestsFit'
    <2>1. CASE Refuse(q) \/ OutsideFails(q) \/ EndSave(q) \/ TakeBack(q)
      BY <1>2, <2>1, AnswerFacts DEF Refuse, OutsideFails, EndSave, TakeBack, Answers
    <2>2. CASE GoOut(q)
      BY <1>3, <2>2, GoesFacts DEF GoOut, Turns, GoesOut, OpOf, Early, Busy
    <2>3. CASE Outside(q)
      BY <1>3, <2>3, GoesFacts DEF Outside, Turns, Early, Busy, RequestsFit
    <2>4. CASE BeginSave(q)
      BY <1>3, <2>4, GoesFacts DEF BeginSave, Turns, Early, Busy, RequestsFit
    <2>5. CASE Touch(q) \/ Land(q)
      <3>1. Busy(q) /\ OpFits(job[q].op, job[q].item) /\ Apply(q) /\ UNCHANGED <<phase, ids>>
        BY <2>5, Owner DEF Touch, Land, Busy
      <3> QED BY <3>1, ApplyFacts DEF RequestsFit, OpFits, GoneIn, Busy, Early, Listening
    <2>6. ASSUME NEW t \in Tenants, ClaimLate(q, t) PROVE RequestsFit'
      BY <1>1, <2>6 DEF ClaimLate, Listening
    <2>7. ASSUME NEW t \in Tenants, NEW written \in BOOLEAN, FailSave(q, t, written) PROVE RequestsFit'
      <3>1. CASE OpOf(q) \in {"issue", "revoke", "prepare"}
        BY <1>3, <2>7, <3>1, GoesFacts DEF FailSave, Turns, Early, Busy, OpOf
      <3>2. CASE OpOf(q) \notin {"issue", "revoke", "prepare"}
        BY <1>2, <2>7, <3>2, AnswerFacts DEF FailSave, Answers
      <3> QED BY <3>1, <3>2
    <2> QED BY <1>6, <2>1, <2>2, <2>3, <2>4, <2>5, <2>6, <2>7 DEF RequestStep
  <1>7. ASSUME NEW q \in Slots, NEW i \in Instances, NEW c \in Calls, Arrive(q, i, c) PROVE RequestsFit'
    <2>1. /\ job'[q].pc = "called" /\ job'[q].at = i /\ job'[q].op = c.op /\ job'[q].item = c.item
          /\ job'[q].taken = {} /\ c.item \in ids' /\ ids \subseteq ids' /\ phase' = phase /\ Listening(i)
      BY <1>7 DEF Arrive
    <2>2. ASSUME NEW p \in Slots, p # q
          PROVE  /\ job'[p].pc = job[p].pc /\ job'[p].at = job[p].at /\ job'[p].op = job[p].op
                 /\ job'[p].item = job[p].item /\ job'[p].taken = job[p].taken
      BY <1>7, <2>2, RequestFacts DEF Arrive, NoJob
    <2>3. OpFits(c.op, c.item)
      BY CallFacts
    <2> QED BY <2>1, <2>2, <2>3 DEF RequestsFit, OpFits, GoneIn, Busy, Early, Listening
  <1>8. ASSUME \/ \E t \in Tenants : OwnerExpires(t) \/ OpenTenant(t)
               \/ \E x \in Items : ItemExpires(x)
               \/ UNCHANGED wsVars
        PROVE RequestsFit'
    BY <1>1, <1>8 DEF OwnerExpires, OpenTenant, ItemExpires, wsVars, Listening
  <1> QED BY <1>5, <1>6, <1>7, <1>8 DEF WsNext


LEMMA WritesFitKept == ASSUME Base, WsTypeOK', [WsNext]_wsVars PROVE WritesFit'
  <1> USE DEF Base
  <1>1. ASSUME UNCHANGED <<job, queue, todo>>,
               \A i \in Instances : phase'[i] # "closing" /\ Listening(i) => phase[i] # "closing" /\ owned[i] \subseteq owned'[i]
        PROVE WritesFit'
    BY <1>1, Owner DEF WritesFit, Writes, Home
  <1>2. ASSUME NEW q \in Slots, ~Writes(q), ~Writes(q)', \A p \in Slots \ {q} : job'[p] = job[p],
               UNCHANGED <<todo, phase, owned>>,
               \A i \in Instances : queue'[i] = queue[i] \/ queue'[i] = Append(queue[i], q)
        PROVE WritesFit'
    <2>1. \A i \in Instances : queue[i] # <<>> => queue'[i] # <<>> /\ Head(queue'[i]) = Head(queue[i])
      <3> TAKE i \in Instances
      <3>1. queue[i] \in Seq(Slots)
        BY DEF WsTypeOK
      <3>2. queue[i] # <<>> => Append(queue[i], q) # <<>> /\ Head(Append(queue[i], q)) = Head(queue[i])
        BY <3>1
      <3> QED BY <1>2, <3>2
    <2> QED BY <1>2, <2>1, Owner DEF WritesFit, Writes, Home
  <1>3. ASSUME NEW q \in Slots, Writes(q), ~Writes(q)', \A p \in Slots \ {q} : job'[p] = job[p],
               UNCHANGED <<phase, owned>>,
               \A i \in Instances \ {job[q].at} : queue'[i] = queue[i] /\ todo'[i] = todo[i]
        PROVE WritesFit'
    <2>1. \A p \in Slots : Writes(p)' => p # q /\ job'[p] = job[p] /\ Writes(p) /\ job[p].at \in Instances \ {job[q].at}
      BY <1>3, Owner, OneWrite DEF Writes
    <2> QED BY <1>3, <2>1 DEF WritesFit, Writes, Home
  <1>4. ASSUME NEW i \in Instances, Down(i) PROVE WritesFit'
    <2>1. \A q \in Slots : Writes(q)' => job'[q] = job[q] /\ Writes(q) /\ job[q].at \in Instances \ {i}
      BY <1>4, DownFacts, Owner DEF NoJob, Writes
    <2>2. \A j \in Instances \ {i} : phase'[j] = phase[j] /\ queue'[j] = queue[j] /\ todo'[j] = todo[j] /\ owned'[j] = owned[j]
      BY <1>4, DownFacts
    <2> QED BY <2>1, <2>2 DEF WritesFit, Writes, Home
  <1>5. ASSUME NEW i \in Instances, ~Listening(i), UNCHANGED <<job, queue>>,
               \A j \in Instances \ {i} : phase'[j] = phase[j] /\ todo'[j] = todo[j] /\ owned'[j] = owned[j]
        PROVE WritesFit'
    BY <1>5, Owner DEF WritesFit, Writes, Home
  <1>6. ASSUME NEW i \in Instances, InstanceStep(i) PROVE WritesFit'
    <2>1. CASE StartInstance(i) \/ Listen(i)
      BY <1>5, <2>1 DEF StartInstance, Listen, Listening, WsTypeOK
    <2>2. CASE GiveUpStart(i) \/ ExitInstance(i) \/ CrashInstance(i) \/ \E t \in Tenants : LoadRefused(i, t)
      BY <1>4, <2>2 DEF GiveUpStart, ExitInstance, CrashInstance, LoadRefused
    <2>3. ASSUME NEW t \in Tenants, Load(i, t) PROVE WritesFit'
      <3>1. /\ ~Listening(i) /\ UNCHANGED <<job, queue, phase>>
            /\ \A j \in Instances \ {i} : todo'[j] = todo[j]
        BY <2>3 DEF Load, Listening, WsTypeOK
      <3>2. \A j \in Instances \ {i} : owned'[j] = owned[j]
        BY <2>3, ClaimFacts DEF Load
      <3> QED BY <1>5, <3>1, <3>2
    <2>4. ASSUME NEW D \in SUBSET Workspaces, Restore(i, D) PROVE WritesFit'
      BY <1>5, <2>4 DEF Restore, Listening, WsTypeOK
    <2>5. CASE RenewFails(i)
      BY <1>1, <2>5 DEF RenewFails
    <2>6. CASE Close(i)
      <3>1. phase'[i] = "closing" /\ UNCHANGED <<job, queue, todo>>
            /\ \A j \in Instances \ {i} : phase'[j] = phase[j] /\ owned'[j] = owned[j]
        BY <2>6 DEF Close, WsTypeOK
      <3> QED BY <1>1, <3>1
    <2>7. ASSUME NEW t \in Tenants, Save(i, t) PROVE WritesFit'
      <3>1. /\ UNCHANGED <<job, queue, phase, owned>> /\ t \in owned[i]
            /\ todo'[i] = todo[i] \ {t} /\ \A j \in Instances \ {i} : todo'[j] = todo[j]
        BY <2>7 DEF Save, WsTypeOK
      <3> QED BY <3>1, Owner DEF WritesFit, Writes, Home
    <2> QED BY <1>6, <2>1, <2>2, <2>3, <2>4, <2>5, <2>6, <2>7 DEF InstanceStep, StartStep
  <1>7. ASSUME NEW q \in Slots, RequestStep(q) PROVE WritesFit'
    <2>1. CASE Refuse(q) \/ OutsideFails(q) \/ TakeBack(q)
      BY <1>2, <2>1, AnswerFacts DEF Refuse, OutsideFails, TakeBack, Writes, NoJob
    <2>2. CASE GoOut(q) \/ Outside(q)
      BY <1>2, <2>2, Owner, GoesFacts DEF GoOut, Outside, Writes
    <2>3. CASE Touch(q) \/ Land(q)
      BY <1>2, <2>3, Owner, ApplyFacts DEF Touch, Land, Writes
    <2>4. CASE BeginSave(q)
      <3> DEFINE i == job[q].at
      <3>1. /\ i \in Instances /\ Writes(q)' /\ ~Writes(q) /\ queue[i] # <<>> /\ Head(queue[i]) = q
            /\ job'[q].at = i /\ job'[q].op = job[q].op /\ job'[q].item = job[q].item
            /\ \A p \in Slots \ {q} : job'[p] = job[p]
            /\ UNCHANGED <<phase, owned, queue>>
            /\ todo'[i] = IF job[q].op = "download" THEN owned[i] ELSE {Home(q)}
            /\ \A j \in Instances \ {i} : todo'[j] = todo[j]
        BY <2>4, Owner, GoesFacts DEF BeginSave, Writes, First, At, OpOf, Item, Home, WsTypeOK
      <3>2. \A p \in Slots \ {q} : Writes(p)' => Writes(p) /\ job[p].at # i /\ job[p].at \in Instances
        BY <3>1, Owner DEF Writes, WritesFit
      <3> QED BY <3>1, <3>2 DEF WritesFit, Writes, Home
    <2>5. CASE EndSave(q)
      <3>1. /\ Writes(q) /\ UNCHANGED <<phase, owned, todo>>
            /\ \A i \in Instances \ {job[q].at} : queue'[i] = queue[i]
        BY <2>5 DEF EndSave, Writes, Pop, At, WsTypeOK
      <3>2. ~Writes(q)' /\ \A p \in Slots \ {q} : job'[p] = job[p]
        BY <2>5, AnswerFacts DEF EndSave, Writes, NoJob
      <3> QED BY <1>3, <3>1, <3>2
    <2>6. ASSUME NEW t \in Tenants, ClaimLate(q, t) PROVE WritesFit'
      BY <1>1, <2>6, Owner, ClaimFacts DEF ClaimLate, At
    <2>7. ASSUME NEW t \in Tenants, NEW written \in BOOLEAN, FailSave(q, t, written) PROVE WritesFit'
      <3>1. /\ Writes(q) /\ UNCHANGED <<phase, owned>>
            /\ \A i \in Instances \ {job[q].at} : queue'[i] = queue[i] /\ todo'[i] = todo[i]
        BY <2>7, Owner DEF FailSave, Writes, Pop, At, WsTypeOK
      <3>2. ~Writes(q)' /\ \A p \in Slots \ {q} : job'[p] = job[p]
        BY <2>7, Owner, GoesFacts, AnswerFacts DEF FailSave, Writes, NoJob
      <3> QED BY <1>3, <3>1, <3>2
    <2> QED BY <1>7, <2>1, <2>2, <2>3, <2>4, <2>5, <2>6, <2>7 DEF RequestStep
  <1>8. ASSUME NEW q \in Slots, NEW i \in Instances, NEW c \in Calls, Arrive(q, i, c) PROVE WritesFit'
    <2>1. /\ job'[q].pc = "called" /\ UNCHANGED <<queue, todo, phase, owned>>
      BY <1>8 DEF Arrive
    <2>2. ASSUME NEW p \in Slots, p # q
          PROVE  /\ job'[p].pc = job[p].pc /\ job'[p].at = job[p].at /\ job'[p].op = job[p].op
                 /\ job'[p].item = job[p].item
      BY <1>8, <2>2, RequestFacts DEF Arrive, NoJob
    <2> QED BY <2>1, <2>2 DEF WritesFit, Writes, Home
  <1>9. ASSUME \/ \E t \in Tenants : OwnerExpires(t) \/ OpenTenant(t)
               \/ \E x \in Items : ItemExpires(x)
               \/ UNCHANGED wsVars
        PROVE WritesFit'
    BY <1>1, <1>9 DEF OwnerExpires, OpenTenant, ItemExpires, wsVars
  <1> QED BY <1>6, <1>7, <1>8, <1>9 DEF WsNext


LEMMA PhasesFitKept == ASSUME Base, WsTypeOK', [WsNext]_wsVars PROVE PhasesFit'
  <1> USE DEF Base
  <1>1. ASSUME UNCHANGED <<phase, mem, owned, snap, todo>> PROVE PhasesFit'
    BY <1>1 DEF PhasesFit
  <1>2. ASSUME NEW i \in Instances, Listening(i),
               UNCHANGED phase, phase[i] = "closing" => owned'[i] = owned[i],
               \A j \in Instances \ {i} : mem'[j] = mem[j] /\ owned'[j] = owned[j] /\ snap'[j] = snap[j] /\ todo'[j] = todo[j]
        PROVE PhasesFit'
    BY <1>2 DEF PhasesFit, Listening
  <1>3. ASSUME NEW i \in Instances, Down(i) PROVE PhasesFit'
    BY <1>3, DownFacts DEF PhasesFit
  <1>4. ASSUME NEW i \in Instances, InstanceStep(i) PROVE PhasesFit'
    <2>1. CASE StartInstance(i)
      BY <2>1 DEF StartInstance, PhasesFit, WsTypeOK
    <2>2. CASE GiveUpStart(i) \/ ExitInstance(i) \/ CrashInstance(i) \/ \E t \in Tenants : LoadRefused(i, t)
      BY <1>3, <2>2 DEF GiveUpStart, ExitInstance, CrashInstance, LoadRefused
    <2>3. CASE Listen(i) \/ Close(i) \/ RenewFails(i)
      BY <2>3 DEF Listen, Close, RenewFails, PhasesFit, WsTypeOK
    <2>4. ASSUME NEW t \in Tenants, Load(i, t) PROVE PhasesFit'
      <3>1. /\ UNCHANGED <<phase, snap>> /\ phase[i] = "loading"
            /\ mem'[i] = mem[i] \cup record[t] /\ todo'[i] = todo[i] \ {t}
            /\ \A j \in Instances \ {i} : mem'[j] = mem[j] /\ todo'[j] = todo[j]
        BY <2>4 DEF Load, WsTypeOK
      <3>2. owned'[i] = owned[i] \cup {t} /\ \A j \in Instances \ {i} : owned'[j] = owned[j]
        BY <2>4, ClaimFacts DEF Load
      <3> QED BY <3>1, <3>2 DEF PhasesFit, RowsFit
    <2>5. ASSUME NEW D \in SUBSET Workspaces, Restore(i, D) PROVE PhasesFit'
      BY <2>5 DEF Restore, PhasesFit, WsTypeOK
    <2>6. ASSUME NEW t \in Tenants, Save(i, t) PROVE PhasesFit'
      BY <2>6 DEF Save, PhasesFit, WsTypeOK
    <2> QED BY <1>4, <2>1, <2>2, <2>3, <2>4, <2>5, <2>6 DEF InstanceStep, StartStep
  <1>5. ASSUME NEW q \in Slots, RequestStep(q) PROVE PhasesFit'
    <2>0. job[q].pc # "idle" => job[q].at \in Instances /\ Listening(job[q].at)
      BY Owner
    <2>1. CASE Refuse(q) \/ TakeBack(q)
      BY <1>2, <2>0, <2>1 DEF Refuse, TakeBack, At, WsTypeOK
    <2>2. CASE GoOut(q) \/ Outside(q) \/ OutsideFails(q) \/ EndSave(q)
      BY <1>1, <2>2 DEF GoOut, Outside, OutsideFails, EndSave
    <2>3. CASE Touch(q) \/ Land(q)
      BY <1>2, <2>0, <2>3 DEF Touch, Land, Apply, At, WsTypeOK
    <2>4. CASE BeginSave(q)
      BY <1>2, <2>0, <2>4 DEF BeginSave, At, WsTypeOK
    <2>5. ASSUME NEW t \in Tenants, ClaimLate(q, t) PROVE PhasesFit'
      BY <1>2, <2>0, <2>5, ClaimFacts DEF ClaimLate, At, Claim, Claimable
    <2>6. ASSUME NEW t \in Tenants, NEW written \in BOOLEAN, FailSave(q, t, written) PROVE PhasesFit'
      BY <1>2, <2>0, <2>6 DEF FailSave, At, WsTypeOK
    <2> QED BY <1>5, <2>1, <2>2, <2>3, <2>4, <2>5, <2>6 DEF RequestStep
  <1>6. ASSUME NEW q \in Slots, NEW i \in Instances, NEW c \in Calls, Arrive(q, i, c) PROVE PhasesFit'
    BY <1>1, <1>6 DEF Arrive
  <1>7. ASSUME \/ \E t \in Tenants : OwnerExpires(t) \/ OpenTenant(t)
               \/ \E x \in Items : ItemExpires(x)
               \/ UNCHANGED wsVars
        PROVE PhasesFit'
    BY <1>1, <1>7 DEF OwnerExpires, OpenTenant, ItemExpires, wsVars
  <1> QED BY <1>4, <1>5, <1>6, <1>7 DEF WsNext

(* Rows change by writes alone, each of one row. *)
LEMMA RowsChange ==
    ASSUME WsTypeOK, [WsNext]_wsVars
    PROVE  \/ record' = record
           \/ \E i \in Instances, t \in Tenants : Save(i, t)
           \/ \E q \in Slots, t \in Tenants, written \in BOOLEAN : FailSave(q, t, written) /\ written
  <1>1. ASSUME NEW i \in Instances, InstanceStep(i), ~\E t \in Tenants : Save(i, t) PROVE record' = record
    BY <1>1 DEF InstanceStep, StartStep, StartInstance, Listen, GiveUpStart, Load, LoadRefused, Restore, Close, ExitInstance, CrashInstance,
                RenewFails, Down, Claim
  <1>2. ASSUME NEW q \in Slots, RequestStep(q), record' # record
        PROVE  \E t \in Tenants, written \in BOOLEAN : FailSave(q, t, written) /\ written
    BY <1>2 DEF RequestStep, Refuse, GoOut, Touch, Outside, OutsideFails, Land, BeginSave, EndSave, TakeBack, ClaimLate,
                FailSave, Claim
  <1>3. ASSUME NEW q \in Slots, NEW i \in Instances, NEW c \in Calls, Arrive(q, i, c) PROVE record' = record
    BY <1>3 DEF Arrive
  <1>4. ASSUME \/ \E t \in Tenants : OwnerExpires(t) \/ OpenTenant(t)
               \/ \E x \in Items : ItemExpires(x)
               \/ UNCHANGED wsVars
        PROVE record' = record
    BY <1>4 DEF OwnerExpires, OpenTenant, ItemExpires, wsVars
  <1> QED BY <1>1, <1>2, <1>3, <1>4 DEF WsNext

\* What a write to the database does, whether the instance hears of it or not.
Stores(i, t) ==
    /\ Saving(i) /\ t \in todo[i] \cap owned[i] /\ MayWrite(i, t)
    /\ record'[t] = Slice(snap[i], t) /\ \A u \in Tenants \ {t} : record'[u] = record[u]

LEMMA SaveStores == ASSUME WsTypeOK, NEW i \in Instances, NEW t \in Tenants, Save(i, t) PROVE Stores(i, t)
  BY WriteFacts DEF Save, Stores

LEMMA FailSaveStores ==
    ASSUME Base, NEW q \in Slots, NEW t \in Tenants, FailSave(q, t, TRUE) PROVE Stores(job[q].at, t)
  BY WriteFacts, Owner DEF FailSave, Stores, Base, Saving, At

LEMMA RowsFitKept == ASSUME Base, [WsNext]_wsVars PROVE RowsFit'
  <1> USE DEF Base
  <1>1. CASE record' = record
    BY <1>1 DEF RowsFit
  <1>2. ASSUME NEW i \in Instances, NEW t \in Tenants, Stores(i, t) PROVE RowsFit'
    <2>1. snap[i] \in SUBSET Items
      BY DEF WsTypeOK
    <2>2. ASSUME NEW u \in Tenants, NEW x \in record'[u]
          PROVE  TenantOf[x] = u /\ (x \in Grants => ObjectOf[x] \in record'[u])
      <3>1. CASE u = t
        <4>1. x \in Slice(snap[i], t) /\ record'[u] = Slice(snap[i], t)
          BY <1>2, <3>1 DEF Stores
        <4>2. \A y \in Slice(snap[i], t) : TenantOf[y] = t /\ (y \in Grants => ObjectOf[y] \in Slice(snap[i], t))
          BY <2>1, SliceFacts
        <4> QED BY <3>1, <4>1, <4>2
      <3>2. CASE u # t
        BY <1>2, <3>2 DEF Stores, RowsFit
      <3> QED BY <3>1, <3>2
    <2> QED BY <2>2 DEF RowsFit
  <1>3. ASSUME NEW q \in Slots, NEW t \in Tenants, FailSave(q, t, TRUE) PROVE RowsFit'
    BY <1>2, <1>3, FailSaveStores, Owner DEF FailSave
  <1> QED BY <1>1, <1>2, <1>3, RowsChange, SaveStores

LEMMA BaseInit == WsInit => Base
  <1> SUFFICES ASSUME WsInit PROVE Base
    OBVIOUS
  <1>1. WsTypeOK
    BY DEF WsInit, WsTypeOK, Jobs
  <1>2. \A q \in Slots : job[q].pc = "idle"
    BY DEF WsInit, NoJob
  <1> QED BY <1>1, <1>2 DEF WsInit, Base, RequestsFit, WritesFit, PhasesFit, RowsFit, Busy, Writes

LEMMA StepType == ASSUME Base, [WsNext]_wsVars PROVE WsTypeOK'
  <1>1. CASE UNCHANGED wsVars
    BY <1>1 DEF wsVars, Base, WsTypeOK
  <1> QED BY <1>1, InstanceStepType, RequestStepType, CallFitsType, WorldStepType DEF WsNext, Base

LEMMA BaseStep == ASSUME Base, [WsNext]_wsVars PROVE Base'
  BY StepType, RequestsFitKept, WritesFitKept, PhasesFitKept, RowsFitKept DEF Base


-----------------------------------------------------------------------------
(* Nothing comes out of nothing.                                           *)

(* One request at most makes an item.                                      *)
OneMaker == \A p, q \in Slots : Makes(p) /\ Makes(q) /\ job[p].item = job[q].item => p = q

(* An item is anywhere only after its maker has entered it.                *)
Made(x) == x \in ids /\ \A q \in Slots : Makes(q) /\ Early(q) => job[q].item # x
Somewhere(x) == x \in record[TenantOf[x]] \/ x \in withdrawn \/ \E i \in Instances : Has(i, x)
NothingUnborn == \A x \in Secret : Somewhere(x) => Made(x)

Origins == OneMaker /\ NothingUnborn

(* A request stays what it is about, or ends; requests under way were      *)
(* under way.                                                              *)
Remains(q) ==
    Busy(q)' => Busy(q) /\ job'[q].op = job[q].op /\ job'[q].item = job[q].item /\ job'[q].at = job[q].at
                /\ (Early(q)' => Early(q)) /\ (job[q].clash => job'[q].clash)

LEMMA RemainFacts ==
    ASSUME Base, [WsNext]_wsVars, NEW q \in Slots
    PROVE  Remains(q) \/ \E i \in Instances, c \in Calls : Arrive(q, i, c)
  <1> USE DEF Base
  <1>1. job'[q] = job[q] => Remains(q)
    BY DEF Remains, Busy, Early
  <1>2. job'[q] = NoJob => Remains(q)
    BY DEF Remains, Busy, Early, NoJob
  <1>3. ASSUME NEW i \in Instances, InstanceStep(i) PROVE Remains(q)
    <2>1. CASE StartInstance(i) \/ Close(i) \/ RenewFails(i) \/ Listen(i)
      BY <1>1, <2>1 DEF StartInstance, Close, RenewFails, Listen
    <2>2. CASE GiveUpStart(i) \/ ExitInstance(i) \/ CrashInstance(i) \/ \E t \in Tenants : LoadRefused(i, t)
      BY <1>1, <1>2, <2>2, DownFacts DEF GiveUpStart, ExitInstance, CrashInstance, LoadRefused
    <2>3. CASE \E t \in Tenants : Load(i, t) \/ Save(i, t)
      BY <1>1, <2>3 DEF Load, Save
    <2>4. CASE \E D \in SUBSET Workspaces : Restore(i, D)
      BY <1>1, <2>4 DEF Restore
    <2> QED BY <1>3, <2>1, <2>2, <2>3, <2>4 DEF InstanceStep, StartStep
  <1>4. ASSUME NEW p \in Slots, RequestStep(p) PROVE Remains(q)
    <2>0. ASSUME p # q, job'[q] = job[q] PROVE Remains(q)
      BY <1>1, <2>0
    <2>1. CASE Refuse(p) \/ OutsideFails(p) \/ EndSave(p) \/ TakeBack(p)
      BY <1>1, <1>2, <2>1, AnswerFacts DEF Refuse, OutsideFails, EndSave, TakeBack
    <2>2. CASE GoOut(p) \/ Outside(p) \/ BeginSave(p)
      BY <1>1, <2>2, Owner, GoesFacts DEF GoOut, Outside, BeginSave, Remains, Busy, Early
    <2>3. CASE Touch(p) \/ Land(p)
      BY <1>1, <2>3, Owner, ApplyFacts DEF Touch, Land, Remains, Busy, Early
    <2>4. CASE \E t \in Tenants : ClaimLate(p, t)
      BY <1>1, <2>4 DEF ClaimLate
    <2>5. ASSUME NEW t \in Tenants, NEW written \in BOOLEAN, FailSave(p, t, written) PROVE Remains(q)
      BY <1>1, <1>2, <2>5, Owner, GoesFacts, AnswerFacts DEF FailSave, Remains, Busy, Early
    <2> QED BY <1>4, <2>1, <2>2, <2>3, <2>4, <2>5 DEF RequestStep
  <1>5. ASSUME NEW p \in Slots, NEW i \in Instances, NEW c \in Calls, Arrive(p, i, c), p # q PROVE Remains(q)
    BY <1>5, RequestFacts DEF Arrive, Remains, Busy, Early, NoJob
  <1>6. ASSUME \/ \E t \in Tenants : OwnerExpires(t) \/ OpenTenant(t)
               \/ \E x \in Items : ItemExpires(x)
               \/ UNCHANGED wsVars
        PROVE Remains(q)
    BY <1>1, <1>6 DEF OwnerExpires, OpenTenant, ItemExpires, wsVars
  <1> QED BY <1>3, <1>4, <1>5, <1>6 DEF WsNext

LEMMA UsedGrows == [WsNext]_wsVars => ids \subseteq ids'
  <1> SUFFICES ASSUME [WsNext]_wsVars PROVE ids \subseteq ids'
    OBVIOUS
  <1>1. ASSUME NEW i \in Instances, InstanceStep(i) PROVE ids' = ids
    BY <1>1 DEF InstanceStep, StartStep, StartInstance, Listen, GiveUpStart, Load, LoadRefused, Restore, Close, ExitInstance, CrashInstance,
                RenewFails, Down, Save
  <1>2. ASSUME NEW q \in Slots, RequestStep(q) PROVE ids' = ids
    BY <1>2 DEF RequestStep, Refuse, GoOut, Touch, Outside, OutsideFails, Land, BeginSave, EndSave, TakeBack, ClaimLate,
                FailSave
  <1> QED BY <1>1, <1>2 DEF WsNext, Arrive, OwnerExpires, OpenTenant, ItemExpires, wsVars

LEMMA OneMakerKept == ASSUME Base, OneMaker, [WsNext]_wsVars PROVE OneMaker'
  <1>1. CASE \A q \in Slots : Remains(q)
    BY <1>1 DEF OneMaker, Makes, Remains
  <1>2. ASSUME NEW q \in Slots, NEW i \in Instances, NEW c \in Calls, Arrive(q, i, c) PROVE OneMaker'
    <2>1. /\ Makes(q)' => c.item \notin ids
          /\ job'[q].item = c.item /\ ~Busy(q)
      BY <1>2 DEF Arrive, Makes, Busy
    <2>2. \A p \in Slots \ {q} : Makes(p)' => Makes(p) /\ job'[p].item = job[p].item /\ job[p].item \in ids
      BY <1>2, RequestFacts DEF Arrive, Makes, Busy, Base, RequestsFit, NoJob
    <2> QED BY <2>1, <2>2 DEF OneMaker
  <1> QED BY <1>1, <1>2, RemainFacts


Enters(q, x) == (Touch(q) \/ Land(q)) /\ job[q].op \in Adding /\ job[q].item = x

(* Where a copy of an item comes from.                                     *)
LEMMA CopiesFrom ==
    ASSUME Base, WsTypeOK', [WsNext]_wsVars, NEW i \in Instances, NEW x \in Items, Has(i, x)', ~Has(i, x)
    PROVE  \/ Load(i, TenantOf[x]) /\ x \in record[TenantOf[x]]
           \/ \E q \in Slots : Enters(q, x) /\ job[q].at = i
  <1> USE DEF Base
  <1>1. ~(mem'[i] \subseteq mem[i] /\ snap'[i] \subseteq mem[i] \cup snap[i]
          /\ \A q \in Slots : job'[q].at = i => job'[q].taken = {} \/ (job[q].at = i /\ job'[q].taken \subseteq job[q].taken))
    BY DEF Has
  <1>2. ~(UNCHANGED <<mem, snap, job>>)
    BY <1>1
  <1>3. ASSUME NEW j \in Instances, Down(j) PROVE FALSE
    <2>1. \A q \in Slots : job'[q].at = i => job'[q] = job[q]
      BY <1>3, DownFacts, OwnerAssumption DEF NoJob
    <2>2. mem'[i] \subseteq mem[i] /\ snap'[i] \subseteq snap[i]
      BY <1>3, DownFacts
    <2> QED BY <1>1, <2>1, <2>2
  <1>4. ASSUME NEW j \in Instances, InstanceStep(j)
        PROVE  Load(i, TenantOf[x]) /\ x \in record[TenantOf[x]]
    <2>1. CASE StartInstance(j) \/ Listen(j) \/ Close(j) \/ RenewFails(j) \/ \E t \in Tenants : Save(j, t)
      BY <1>2, <2>1 DEF StartInstance, Listen, Close, RenewFails, Save
    <2>2. CASE GiveUpStart(j) \/ ExitInstance(j) \/ CrashInstance(j) \/ \E t \in Tenants : LoadRefused(j, t)
      BY <1>3, <2>2 DEF GiveUpStart, ExitInstance, CrashInstance, LoadRefused
    <2>3. ASSUME NEW t \in Tenants, Load(j, t) PROVE Load(i, TenantOf[x]) /\ x \in record[TenantOf[x]]
      <3>1. UNCHANGED <<snap, job>> /\ mem' = [mem EXCEPT ![j] = @ \cup record[t]]
        BY <2>3 DEF Load
      <3>2. x \in mem'[i] /\ x \notin mem[i]
        BY <3>1 DEF Has
      <3>3. j = i /\ x \in record[t]
        BY <3>1, <3>2 DEF WsTypeOK
      <3> QED BY <2>3, <3>3 DEF RowsFit
    <2>4. ASSUME NEW D \in SUBSET Workspaces, Restore(j, D) PROVE FALSE
      <3>1. /\ UNCHANGED job /\ mem'[j] \subseteq mem[j] /\ snap'[j] = mem'[j]
            /\ \A k \in Instances \ {j} : mem'[k] = mem[k] /\ snap'[k] = snap[k]
        BY <2>4 DEF Restore, WsTypeOK
      <3> QED BY <1>1, <3>1
    <2> QED BY <1>4, <2>1, <2>2, <2>3, <2>4 DEF InstanceStep, StartStep
  <1>5. ASSUME NEW q \in Slots, RequestStep(q)
        PROVE  Enters(q, x) /\ job[q].at = i
    <2>1. CASE Refuse(q) \/ OutsideFails(q) \/ EndSave(q)
      <3>1. Answers(q) /\ mem'[i] \subseteq mem[i] /\ UNCHANGED snap
        BY <2>1, AnswerFacts DEF Refuse, OutsideFails, EndSave, Answers, WsTypeOK
      <3> QED BY <1>1, <3>1 DEF Answers, NoJob
    <2>2. CASE GoOut(q) \/ Outside(q)
      BY <1>1, <2>2, Owner, GoesFacts DEF GoOut, Outside
    <2>3. CASE Touch(q) \/ Land(q)
      <3> DEFINE k == job[q].at
      <3>1. /\ k \in Instances /\ UNCHANGED snap
            /\ job'[q].at = k /\ job'[q].taken \subseteq mem[k]
            /\ \A p \in Slots \ {q} : job'[p] = job[p]
            /\ mem'[k] \subseteq mem[k] \cup (IF job[q].op \in Adding THEN {job[q].item} ELSE {})
            /\ \A j \in Instances \ {k} : mem'[j] = mem[j]
        BY <2>3, Owner, ApplyFacts DEF Touch, Land
      <3>2. i = k
        BY <1>1, <3>1
      <3>3. x \in mem'[i] /\ x \notin mem[i]
        BY <3>1, <3>2 DEF Has
      <3> QED BY <2>3, <3>1, <3>2, <3>3 DEF Enters
    <2>4. CASE BeginSave(q)
      <3>1. Turns(q, "saving") /\ UNCHANGED mem /\ snap'[i] \subseteq mem[i] \cup snap[i]
        BY <2>4, Owner, GoesFacts DEF BeginSave, Turns, WsTypeOK, At
      <3> QED BY <1>1, <3>1 DEF Turns
    <2>5. CASE TakeBack(q)
      <3>1. /\ Answers(q) /\ UNCHANGED snap /\ job[q].at \in Instances
            /\ mem'[job[q].at] \subseteq mem[job[q].at] \cup job[q].taken
            /\ \A j \in Instances \ {job[q].at} : mem'[j] = mem[j]
        BY <2>5, Owner, AnswerFacts DEF TakeBack, Answers, At, WsTypeOK
      <3> QED BY <3>1 DEF Has, Answers, NoJob
    <2>6. ASSUME NEW t \in Tenants, ClaimLate(q, t) PROVE FALSE
      BY <1>2, <2>6 DEF ClaimLate
    <2>7. ASSUME NEW t \in Tenants, NEW written \in BOOLEAN, FailSave(q, t, written) PROVE FALSE
      <3>1. Answers(q) \/ Turns(q, "undo")
        BY <2>7, Owner, GoesFacts, AnswerFacts DEF FailSave, Answers, Turns
      <3> QED BY <1>1, <2>7, <3>1 DEF FailSave, Answers, Turns, NoJob
    <2> QED BY <1>5, <2>1, <2>2, <2>3, <2>4, <2>5, <2>6, <2>7 DEF RequestStep
  <1>6. ASSUME NEW q \in Slots, NEW k \in Instances, NEW c \in Calls, Arrive(q, k, c) PROVE FALSE
    <2>1. /\ UNCHANGED <<mem, snap>> /\ job'[q].taken = {}
          /\ \A p \in Slots \ {q} : job'[p].at = job[p].at /\ job'[p].taken = job[p].taken
      BY <1>6, RequestFacts DEF Arrive, NoJob
    <2> QED BY <1>1, <2>1
  <1>7. ASSUME \/ \E t \in Tenants : OwnerExpires(t) \/ OpenTenant(t)
               \/ \E y \in Items : ItemExpires(y)
               \/ UNCHANGED wsVars
        PROVE FALSE
    BY <1>2, <1>7 DEF OwnerExpires, OpenTenant, ItemExpires, wsVars
  <1> QED BY <1>4, <1>5, <1>6, <1>7 DEF WsNext

LEMMA RowsFrom ==
    ASSUME Base, [WsNext]_wsVars, NEW x \in Items, x \in record'[TenantOf[x]], x \notin record[TenantOf[x]]
    PROVE  \E i \in Instances : Stores(i, TenantOf[x]) /\ x \in snap[i]
  <1> USE DEF Base
  <1>0. TenantOf[x] \in Tenants
    BY ItemFacts
  <1>1. ASSUME NEW i \in Instances, NEW t \in Tenants, Stores(i, t)
        PROVE  Stores(i, TenantOf[x]) /\ x \in snap[i]
    <2>1. t = TenantOf[x]
      BY <1>0, <1>1 DEF Stores
    <2>2. x \in Slice(snap[i], t)
      BY <1>1, <2>1 DEF Stores
    <2> QED BY <1>1, <2>1, <2>2 DEF Slice
  <1>2. ASSUME NEW q \in Slots, NEW t \in Tenants, FailSave(q, t, TRUE)
        PROVE  \E i \in Instances, u \in Tenants : Stores(i, u)
    BY <1>2, FailSaveStores, Owner DEF FailSave
  <1> QED BY <1>1, <1>2, RowsChange, SaveStores

LEMMA WithdrawnFrom ==
    ASSUME [WsNext]_wsVars, withdrawn' # withdrawn
    PROVE  \E q \in Slots : EndSave(q)
  <1>1. ASSUME NEW i \in Instances, InstanceStep(i) PROVE withdrawn' = withdrawn
    BY <1>1 DEF InstanceStep, StartStep, StartInstance, Listen, GiveUpStart, Load, LoadRefused, Restore, Close, ExitInstance, CrashInstance,
                RenewFails, Down, Save
  <1>2. ASSUME NEW q \in Slots, RequestStep(q), ~EndSave(q) PROVE withdrawn' = withdrawn
    BY <1>2 DEF RequestStep, Refuse, GoOut, Touch, Outside, OutsideFails, Land, BeginSave, TakeBack, ClaimLate,
                FailSave
  <1> QED BY <1>1, <1>2 DEF WsNext, Arrive, OwnerExpires, OpenTenant, ItemExpires, wsVars

LEMMA Withdrawing ==
    ASSUME Base, NEW q \in Slots, EndSave(q)
    PROVE  /\ withdrawn' = withdrawn \cup (job[q].taken \ Objects) /\ Writes(q) /\ todo[job[q].at] = {}
           /\ job[q].at \in Instances /\ \A x \in job[q].taken : Has(job[q].at, x)
  BY Owner DEF EndSave, Writes, At, Has


LEMMA MadeStays ==
    ASSUME Base, OneMaker, [WsNext]_wsVars, NEW x \in Secret, Made(x)
    PROVE  Made(x)'
  <1>1. CASE \A q \in Slots : Remains(q)
    BY <1>1, UsedGrows DEF Made, Makes, Remains
  <1>2. ASSUME NEW q \in Slots, NEW i \in Instances, NEW c \in Calls, Arrive(q, i, c) PROVE Made(x)'
    <2>1. Makes(q)' => job'[q].item \notin ids
      BY <1>2 DEF Arrive, Makes, Busy
    <2>2. \A p \in Slots \ {q} : Makes(p)' /\ Early(p)' => Makes(p) /\ Early(p) /\ job'[p].item = job[p].item
      BY <1>2, RequestFacts DEF Arrive, Makes, Busy, Early, Base, NoJob
    <2> QED BY <2>1, <2>2, UsedGrows DEF Made
  <1> QED BY <1>1, <1>2, RemainFacts

(* The request that enters an item makes it, and is not early any more.    *)
LEMMA EntersFacts ==
    ASSUME Base, NEW q \in Slots, NEW x \in Secret, Enters(q, x)
    PROVE  /\ Makes(q) /\ Early(q) /\ x \in ids /\ job[q].at \in Instances
           /\ Apply(q) /\ OpFits(job[q].op, x) /\ GoneIn(job[q]) = {}
           /\ job'[q].pc = "queued" /\ job'[q].taken = {}
  <1> USE DEF Base
  <1>1. Busy(q) /\ Early(q) /\ Apply(q) /\ job[q].item = x /\ job[q].op \in Adding
    BY DEF Enters, Touch, Land, Early, Busy
  <1>2. OpFits(job[q].op, x) /\ x \in ids /\ job[q].at \in Instances
    BY <1>1, Owner DEF RequestsFit, Busy
  <1>3. GivesId(job[q].op)
    BY <1>1, <1>2 DEF OpFits, Secret, Adding, GivesId
  <1>4. GoneIn(job[q]) = {}
    BY <1>1, <1>2, GoneFacts, ItemFacts DEF Adding, Removing, GoneIn, Secret
  <1>5. job'[q].pc = "queued" /\ job'[q].taken = {}
    BY <1>1, <1>2, <1>4, ApplyFacts
  <1> QED BY <1>1, <1>2, <1>3, <1>4, <1>5 DEF Makes

LEMMA EnteredIsMade ==
    ASSUME Base, OneMaker, [WsNext]_wsVars, NEW q \in Slots, NEW x \in Secret, Enters(q, x)
    PROVE  Made(x)'
  <1>1. Makes(q) /\ Early(q) /\ x \in ids /\ job'[q].pc = "queued" /\ job[q].item = x
    BY EntersFacts DEF Enters
  <1>2. \A p \in Slots \ {q} : job'[p] = job[p]
    BY EntersFacts, ApplyFacts DEF Enters, Makes, Base
  <1>3. \A p \in Slots \ {q} : Makes(p) => job[p].item # x
    BY <1>1 DEF OneMaker
  <1> QED BY <1>1, <1>2, <1>3, UsedGrows DEF Made, Makes, Busy, Early

LEMMA OriginsKept == ASSUME Base, Origins, [WsNext]_wsVars PROVE Origins'
  <1> USE DEF Origins
  <1>0. Base' /\ \A x \in Secret : x \in Items
    BY BaseStep DEF Secret
  <1>1. ASSUME NEW x \in Secret, Somewhere(x)' PROVE Made(x)'
    <2>1. CASE Somewhere(x)
      BY <2>1, MadeStays DEF NothingUnborn
    <2>2. CASE ~Somewhere(x) /\ x \in record'[TenantOf[x]]
      BY <1>0, <2>2, RowsFrom DEF Somewhere, Has
    <2>3. CASE ~Somewhere(x) /\ x \in withdrawn'
      <3>1. x \notin withdrawn
        BY <2>3 DEF Somewhere
      <3> QED BY <2>3, <3>1, WithdrawnFrom, Withdrawing DEF Somewhere
    <2>4. ASSUME NEW i \in Instances, ~Somewhere(x), Has(i, x)' PROVE Made(x)'
      <3>1. \E q \in Slots : Enters(q, x)
        BY <1>0, <2>4, CopiesFrom DEF Somewhere, Base
      <3> QED BY <3>1, EnteredIsMade
    <2> QED BY <1>1, <2>1, <2>2, <2>3, <2>4 DEF Somewhere
  <1> QED BY <1>1, OneMakerKept DEF NothingUnborn

(* What is entered was nowhere before.                                     *)
LEMMA EnteredIsNew ==
    ASSUME Base, Origins, NEW q \in Slots, NEW x \in Secret, Enters(q, x)
    PROVE  ~Somewhere(x)
  BY EntersFacts DEF Origins, NothingUnborn, Made, Enters

-----------------------------------------------------------------------------
(* What a request has taken away is nowhere else with its instance.        *)

TakenOnce ==
    \A q \in Slots : \A x \in job[q].taken \cap Secret :
        /\ x \notin mem[job[q].at]
        /\ Writes(q) => x \notin snap[job[q].at]
        /\ \A p \in Slots : job[p].at = job[q].at /\ x \in job[p].taken => p = q

(* How a request comes to hold what it has taken.                          *)
LEMMA TakenFrom ==
    ASSUME Base, [WsNext]_wsVars, NEW q \in Slots, job'[q].taken # {}
    PROVE  \/ /\ job'[q].taken = job[q].taken /\ job'[q].at = job[q].at
              /\ Writes(q)' => Writes(q) \/ BeginSave(q)
           \/ Touch(q) \/ Land(q)
  <1> USE DEF Base
  <1>1. ASSUME job'[q] # job[q] PROVE job'[q] # NoJob
    BY DEF NoJob
  <1>2. ASSUME NEW i \in Instances, InstanceStep(i) PROVE job'[q] = job[q]
    <2>1. CASE GiveUpStart(i) \/ ExitInstance(i) \/ CrashInstance(i) \/ \E t \in Tenants : LoadRefused(i, t)
      BY <1>1, <2>1, DownFacts DEF GiveUpStart, ExitInstance, CrashInstance, LoadRefused
    <2>2. CASE UNCHANGED job
      BY <2>2
    <2> QED BY <1>2, <2>1, <2>2 DEF InstanceStep, StartStep, StartInstance, Listen, Load, Restore, Close, RenewFails, Save
  <1>3. ASSUME NEW p \in Slots, RequestStep(p), p # q PROVE job'[q] = job[q]
    <2>1. CASE Refuse(p) \/ OutsideFails(p) \/ EndSave(p) \/ TakeBack(p)
      BY <1>3, <2>1, AnswerFacts DEF Refuse, OutsideFails, EndSave, TakeBack
    <2>2. CASE GoOut(p) \/ Outside(p) \/ BeginSave(p)
      BY <1>3, <2>2, Owner, GoesFacts DEF GoOut, Outside, BeginSave
    <2>3. CASE Touch(p) \/ Land(p)
      BY <1>3, <2>3, Owner, ApplyFacts DEF Touch, Land
    <2>4. CASE \E t \in Tenants : ClaimLate(p, t)
      BY <2>4 DEF ClaimLate
    <2>5. ASSUME NEW t \in Tenants, NEW written \in BOOLEAN, FailSave(p, t, written) PROVE job'[q] = job[q]
      BY <1>3, <2>5, Owner, GoesFacts, AnswerFacts DEF FailSave
    <2> QED BY <1>3, <2>1, <2>2, <2>3, <2>4, <2>5 DEF RequestStep
  <1>4. ASSUME RequestStep(q), ~Touch(q), ~Land(q)
        PROVE  /\ job'[q].taken = job[q].taken /\ job'[q].at = job[q].at
               /\ Writes(q)' => Writes(q) \/ BeginSave(q)
    <2>1. CASE Refuse(q) \/ OutsideFails(q) \/ EndSave(q) \/ TakeBack(q)
      BY <2>1, AnswerFacts DEF Refuse, OutsideFails, EndSave, TakeBack, NoJob
    <2>2. CASE GoOut(q) \/ Outside(q)
      BY <2>2, Owner, GoesFacts DEF GoOut, Outside, Writes
    <2>3. CASE BeginSave(q)
      BY <2>3, Owner, GoesFacts DEF BeginSave
    <2>4. CASE \E t \in Tenants : ClaimLate(q, t)
      BY <2>4 DEF ClaimLate, Writes
    <2>5. ASSUME NEW t \in Tenants, NEW written \in BOOLEAN, FailSave(q, t, written)
          PROVE  job'[q].taken = job[q].taken /\ job'[q].at = job[q].at /\ (Writes(q)' => Writes(q))
      BY <2>5, Owner, GoesFacts, AnswerFacts DEF FailSave, NoJob, Writes
    <2> QED BY <1>4, <2>1, <2>2, <2>3, <2>4, <2>5 DEF RequestStep
  <1>5. ASSUME NEW p \in Slots, NEW i \in Instances, NEW c \in Calls, Arrive(p, i, c)
        PROVE  job'[q].taken = job[q].taken /\ job'[q].at = job[q].at /\ (Writes(q)' => Writes(q))
    BY <1>5, RequestFacts DEF Arrive, NoJob, Writes
  <1>6. ASSUME \/ \E t \in Tenants : OwnerExpires(t) \/ OpenTenant(t)
               \/ \E x \in Items : ItemExpires(x)
               \/ UNCHANGED wsVars
        PROVE job'[q] = job[q]
    BY <1>6 DEF OwnerExpires, OpenTenant, ItemExpires, wsVars
  <1> QED BY <1>2, <1>3, <1>4, <1>5, <1>6 DEF WsNext, Writes


LEMMA MemFrom ==
    ASSUME Base, WsTypeOK', [WsNext]_wsVars, NEW i \in Instances, NEW x \in Items, x \in mem'[i], x \notin mem[i]
    PROVE  \/ Load(i, TenantOf[x]) /\ x \in record[TenantOf[x]]
           \/ \E q \in Slots : job[q].at = i /\ (Enters(q, x) \/ (TakeBack(q) /\ x \in job[q].taken))
  <1> USE DEF Base
  <1>1. CASE ~Has(i, x)
    BY <1>1, CopiesFrom DEF Has
  <1>2. ~UNCHANGED mem
    OBVIOUS
  <1>3. ASSUME NEW j \in Instances, InstanceStep(j)
        PROVE  Load(i, TenantOf[x]) /\ x \in record[TenantOf[x]]
    <2>1. CASE StartInstance(j) \/ Listen(j) \/ Close(j) \/ RenewFails(j) \/ \E t \in Tenants : Save(j, t)
      BY <1>2, <2>1 DEF StartInstance, Listen, Close, RenewFails, Save
    <2>2. CASE GiveUpStart(j) \/ ExitInstance(j) \/ CrashInstance(j) \/ \E t \in Tenants : LoadRefused(j, t)
      BY <2>2, DownFacts DEF GiveUpStart, ExitInstance, CrashInstance, LoadRefused
    <2>3. ASSUME NEW t \in Tenants, Load(j, t) PROVE Load(i, TenantOf[x]) /\ x \in record[TenantOf[x]]
      <3>1. mem' = [mem EXCEPT ![j] = @ \cup record[t]]
        BY <2>3 DEF Load
      <3>2. j = i /\ x \in record[t]
        BY <3>1 DEF WsTypeOK
      <3> QED BY <2>3, <3>2 DEF RowsFit
    <2>4. ASSUME NEW D \in SUBSET Workspaces, Restore(j, D) PROVE FALSE
      BY <2>4 DEF Restore, WsTypeOK
    <2> QED BY <1>3, <2>1, <2>2, <2>3, <2>4 DEF InstanceStep, StartStep
  <1>4. ASSUME NEW q \in Slots, RequestStep(q)
        PROVE  job[q].at = i /\ (Enters(q, x) \/ (TakeBack(q) /\ x \in job[q].taken))
    <2>1. CASE Refuse(q)
      BY <2>1 DEF Refuse, WsTypeOK
    <2>2. CASE UNCHANGED mem
      BY <1>2, <2>2
    <2>3. CASE Touch(q) \/ Land(q)
      <3>1. /\ job[q].at \in Instances
            /\ mem'[job[q].at] \subseteq mem[job[q].at] \cup (IF job[q].op \in Adding THEN {job[q].item} ELSE {})
            /\ \A j \in Instances \ {job[q].at} : mem'[j] = mem[j]
        BY <2>3, Owner, ApplyFacts DEF Touch, Land
      <3> QED BY <2>3, <3>1 DEF Enters
    <2>4. CASE TakeBack(q)
      <3>1. /\ job[q].at \in Instances
            /\ mem'[job[q].at] \subseteq mem[job[q].at] \cup job[q].taken
            /\ \A j \in Instances \ {job[q].at} : mem'[j] = mem[j]
        BY <2>4, Owner DEF TakeBack, At, WsTypeOK
      <3> QED BY <2>4, <3>1
    <2> QED BY <1>4, <2>1, <2>2, <2>3, <2>4
            DEF RequestStep, GoOut, Outside, OutsideFails, BeginSave, EndSave, ClaimLate, FailSave
  <1>5. ASSUME \/ \E q \in Slots, k \in Instances, c \in Calls : Arrive(q, k, c)
               \/ \E t \in Tenants : OwnerExpires(t) \/ OpenTenant(t)
               \/ \E y \in Items : ItemExpires(y)
               \/ UNCHANGED wsVars
        PROVE FALSE
    BY <1>2, <1>5 DEF Arrive, OwnerExpires, OpenTenant, ItemExpires, wsVars
  <1> QED BY <1>3, <1>4, <1>5 DEF WsNext

(* A write that begins is the only one of its instance.                    *)
LEMMA BeginSaveFacts ==
    ASSUME Base, NEW q \in Slots, BeginSave(q)
    PROVE  /\ Busy(q) /\ ~Writes(q) /\ Writes(q)' /\ job[q].at \in Instances
           /\ snap'[job[q].at] = mem[job[q].at]
           /\ job[q].op # "download" => todo'[job[q].at] = {Home(q)}
           /\ \A j \in Instances \ {job[q].at} : snap'[j] = snap[j] /\ todo'[j] = todo[j]
           /\ Turns(q, "saving")
           /\ UNCHANGED <<record, owner, phase, mem, owned, queue, disk, expired, ids, owed, withdrawn, forfeited>>
           /\ \A p \in Slots : Writes(p) => job[p].at # job[q].at
  <1> USE DEF Base
  <1>1. Busy(q) /\ ~Writes(q) /\ job[q].at \in Instances /\ Goes(q, "saving")
    BY Owner DEF BeginSave, Writes
  <1>2. Turns(q, "saving")
    BY <1>1, GoesFacts DEF Turns
  <1>3. /\ snap' = [snap EXCEPT ![job[q].at] = mem[job[q].at]]
        /\ todo' = [todo EXCEPT ![job[q].at] = IF job[q].op = "download" THEN owned[job[q].at] ELSE {Home(q)}]
        /\ queue[job[q].at] # <<>> /\ Head(queue[job[q].at]) = q
        /\ UNCHANGED <<record, owner, phase, mem, owned, queue, disk, expired, ids, owed, withdrawn, forfeited>>
    BY DEF BeginSave, First, At, OpOf, Item, Home
  <1>4. \A p \in Slots : Writes(p) => job[p].at # job[q].at
    BY <1>1, <1>3 DEF WritesFit
  <1>5. Writes(q)'
    BY <1>2 DEF Turns, Writes
  <1>6. /\ snap'[job[q].at] = mem[job[q].at]
        /\ job[q].op # "download" => todo'[job[q].at] = {Home(q)}
        /\ \A j \in Instances \ {job[q].at} : snap'[j] = snap[j] /\ todo'[j] = todo[j]
    BY <1>1, <1>3 DEF WsTypeOK
  <1> QED BY <1>1, <1>2, <1>3, <1>4, <1>5, <1>6

LEMMA SnapFrom ==
    ASSUME Base, [WsNext]_wsVars, NEW i \in Instances, NEW x \in Items, x \in snap'[i], x \notin snap[i]
    PROVE  x \in mem[i] /\ (~Listening(i) \/ \E q \in Slots : job[q].at = i /\ BeginSave(q))
  <1> USE DEF Base
  <1>2. ~UNCHANGED snap
    OBVIOUS
  <1>3. ASSUME NEW j \in Instances, InstanceStep(j) PROVE x \in mem[i] /\ ~Listening(i)
    <2>1. CASE UNCHANGED snap
      BY <1>2, <2>1
    <2>2. CASE GiveUpStart(j) \/ ExitInstance(j) \/ CrashInstance(j) \/ \E t \in Tenants : LoadRefused(j, t)
      BY <2>2, DownFacts DEF GiveUpStart, ExitInstance, CrashInstance, LoadRefused
    <2>3. ASSUME NEW D \in SUBSET Workspaces, Restore(j, D) PROVE x \in mem[i] /\ ~Listening(i)
      BY <2>3 DEF Restore, WsTypeOK, Listening
    <2> QED BY <1>3, <2>1, <2>2, <2>3 DEF InstanceStep, StartStep, StartInstance, Listen, Load, Close, RenewFails, Save
  <1>4. ASSUME NEW q \in Slots, RequestStep(q)
        PROVE  job[q].at = i /\ BeginSave(q) /\ x \in mem[i]
    <2>1. CASE BeginSave(q)
      BY <2>1, BeginSaveFacts
    <2>2. CASE UNCHANGED snap
      BY <1>2, <2>2
    <2> QED BY <1>4, <2>1, <2>2
            DEF RequestStep, Refuse, GoOut, Outside, OutsideFails, Touch, Land, EndSave, ClaimLate, FailSave, TakeBack
  <1>5. ASSUME \/ \E q \in Slots, k \in Instances, c \in Calls : Arrive(q, k, c)
               \/ \E t \in Tenants : OwnerExpires(t) \/ OpenTenant(t)
               \/ \E y \in Items : ItemExpires(y)
               \/ UNCHANGED wsVars
        PROVE FALSE
    BY <1>2, <1>5 DEF Arrive, OwnerExpires, OpenTenant, ItemExpires, wsVars
  <1> QED BY <1>3, <1>4, <1>5 DEF WsNext

LEMMA TakenOnceKept == ASSUME Base, Origins, TakenOnce, [WsNext]_wsVars PROVE TakenOnce'
  <1> USE DEF Base
  <1>0. Base'
    BY BaseStep
  <1>1. ASSUME NEW q \in Slots, NEW x \in job'[q].taken \cap Secret, job'[q].taken = job[q].taken, job'[q].at = job[q].at,
               Writes(q)' => Writes(q) \/ BeginSave(q)
        PROVE  /\ x \notin mem'[job'[q].at]
               /\ Writes(q)' => x \notin snap'[job'[q].at]
               /\ \A p \in Slots : job'[p].at = job'[q].at /\ x \in job'[p].taken => p = q
    <2> DEFINE i == job[q].at
    <2>1. /\ Busy(q) /\ i \in Instances /\ Listening(i) /\ x \in Items /\ x \in Secret
          /\ x \notin mem[i] /\ (Writes(q) => x \notin snap[i]) /\ Has(i, x)
          /\ \A p \in Slots : job[p].at = i /\ x \in job[p].taken => p = q
      BY <1>1, RequestFacts, Owner DEF TakenOnce, Secret, Has, Busy
    <2>2. ~\E p \in Slots : Enters(p, x)
      BY <2>1, EnteredIsNew DEF Somewhere
    <2>3. ~TakeBack(q)
      BY <1>1, AnswerFacts DEF TakeBack, NoJob
    <2>4. ~Load(i, TenantOf[x])
      BY <2>1 DEF Load, Listening
    <2>5. x \notin mem'[i]
      BY <1>0, <2>1, <2>2, <2>3, <2>4, MemFrom
    <2>6. Writes(q)' => x \notin snap'[i]
      <3>1. CASE BeginSave(q)
        BY <2>1, <3>1, BeginSaveFacts
      <3>2. CASE Writes(q)
        BY <2>1, <3>2, SnapFrom, BeginSaveFacts
      <3> QED BY <1>1, <3>1, <3>2
    <2>7. ASSUME NEW p \in Slots, job'[p].at = i, x \in job'[p].taken PROVE p = q
      <3>1. CASE job'[p].taken = job[p].taken /\ job'[p].at = job[p].at
        BY <2>1, <2>7, <3>1
      <3>2. CASE Touch(p) \/ Land(p)
        <4>1. job[p].at = i /\ job'[p].taken \subseteq mem[i]
          BY <2>7, <3>2, Owner, ApplyFacts DEF Touch, Land
        <4> QED BY <2>1, <2>7, <4>1
      <3> QED BY <2>7, <3>1, <3>2, TakenFrom
    <2> QED BY <1>1, <2>5, <2>6, <2>7
  <1>2. ASSUME NEW q \in Slots, NEW x \in job'[q].taken \cap Secret, Touch(q) \/ Land(q)
        PROVE  /\ x \notin mem'[job'[q].at]
               /\ Writes(q)' => x \notin snap'[job'[q].at]
               /\ \A p \in Slots : job'[p].at = job'[q].at /\ x \in job'[p].taken => p = q
    <2> DEFINE i == job[q].at
    <2>1. /\ i \in Instances /\ job'[q].at = i /\ x \in mem[i] /\ x \in GoneIn(job[q]) /\ job'[q].pc = "queued"
          /\ mem'[i] = (mem[i] \ GoneIn(job[q])) \cup (IF job[q].op \in Adding THEN {job[q].item} ELSE {})
          /\ \A p \in Slots \ {q} : job'[p] = job[p]
          /\ OpFits(job[q].op, job[q].item) /\ job[q].item \in Items
      BY <1>2, Owner, ApplyFacts DEF Touch, Land
    <2>2. job[q].op \notin Adding
      BY <2>1, GoneFacts DEF GoneIn, Adding, Removing
    <2> QED BY <1>2, <2>1, <2>2 DEF TakenOnce, Writes
  <1> QED BY <1>1, <1>2, TakenFrom DEF TakenOnce


-----------------------------------------------------------------------------
(* What a row has never seen is with one instance.                         *)

Private(i, x) ==
    /\ x \notin record[TenantOf[x]] /\ x \notin withdrawn
    /\ \A j \in Instances \ {i} : ~Has(j, x)

(* An instance that has not claimed the row has what only it knows of.     *)
Unwritten ==
    \A i \in Instances, x \in Secret :
        Has(i, x) /\ phase[i] # "closing" /\ TenantOf[x] \notin owned[i] => Private(i, x)

LEMMA DownHasNothing == ASSUME WsTypeOK, NEW i \in Instances, Down(i), NEW x PROVE ~Has(i, x)'
  BY DownFacts DEF Has, NoJob

(* An instance gives up what it owns when it ends, and at once.            *)
LEMMA OwnedChange ==
    ASSUME Base, [WsNext]_wsVars, NEW i \in Instances
    PROVE  \/ Down(i)
           \/ phase'[i] = "closing"
           \/ owned[i] \subseteq owned'[i] /\ phase[i] # "closing"
  <1> USE DEF Base
  <1>1. ASSUME owned'[i] = owned[i], phase'[i] = phase[i] PROVE phase'[i] = "closing" \/ (owned[i] \subseteq owned'[i] /\ phase[i] # "closing")
    BY <1>1
  <1>2. ASSUME NEW j \in Instances, InstanceStep(j)
        PROVE  Down(i) \/ phase'[i] = "closing" \/ (owned[i] \subseteq owned'[i] /\ phase[i] # "closing")
    <2>1. CASE StartInstance(j) \/ Listen(j) \/ Close(j) \/ RenewFails(j) \/ (\E t \in Tenants : Save(j, t)) \/ \E D \in SUBSET Workspaces : Restore(j, D)
      BY <2>1 DEF StartInstance, Listen, Close, RenewFails, Save, Restore, WsTypeOK
    <2>2. CASE GiveUpStart(j) \/ ExitInstance(j) \/ CrashInstance(j) \/ \E t \in Tenants : LoadRefused(j, t)
      BY <2>2, DownFacts DEF GiveUpStart, ExitInstance, CrashInstance, LoadRefused
    <2>3. ASSUME NEW t \in Tenants, Load(j, t) PROVE phase'[i] = "closing" \/ (owned[i] \subseteq owned'[i] /\ phase[i] # "closing")
      BY <2>3, ClaimFacts DEF Load
    <2> QED BY <1>2, <2>1, <2>2, <2>3 DEF InstanceStep, StartStep
  <1>3. ASSUME NEW q \in Slots, RequestStep(q), ~\E t \in Tenants : ClaimLate(q, t) PROVE owned' = owned /\ phase' = phase
    BY <1>3 DEF RequestStep, Refuse, GoOut, Outside, OutsideFails, Touch, Land, BeginSave, EndSave, FailSave, TakeBack
  <1>4. ASSUME NEW q \in Slots, NEW t \in Tenants, ClaimLate(q, t)
        PROVE phase'[i] = "closing" \/ (owned[i] \subseteq owned'[i] /\ phase[i] # "closing")
    BY <1>4, ClaimFacts, Owner DEF ClaimLate, At
  <1>5. ASSUME \/ \E q \in Slots, k \in Instances, c \in Calls : Arrive(q, k, c)
               \/ \E t \in Tenants : OwnerExpires(t) \/ OpenTenant(t)
               \/ \E y \in Items : ItemExpires(y)
               \/ UNCHANGED wsVars
        PROVE owned' = owned /\ phase' = phase
    BY <1>5 DEF Arrive, OwnerExpires, OpenTenant, ItemExpires, wsVars
  <1> QED BY <1>1, <1>2, <1>3, <1>4, <1>5 DEF WsNext

LEMMA UnwrittenKept == ASSUME Base, Origins, Unwritten, [WsNext]_wsVars PROVE Unwritten'
  <1> USE DEF Base
  <1> SUFFICES ASSUME NEW i \in Instances, NEW x \in Secret, Has(i, x)', phase'[i] # "closing", TenantOf[x] \notin owned'[i]
               PROVE  Private(i, x)'
    BY DEF Unwritten
  <1>0. x \in Items /\ TenantOf[x] \in Tenants /\ Base'
    BY ItemFacts, BaseStep DEF Secret
  <1>1. phase[i] # "closing" /\ TenantOf[x] \notin owned[i]
    BY OwnedChange, DownHasNothing
  <1>2. CASE Has(i, x)
    <2>1. Private(i, x)
      BY <1>1, <1>2 DEF Unwritten
    <2>2. x \notin record'[TenantOf[x]]
      <3>1. ASSUME NEW j \in Instances, Stores(j, TenantOf[x]), x \in snap[j] PROVE FALSE
        BY <1>1, <2>1, <3>1 DEF Stores, Private, Has
      <3> QED BY <1>0, <2>1, <3>1, RowsFrom DEF Private
    <2>3. x \notin withdrawn'
      <3>1. ASSUME NEW q \in Slots, EndSave(q), x \in job[q].taken PROVE FALSE
        <4>1. job[q].at = i /\ Writes(q) /\ todo[i] = {}
          BY <2>1, <3>1, Withdrawing DEF Private
        <4>2. job[q].op # "download" /\ Home(q) = TenantOf[x]
          BY <3>1, <4>1, Owner DEF Removing, Writes
        <4> QED BY <1>1, <4>1, <4>2 DEF WritesFit
      <3> QED BY <2>1, <3>1, WithdrawnFrom, Withdrawing DEF Private
    <2>4. ASSUME NEW j \in Instances \ {i}, Has(j, x)' PROVE FALSE
      <3>1. ~\E q \in Slots : Enters(q, x)
        BY <1>2, EnteredIsNew DEF Somewhere
      <3> QED BY <1>0, <2>1, <2>4, <3>1, CopiesFrom DEF Private
    <2> QED BY <2>2, <2>3, <2>4 DEF Private
  <1>3. CASE ~Has(i, x)
    <2>1. PICK q \in Slots : Enters(q, x) /\ job[q].at = i
      <3>1. ~Load(i, TenantOf[x])
        BY <1>0, ClaimFacts DEF Load
      <3> QED BY <1>0, <1>3, <3>1, CopiesFrom
    <2>2. ~Somewhere(x)
      BY <2>1, EnteredIsNew
    <2>3. x \notin record'[TenantOf[x]]
      BY <1>0, <2>2, RowsFrom DEF Somewhere, Has
    <2>4. x \notin withdrawn'
      BY <2>2, WithdrawnFrom, Withdrawing DEF Somewhere
    <2>5. ASSUME NEW j \in Instances \ {i}, Has(j, x)' PROVE FALSE
      <3>1. PICK p \in Slots : Enters(p, x) /\ job[p].at = j
        BY <1>0, <2>2, <2>5, CopiesFrom DEF Somewhere
      <3>2. p = q
        BY <2>1, <3>1, EntersFacts DEF Origins, OneMaker, Enters
      <3> QED BY <2>1, <3>1, <3>2
    <2> QED BY <2>3, <2>4, <2>5 DEF Private
  <1> QED BY <1>2, <1>3


-----------------------------------------------------------------------------
(* What was withdrawn stays away.                                          *)

Rules(i, t) == t \in owned[i] /\ owner[t] = i

\* Withdrawn, or about to be: the row was written without it.
Lost(x) ==
    \/ x \in withdrawn
    \/ \E q \in Slots : Writes(q) /\ x \in job[q].taken /\ TenantOf[x] \notin todo[job[q].at]

(* Whoever may write the row can bring back nothing that was withdrawn.    *)
LostIsGone ==
    \A x \in Secret : Lost(x) =>
        /\ x \notin record[TenantOf[x]]
        /\ \A i \in Instances : Rules(i, TenantOf[x]) =>
              /\ x \notin mem[i] /\ x \notin snap[i]
              /\ \A q \in Slots : job[q].at = i /\ x \in job[q].taken => Writes(q) /\ TenantOf[x] \notin todo[i]

LEMMA TodoChange ==
    ASSUME Base, [WsNext]_wsVars, NEW i \in Instances, Listening(i), ~Down(i),
           ~\E q \in Slots : job[q].at = i /\ (BeginSave(q) \/ \E t \in Tenants, written \in BOOLEAN : FailSave(q, t, written))
    PROVE  todo'[i] \subseteq todo[i] /\ \A t \in Tenants : t \in todo[i] \ todo'[i] => Save(i, t)
  <1> USE DEF Base
  <1>2. ASSUME NEW j \in Instances, InstanceStep(j)
        PROVE  todo'[i] \subseteq todo[i] /\ \A t \in Tenants : t \in todo[i] \ todo'[i] => Save(i, t)
    <2>1. CASE UNCHANGED todo
      BY <2>1
    <2>2. CASE GiveUpStart(j) \/ ExitInstance(j) \/ CrashInstance(j) \/ \E t \in Tenants : LoadRefused(j, t)
      BY <2>2, DownFacts DEF GiveUpStart, ExitInstance, CrashInstance, LoadRefused
    <2>3. CASE StartInstance(j) \/ (\E t \in Tenants : Load(j, t)) \/ \E D \in SUBSET Workspaces : Restore(j, D)
      <3>1. i # j
        BY <2>3 DEF StartInstance, Load, Restore, Listening
      <3> QED BY <2>3, <3>1 DEF StartInstance, Load, Restore, WsTypeOK
    <2>4. ASSUME NEW t \in Tenants, Save(j, t)
          PROVE  todo'[i] \subseteq todo[i] /\ \A u \in Tenants : u \in todo[i] \ todo'[i] => Save(i, u)
      <3>1. todo' = [todo EXCEPT ![j] = @ \ {t}]
        BY <2>4 DEF Save
      <3>2. CASE i = j
        BY <2>4, <3>1, <3>2 DEF WsTypeOK
      <3>3. CASE i # j
        BY <3>1, <3>3 DEF WsTypeOK
      <3> QED BY <3>2, <3>3
    <2> QED BY <1>2, <2>1, <2>2, <2>3, <2>4 DEF InstanceStep, StartStep, Listen, Close, RenewFails
  <1>3. ASSUME NEW q \in Slots, RequestStep(q) PROVE todo'[i] = todo[i]
    <2>1. CASE UNCHANGED todo
      BY <2>1
    <2>2. CASE BeginSave(q)
      BY <2>2, BeginSaveFacts
    <2>3. ASSUME NEW t \in Tenants, NEW written \in BOOLEAN, FailSave(q, t, written) PROVE todo'[i] = todo[i]
      BY <2>3, Owner DEF FailSave, At, WsTypeOK
    <2> QED BY <1>3, <2>1, <2>2, <2>3
            DEF RequestStep, Refuse, GoOut, Outside, OutsideFails, Touch, Land, EndSave, ClaimLate, TakeBack
  <1>4. ASSUME \/ \E q \in Slots, k \in Instances, c \in Calls : Arrive(q, k, c)
               \/ \E t \in Tenants : OwnerExpires(t) \/ OpenTenant(t)
               \/ \E y \in Items : ItemExpires(y)
               \/ UNCHANGED wsVars
        PROVE todo'[i] = todo[i]
    BY <1>4 DEF Arrive, OwnerExpires, OpenTenant, ItemExpires, wsVars
  <1> QED BY <1>2, <1>3, <1>4 DEF WsNext

(* What a write that is not over has left to do, only its own steps do.    *)
LEMMA WriteGoesOn ==
    ASSUME Base, [WsNext]_wsVars, NEW q \in Slots, Writes(q), job'[q] # NoJob
    PROVE  LET i == job[q].at IN
           \/ /\ Writes(q)' /\ todo'[i] \subseteq todo[i]
              /\ \A t \in Tenants : t \in todo[i] \ todo'[i] => Save(i, t)
           \/ \E t \in todo[i], written \in BOOLEAN : FailSave(q, t, written)
  <1> USE DEF Base
  <1> DEFINE i == job[q].at
  <1>1. i \in Instances /\ Listening(i)
    BY Owner DEF Writes
  <1>2. ~Down(i)
    BY <1>1, DownFacts
  <1>3. ASSUME NEW p \in Slots, job[p].at = i, BeginSave(p) PROVE FALSE
    BY <1>3, BeginSaveFacts
  <1>4. ASSUME NEW p \in Slots, job[p].at = i, NEW t \in Tenants, NEW written \in BOOLEAN, FailSave(p, t, written)
        PROVE  p = q /\ t \in todo[i]
    BY <1>4, OneWrite DEF FailSave, Writes, At
  <1>5. CASE \E t \in Tenants, written \in BOOLEAN : FailSave(q, t, written)
    BY <1>4, <1>5
  <1>6. CASE ~\E t \in Tenants, written \in BOOLEAN : FailSave(q, t, written)
    <2>1. todo'[i] \subseteq todo[i] /\ \A t \in Tenants : t \in todo[i] \ todo'[i] => Save(i, t)
      BY <1>1, <1>2, <1>3, <1>4, <1>6, TodoChange
    <2>2. ASSUME NEW j \in Instances, InstanceStep(j) PROVE Writes(q)'
      <3>1. CASE GiveUpStart(j) \/ ExitInstance(j) \/ CrashInstance(j) \/ \E t \in Tenants : LoadRefused(j, t)
        BY <3>1, DownFacts DEF GiveUpStart, ExitInstance, CrashInstance, LoadRefused, NoJob, Writes
      <3>2. CASE UNCHANGED job
        BY <3>2 DEF Writes
      <3> QED BY <2>2, <3>1, <3>2 DEF InstanceStep, StartStep, StartInstance, Listen, Load, Restore, Close, RenewFails, Save
    <2>3. ASSUME NEW p \in Slots, RequestStep(p) PROVE Writes(q)'
      <3>1. CASE Refuse(p) \/ OutsideFails(p) \/ EndSave(p) \/ TakeBack(p)
        BY <3>1, AnswerFacts DEF Refuse, OutsideFails, EndSave, TakeBack, NoJob, Writes
      <3>2. CASE GoOut(p) \/ Outside(p)
        BY <3>2, Owner, GoesFacts DEF GoOut, Outside, Writes
      <3>3. CASE Touch(p) \/ Land(p)
        BY <3>3, Owner, ApplyFacts DEF Touch, Land, Writes
      <3>4. CASE BeginSave(p)
        BY <3>4, BeginSaveFacts DEF Turns, Writes
      <3>5. CASE \E t \in Tenants : ClaimLate(p, t)
        BY <3>5 DEF ClaimLate, Writes
      <3>6. ASSUME NEW t \in Tenants, NEW written \in BOOLEAN, FailSave(p, t, written) PROVE Writes(q)'
        <4>1. p # q
          BY <1>6, <3>6
        <4> QED BY <3>6, <4>1, Owner, GoesFacts, AnswerFacts DEF FailSave, Writes
      <3> QED BY <2>3, <3>1, <3>2, <3>3, <3>4, <3>5, <3>6 DEF RequestStep
    <2>4. ASSUME NEW p \in Slots, NEW j \in Instances, NEW c \in Calls, Arrive(p, j, c) PROVE Writes(q)'
      BY <2>4, RequestFacts DEF Arrive, Writes
    <2>5. ASSUME \/ \E t \in Tenants : OwnerExpires(t) \/ OpenTenant(t)
                 \/ \E x \in Items : ItemExpires(x)
                 \/ UNCHANGED wsVars
          PROVE Writes(q)'
      BY <2>5 DEF OwnerExpires, OpenTenant, ItemExpires, wsVars, Writes
    <2> QED BY <2>1, <2>2, <2>3, <2>4, <2>5 DEF WsNext
  <1> QED BY <1>5, <1>6

(* What is lost has been taken by a write that did without it.             *)
LEMMA LostFrom ==
    ASSUME Base, [WsNext]_wsVars, NEW x \in Secret, Lost(x)', ~Lost(x)
    PROVE  \E q \in Slots : Writes(q) /\ x \in job[q].taken /\ Save(job[q].at, TenantOf[x])
  <1> USE DEF Base
  <1>0. x \in Items /\ TenantOf[x] \in Tenants
    BY ItemFacts DEF Secret
  <1>1. x \notin withdrawn'
    BY WithdrawnFrom, Withdrawing DEF Lost
  <1>2. PICK q \in Slots : Writes(q)' /\ x \in job'[q].taken /\ TenantOf[x] \notin todo'[job'[q].at]
    BY <1>1 DEF Lost
  <1>3. job'[q].taken = job[q].taken /\ job'[q].at = job[q].at /\ (Writes(q) \/ BeginSave(q))
    <2>1. ~Touch(q) /\ ~Land(q)
      BY <1>2, Owner, ApplyFacts DEF Touch, Land, Writes
    <2> QED BY <1>2, <2>1, TakenFrom
  <1>4. ~BeginSave(q)
    <2>1. SUFFICES ASSUME BeginSave(q) PROVE FALSE
      OBVIOUS
    <2>2. job[q].op # "download" /\ Home(q) = TenantOf[x]
      BY <1>2, <1>3, <2>1, BeginSaveFacts, Owner DEF Removing, Busy
    <2> QED BY <1>2, <1>3, <2>1, <2>2, BeginSaveFacts
  <1>5. TenantOf[x] \in todo[job[q].at]
    BY <1>2, <1>3, <1>4 DEF Lost
  <1>6. ~\E t \in Tenants, written \in BOOLEAN : FailSave(q, t, written)
    BY <1>2, <1>3, <1>4, GoesFacts, AnswerFacts, Owner DEF FailSave, Writes, NoJob
  <1>7. Save(job[q].at, TenantOf[x])
    <2>1. todo[job[q].at] \subseteq Tenants
      BY <1>3, <1>4, Owner DEF Writes, WsTypeOK
    <2>2. job'[q] # NoJob
      BY <1>2 DEF NoJob
    <2> QED BY <1>0, <1>2, <1>3, <1>4, <1>5, <1>6, <2>1, <2>2, WriteGoesOn
  <1> QED BY <1>2, <1>3, <1>4, <1>7

(* Rows are ruled by whoever claimed them.                                 *)
LEMMA RulesFrom ==
    ASSUME Base, [WsNext]_wsVars, NEW i \in Instances, NEW t \in Tenants, Rules(i, t)', ~Rules(i, t)
    PROVE  Load(i, t) \/ \E q \in Slots : job[q].at = i /\ ClaimLate(q, t)
  <1> USE DEF Base
  <1>1. ~UNCHANGED <<owned, owner>>
    BY DEF Rules
  <1>2. ASSUME NEW j \in Instances, InstanceStep(j) PROVE Load(i, t)
    <2>1. CASE GiveUpStart(j) \/ ExitInstance(j) \/ CrashInstance(j) \/ \E u \in Tenants : LoadRefused(j, u)
      <3>1. Down(j)
        BY <2>1 DEF GiveUpStart, ExitInstance, CrashInstance, LoadRefused
      <3>2. owned'[i] \subseteq owned[i] /\ (i = j => owned'[i] = {})
        BY <3>1, DownFacts
      <3>3. i # j /\ owner'[t] = i => owner[t] = i
        BY <3>1, DownFacts
      <3> QED BY <3>2, <3>3 DEF Rules
    <2>2. CASE Close(j)
      BY <2>2, OwnerAssumption DEF Close, Rules, WsTypeOK
    <2>3. ASSUME NEW u \in Tenants, Load(j, u) PROVE Load(i, t)
      <3>1. Claim(j, u)
        BY <2>3 DEF Load
      <3>2. j = i /\ u = t
        BY <3>1, ClaimFacts DEF Rules
      <3> QED BY <2>3, <3>2
    <2>4. CASE UNCHANGED <<owned, owner>>
      BY <1>1, <2>4
    <2>5. CASE \E u \in Tenants : Save(j, u)
      BY <1>1, <2>5 DEF Save, Write
    <2> QED BY <1>2, <2>1, <2>2, <2>3, <2>4, <2>5 DEF InstanceStep, StartStep, StartInstance, Listen, Restore, RenewFails
  <1>3. ASSUME NEW q \in Slots, RequestStep(q) PROVE job[q].at = i /\ ClaimLate(q, t)
    <2>1. ASSUME NEW u \in Tenants, ClaimLate(q, u) PROVE job[q].at = i /\ ClaimLate(q, t)
      <3>1. job[q].at \in Instances /\ Claim(job[q].at, u)
        BY <2>1, Owner DEF ClaimLate, At
      <3>2. job[q].at = i /\ u = t
        BY <3>1, ClaimFacts DEF Rules
      <3> QED BY <2>1, <3>2
    <2>2. CASE UNCHANGED <<owned, owner>>
      BY <1>1, <2>2
    <2>3. CASE \E u \in Tenants, written \in BOOLEAN : FailSave(q, u, written)
      BY <1>1, <2>3 DEF FailSave, Write
    <2> QED BY <1>3, <2>1, <2>2, <2>3
            DEF RequestStep, Refuse, GoOut, Outside, OutsideFails, Touch, Land, BeginSave, EndSave, TakeBack
  <1>4. ASSUME \/ \E q \in Slots, k \in Instances, c \in Calls : Arrive(q, k, c)
               \/ \E u \in Tenants : OwnerExpires(u) \/ OpenTenant(u)
               \/ \E y \in Items : ItemExpires(y)
               \/ UNCHANGED wsVars
        PROVE UNCHANGED <<owned, owner>>
    BY <1>4 DEF Arrive, OwnerExpires, OpenTenant, ItemExpires, wsVars
  <1> QED BY <1>1, <1>2, <1>3, <1>4 DEF WsNext


LEMMA LostIsGoneKept ==
    ASSUME Base, Origins, TakenOnce, Unwritten, LostIsGone, [WsNext]_wsVars
    PROVE  LostIsGone'
  <1> USE DEF Base
  <1> SUFFICES ASSUME NEW x \in Secret, Lost(x)'
               PROVE  /\ x \notin record'[TenantOf[x]]
                      /\ \A i \in Instances : Rules(i, TenantOf[x])' =>
                            /\ x \notin mem'[i] /\ x \notin snap'[i]
                            /\ \A q \in Slots : job'[q].at = i /\ x \in job'[q].taken =>
                                   Writes(q)' /\ TenantOf[x] \notin todo'[i]
    BY DEF LostIsGone
  <1> DEFINE t == TenantOf[x]
  <1>0. x \in Items /\ t \in Tenants /\ Base'
    BY ItemFacts, BaseStep DEF Secret
  <1>1. CASE Lost(x)
    <2>0. /\ x \notin record[t]
          /\ \A i \in Instances : Rules(i, t) =>
                 /\ x \notin mem[i] /\ x \notin snap[i]
                 /\ \A q \in Slots : job[q].at = i /\ x \in job[q].taken => Writes(q) /\ t \notin todo[i]
      BY <1>1 DEF LostIsGone
    <2>1. x \notin record'[t]
      <3>1. ASSUME NEW j \in Instances, Stores(j, t), x \in snap[j] PROVE FALSE
        <4>1. Rules(j, t)
          BY <3>1 DEF Stores, MayWrite, Held, Rules
        <4> QED BY <2>0, <3>1, <4>1
      <3> QED BY <1>0, <2>0, <3>1, RowsFrom
    <2>2. ~\E q \in Slots : Enters(q, x)
      <3>1. Somewhere(x)
        BY <1>1, Owner DEF Lost, Somewhere, Has, Writes
      <3> QED BY <3>1, EnteredIsNew
    <2>3. ASSUME NEW i \in Instances, Rules(i, t)
          PROVE  /\ x \notin mem'[i] /\ x \notin snap'[i]
                 /\ \A q \in Slots : job'[q].at = i /\ x \in job'[q].taken => Writes(q)' /\ t \notin todo'[i]
      <3>1. /\ x \notin mem[i] /\ x \notin snap[i]
            /\ \A q \in Slots : job[q].at = i /\ x \in job[q].taken => Writes(q) /\ t \notin todo[i]
        BY <2>0, <2>3
      <3>2. x \notin mem'[i]
        <4>1. ~\E q \in Slots : job[q].at = i /\ TakeBack(q) /\ x \in job[q].taken
          BY <3>1 DEF TakeBack, Writes
        <4> QED BY <1>0, <2>0, <2>2, <3>1, <4>1, MemFrom
      <3>3. x \notin snap'[i]
        BY <1>0, <3>1, SnapFrom
      <3>4. ASSUME NEW q \in Slots, job'[q].at = i, x \in job'[q].taken PROVE Writes(q)' /\ t \notin todo'[i]
        <4>1. ~Touch(q) /\ ~Land(q)
          BY <3>1, <3>4, Owner, ApplyFacts DEF Touch, Land
        <4>2. x \in job[q].taken /\ job[q].at = i
          BY <3>4, <4>1, TakenFrom
        <4>3. Writes(q) /\ t \notin todo[i]
          BY <3>1, <4>2
        <4>4. todo[i] \subseteq {t}
          BY <4>2, <4>3, Owner DEF WritesFit, Writes, Removing
        <4>5. \A u \in todo[i], written \in BOOLEAN : ~FailSave(q, u, written)
          BY <4>3, <4>4
        <4>6. job'[q] # NoJob
          BY <3>4 DEF NoJob
        <4> QED BY <3>4, <4>2, <4>3, <4>5, <4>6, WriteGoesOn
      <3> QED BY <3>2, <3>3, <3>4
    <2>4. ASSUME NEW i \in Instances, Load(i, t)
          PROVE  /\ x \notin mem'[i] /\ x \notin snap'[i]
                 /\ \A q \in Slots : job'[q].at = i /\ x \in job'[q].taken => Writes(q)' /\ t \notin todo'[i]
      <3>1. /\ mem'[i] = mem[i] \cup record[t] /\ UNCHANGED <<snap, job>>
            /\ phase[i] = "loading" /\ t \in todo[i]
        BY <2>4 DEF Load, WsTypeOK
      <3>2. x \notin mem[i] /\ snap[i] = {}
        BY <3>1 DEF PhasesFit
      <3>3. \A q \in Slots : job[q].at # i
        BY <3>1, RequestFacts DEF RequestsFit, Listening
      <3> QED BY <2>0, <3>1, <3>2, <3>3
    <2>5. ASSUME NEW i \in Instances, NEW q \in Slots, job[q].at = i, ClaimLate(q, t)
          PROVE  /\ x \notin mem'[i] /\ x \notin snap'[i]
                 /\ \A p \in Slots : job'[p].at = i /\ x \in job'[p].taken => Writes(p)' /\ t \notin todo'[i]
      <3>1. /\ UNCHANGED <<mem, snap, job>> /\ Writes(q) /\ t \in todo[i] /\ t \notin owned[i] /\ phase[i] # "closing"
        BY <2>5 DEF ClaimLate, Claim, Claimable, Writes, At
      <3>2. ~Has(i, x)
        <4>1. SUFFICES ASSUME Has(i, x) PROVE FALSE
          OBVIOUS
        <4>2. Private(i, x)
          BY <3>1, <4>1 DEF Unwritten
        <4>3. PICK p \in Slots : Writes(p) /\ x \in job[p].taken /\ t \notin todo[job[p].at]
          BY <1>1, <4>2 DEF Lost, Private
        <4>4. job[p].at = i
          BY <4>2, <4>3, Owner DEF Private, Has, Writes
        <4> QED BY <3>1, <4>3, <4>4
      <3> QED BY <3>1, <3>2 DEF Has
    <2> QED BY <1>0, <2>1, <2>3, <2>4, <2>5, RulesFrom
  <1>2. CASE ~Lost(x)
    <2>1. PICK q \in Slots : Writes(q) /\ x \in job[q].taken /\ Save(job[q].at, t)
      BY <1>2, LostFrom
    <2> DEFINE k == job[q].at
    <2>2. /\ k \in Instances /\ x \notin mem[k] /\ x \notin snap[k]
          /\ \A p \in Slots : job[p].at = k /\ x \in job[p].taken => p = q
      BY <2>1, Owner DEF TakenOnce, Writes
    <2>3. Stores(k, t)
      BY <1>0, <2>1, <2>2, SaveStores
    <2>4. /\ UNCHANGED <<mem, snap, job, owned, owner>> /\ todo'[k] = todo[k] \ {t} /\ owner[t] = k
      BY <2>1, <2>2 DEF Save, Write, MayWrite, Held, WsTypeOK
    <2>5. x \notin record'[t]
      BY <2>2, <2>3 DEF Stores, Slice
    <2>6. \A i \in Instances : Rules(i, t)' => i = k
      BY <2>4 DEF Rules
    <2> QED BY <2>1, <2>2, <2>4, <2>5, <2>6 DEF Writes
  <1> QED BY <1>1, <1>2

AwayInv == Base /\ Origins /\ TakenOnce /\ Unwritten /\ LostIsGone /\ withdrawn \subseteq Secret

LEMMA AwayInit == WsInit => AwayInv
  <1> SUFFICES ASSUME WsInit PROVE AwayInv
    OBVIOUS
  <1>1. Base
    BY BaseInit
  <1>2. \A q \in Slots : ~Busy(q) /\ ~Writes(q) /\ job[q].taken = {}
    BY DEF WsInit, NoJob, Busy, Writes
  <1>3. \A i \in Instances, x \in Secret : ~Has(i, x)
    BY <1>2 DEF WsInit, Has
  <1>4. \A x \in Secret : ~Somewhere(x) /\ ~Lost(x)
    BY <1>2, <1>3, ItemFacts DEF WsInit, Somewhere, Lost, Secret
  <1>5. withdrawn = {}
    BY DEF WsInit
  <1> QED BY <1>1, <1>2, <1>3, <1>4, <1>5
          DEF AwayInv, Origins, OneMaker, NothingUnborn, TakenOnce, Unwritten, LostIsGone, Makes

LEMMA AwayStep == AwayInv /\ [WsNext]_wsVars => AwayInv'
  <1> SUFFICES ASSUME AwayInv, [WsNext]_wsVars PROVE AwayInv'
    OBVIOUS
  <1>1. (withdrawn \subseteq Secret)'
    BY WithdrawnFrom, Withdrawing, Owner DEF AwayInv, Secret, Writes
  <1> QED BY <1>1, BaseStep, OriginsKept, TakenOnceKept, UnwrittenKept, LostIsGoneKept DEF AwayInv

(* Rows, memories, queues and requests keep to their types.                *)
THEOREM WorkspacesTypeCorrect == WsSpec => []WsTypeOK
  <1>1. AwayInv => WsTypeOK
    BY DEF AwayInv, Base
  <1> QED BY AwayInit, AwayStep, <1>1, PTL DEF WsSpec

(* A credential, a checkout or a grant whose removal was acknowledged is   *)
(* in no row again, whichever instances write, fail, stop and start after. *)
THEOREM WithdrawalsStand == WsSpec => []WithdrawnStaysAway
  <1>1. AwayInv => WithdrawnStaysAway
    BY ItemFacts DEF AwayInv, Base, WsTypeOK, RowsFit, LostIsGone, Lost, WithdrawnStaysAway, Recorded, Secret
  <1> QED BY AwayInit, AwayStep, <1>1, PTL DEF WsSpec


-----------------------------------------------------------------------------
(* What was acknowledged is kept.                                          *)

Wanted(x) == \A q \in Slots : x \notin GoneIn(job[q])
Unclashed(q) == Busy(q) /\ job[q].op \in Adding /\ ~job[q].clash
Complete(S, x) == x \in S /\ (x \in Grants => ObjectOf[x] \in S)

ExpireFits == expired \subseteq Leases \cup Grants

(* Nobody takes away what is being added, unless the request knows of it.  *)
AddersWanted == \A q \in Slots : Unclashed(q) => Wanted(job[q].item)

CheckoutsStand ==
    \A q \in Slots :
        Unclashed(q) /\ job[q].op = "prepare" /\ job[q].pc \in {"back", "queued", "saving"} => job[q].item \in disk

EnteredStays ==
    \A q \in Slots : Unclashed(q) /\ job[q].item \notin expired =>
        /\ job[q].pc \in {"queued", "saving"} => Complete(mem[job[q].at], job[q].item)
        /\ Writes(q) => Complete(snap[job[q].at], job[q].item)

(* An object that is written is also in memory, or will be taken away.     *)
SnapFits ==
    \A i \in Instances : Saving(i) => \A x \in snap[i] \cap Objects :
        x \in mem[i] \/ \E p \in Slots : job[p].at = i /\ job[p].pc = "queued" /\ x \in GoneIn(job[p])

OwedIsMade ==
    \A x \in owed : x \in ids /\ Wanted(x) /\ \A q \in Slots : Makes(q) => job[q].item # x

\* Acknowledged, or about to be: the row was written with it.
Settled(q) == Unclashed(q) /\ Writes(q) /\ Home(q) \notin todo[job[q].at]
Due(x) ==
    (x \in owed \/ \E q \in Slots : Settled(q) /\ job[q].item = x) /\ x \notin expired /\ x \notin forfeited

(* It is in the row, and so is it for whoever may write the row.           *)
DueIsKept ==
    \A x \in Items : Due(x) =>
        /\ x \in record[TenantOf[x]]
        /\ x \in Workspaces => x \in disk
        /\ \A i \in Instances : Rules(i, TenantOf[x]) =>
              /\ Complete(mem[i], x)
              /\ Saving(i) /\ TenantOf[x] \in todo[i] => Complete(snap[i], x)

KeptInv == AwayInv /\ ExpireFits /\ AddersWanted /\ CheckoutsStand /\ EnteredStays /\ SnapFits /\ OwedIsMade /\ DueIsKept

LEMMA GoneByIdle == GoneIn(NoJob) = {}
  BY DEF GoneIn, Gone, NoJob

LEMMA WantedChange ==
    ASSUME Base, [WsNext]_wsVars, NEW x, Wanted(x), ~Wanted(x)'
    PROVE  \E q \in Slots, i \in Instances, c \in Calls : Arrive(q, i, c) /\ x \in Gone(c.op, c.item)
  <1> USE DEF Base
  <1>1. PICK q \in Slots : x \in GoneIn(job'[q])
    BY DEF Wanted
  <1>2. Busy(q)'
    <2>1. WsTypeOK'
      BY BaseStep
    <2> QED BY <1>1, <2>1, GoneByIdle DEF WsTypeOK, Jobs, Busy, NoJob
  <1>3. ~Remains(q)
    BY <1>1, <1>2 DEF Remains, Wanted, GoneIn
  <1>4. PICK i \in Instances, c \in Calls : Arrive(q, i, c)
    BY <1>3, RemainFacts
  <1>5. job'[q].op = c.op /\ job'[q].item = c.item
    BY <1>4 DEF Arrive
  <1> QED BY <1>1, <1>4, <1>5 DEF GoneIn

LEMMA Calling ==
    ASSUME Base, NEW q \in Slots, NEW i \in Instances, NEW c \in Calls, Arrive(q, i, c)
    PROVE  /\ ~Busy(q) /\ job'[q].pc = "called" /\ job'[q].op = c.op /\ job'[q].item = c.item
           /\ job'[q].clash = (c.item \in Leaving)
           /\ \A p \in Slots \ {q} : Busy(p) => job'[p].clash = (job[p].clash \/ job[p].item \in Gone(c.op, c.item))
           /\ \A p \in Slots \ {q} : job'[p].pc = job[p].pc /\ job'[p].op = job[p].op /\ job'[p].item = job[p].item
                                     /\ job'[p].at = job[p].at
           /\ owed' = owed \ Gone(c.op, c.item)
           /\ GivesId(c.op) => c.item \notin ids
  <1>1. \A p \in Slots \ {q} : job'[p] = [job[p] EXCEPT !.clash = job[p].clash \/ job[p].item \in Gone(c.op, c.item)]
    BY DEF Arrive, Item
  <1>2. \A p \in Slots : job[p] \in Jobs
    BY RequestFacts DEF Base
  <1>3. \A p \in Slots \ {q} : job'[p].pc = job[p].pc /\ job'[p].op = job[p].op /\ job'[p].item = job[p].item
                                     /\ job'[p].at = job[p].at
    BY <1>1, <1>2 DEF Jobs, NoJob
  <1>4. \A p \in Slots \ {q} : Busy(p) => job'[p].clash = (job[p].clash \/ job[p].item \in Gone(c.op, c.item))
    BY <1>1, RequestFacts DEF Base
  <1> QED BY <1>3, <1>4 DEF Arrive, Busy

LEMMA UnclashedFrom ==
    ASSUME Base, [WsNext]_wsVars, NEW q \in Slots, Unclashed(q)', Remains(q)
    PROVE  /\ Unclashed(q) /\ job'[q].op = job[q].op /\ job'[q].item = job[q].item /\ job'[q].at = job[q].at
           /\ job[q].at \in Instances /\ job[q].item \in Items
  BY Owner DEF Unclashed, Remains, Busy

LEMMA AddersWantedKept == ASSUME Base, AddersWanted, [WsNext]_wsVars PROVE AddersWanted'
  <1> SUFFICES ASSUME NEW q \in Slots, Unclashed(q)' PROVE Wanted(job[q].item)'
    BY DEF AddersWanted
  <1>1. CASE Remains(q)
    <2>1. Unclashed(q) /\ job'[q].item = job[q].item /\ Wanted(job[q].item)
      BY <1>1, UnclashedFrom DEF AddersWanted
    <2>2. PICK x : x = job[q].item
      OBVIOUS
    <2>3. ASSUME NEW p \in Slots, NEW i \in Instances, NEW c \in Calls, Arrive(p, i, c), x \in Gone(c.op, c.item)
          PROVE  FALSE
      BY <2>1, <2>2, <2>3, Calling DEF Unclashed
    <2>4. Wanted(x)'
      BY <2>1, <2>2, <2>3, WantedChange DEF Wanted
    <2> QED BY <2>1, <2>2, <2>4 DEF Wanted
  <1>2. ASSUME NEW i \in Instances, NEW c \in Calls, Arrive(q, i, c) PROVE Wanted(job[q].item)'
    <2>1. job'[q].item = c.item /\ c.item \notin Leaving /\ c.op \in Adding
      BY <1>2, Calling DEF Unclashed
    <2>2. Wanted(c.item)
      BY <2>1 DEF Leaving, Wanted
    <2>3. Gone(c.op, c.item) = {}
      BY <2>1, CallFacts, GoneFacts DEF Adding, Removing
    <2>4. ASSUME NEW p \in Slots, c.item \in GoneIn(job'[p]) PROVE FALSE
      <3>1. CASE p = q
        BY <2>1, <2>3, <2>4, <3>1, <1>2, Calling DEF GoneIn
      <3>2. CASE p # q
        BY <2>2, <2>4, <3>2, <1>2, Calling DEF GoneIn, Wanted
      <3> QED BY <3>1, <3>2
    <2> QED BY <2>1, <2>4 DEF Wanted
  <1> QED BY <1>1, <1>2, RemainFacts


LEMMA ExpiredChange ==
    ASSUME [WsNext]_wsVars
    PROVE  expired' = expired \/ \E x \in Items : ItemExpires(x)
  <1>1. ASSUME NEW i \in Instances, InstanceStep(i) PROVE expired' = expired
    BY <1>1 DEF InstanceStep, StartStep, StartInstance, Listen, GiveUpStart, Load, LoadRefused, Restore, Close, ExitInstance, CrashInstance,
                RenewFails, Down, Save
  <1>2. ASSUME NEW q \in Slots, RequestStep(q) PROVE expired' = expired
    BY <1>2 DEF RequestStep, Refuse, GoOut, Touch, Outside, OutsideFails, Land, BeginSave, EndSave, TakeBack, ClaimLate,
                FailSave
  <1> QED BY <1>1, <1>2 DEF WsNext, Arrive, OwnerExpires, OpenTenant, wsVars

LEMMA ForfeitedGrows == [WsNext]_wsVars => forfeited \subseteq forfeited'
  <1> SUFFICES ASSUME [WsNext]_wsVars PROVE forfeited \subseteq forfeited'
    OBVIOUS
  <1>1. ASSUME NEW i \in Instances, InstanceStep(i) PROVE forfeited \subseteq forfeited'
    BY <1>1 DEF InstanceStep, StartStep, StartInstance, Listen, GiveUpStart, Load, LoadRefused, Restore, Close, ExitInstance, CrashInstance,
                RenewFails, Down, Save
  <1>2. ASSUME NEW q \in Slots, RequestStep(q) PROVE forfeited \subseteq forfeited'
    BY <1>2 DEF RequestStep, Refuse, GoOut, Touch, Outside, OutsideFails, Land, BeginSave, EndSave, TakeBack, ClaimLate,
                FailSave
  <1> QED BY <1>1, <1>2 DEF WsNext, Arrive, OwnerExpires, OpenTenant, ItemExpires, wsVars

LEMMA ExpireFitsKept == ASSUME ExpireFits, [WsNext]_wsVars PROVE ExpireFits' /\ expired \subseteq expired'
  BY ExpiredChange DEF ExpireFits, ItemExpires

(* A request goes on by its own steps, or with the end of its instance.    *)
LEMMA Stays ==
    ASSUME Base, [WsNext]_wsVars, NEW q \in Slots, Busy(q), ~Down(job[q].at), ~RequestStep(q)
    PROVE  /\ job'[q].pc = job[q].pc /\ job'[q].at = job[q].at /\ job'[q].op = job[q].op
           /\ job'[q].item = job[q].item
  <1> USE DEF Base
  <1>1. ASSUME NEW i \in Instances, InstanceStep(i) PROVE job'[q] = job[q]
    <2>1. CASE GiveUpStart(i) \/ ExitInstance(i) \/ CrashInstance(i) \/ \E t \in Tenants : LoadRefused(i, t)
      BY <2>1, DownFacts DEF GiveUpStart, ExitInstance, CrashInstance, LoadRefused
    <2>2. CASE UNCHANGED job
      BY <2>2
    <2> QED BY <1>1, <2>1, <2>2 DEF InstanceStep, StartStep, StartInstance, Listen, Load, Restore, Close, RenewFails, Save
  <1>2. ASSUME NEW p \in Slots, RequestStep(p) PROVE job'[q] = job[q]
    <2>0. p # q
      BY <1>2
    <2>1. CASE Refuse(p) \/ OutsideFails(p) \/ EndSave(p) \/ TakeBack(p)
      BY <2>0, <2>1, AnswerFacts DEF Refuse, OutsideFails, EndSave, TakeBack
    <2>2. CASE GoOut(p) \/ Outside(p) \/ BeginSave(p)
      BY <2>0, <2>2, Owner, GoesFacts DEF GoOut, Outside, BeginSave
    <2>3. CASE Touch(p) \/ Land(p)
      BY <2>0, <2>3, Owner, ApplyFacts DEF Touch, Land
    <2>4. CASE \E t \in Tenants : ClaimLate(p, t)
      BY <2>4 DEF ClaimLate
    <2>5. ASSUME NEW t \in Tenants, NEW written \in BOOLEAN, FailSave(p, t, written) PROVE job'[q] = job[q]
      BY <2>0, <2>5, Owner, GoesFacts, AnswerFacts DEF FailSave
    <2> QED BY <1>2, <2>1, <2>2, <2>3, <2>4, <2>5 DEF RequestStep
  <1>3. ASSUME NEW p \in Slots, NEW i \in Instances, NEW c \in Calls, Arrive(p, i, c)
        PROVE  /\ job'[q].pc = job[q].pc /\ job'[q].at = job[q].at /\ job'[q].op = job[q].op
               /\ job'[q].item = job[q].item
    BY <1>3, Calling
  <1>4. ASSUME \/ \E t \in Tenants : OwnerExpires(t) \/ OpenTenant(t)
               \/ \E x \in Items : ItemExpires(x)
               \/ UNCHANGED wsVars
        PROVE job'[q] = job[q]
    BY <1>4 DEF OwnerExpires, OpenTenant, ItemExpires, wsVars
  <1> QED BY <1>1, <1>2, <1>3, <1>4 DEF WsNext

(* How a request that adds something comes where it is.                    *)
LEMMA StageFrom ==
    ASSUME Base, [WsNext]_wsVars, NEW q \in Slots, Unclashed(q)', job'[q].pc # "called"
    PROVE  /\ Unclashed(q) /\ job'[q].op = job[q].op /\ job'[q].item = job[q].item /\ job'[q].at = job[q].at
           /\ job[q].at \in Instances /\ job[q].item \in Items /\ Listening(job[q].at) /\ ~Down(job[q].at)
           /\ job'[q].pc = "back" => job[q].pc = "back" \/ Outside(q)
           /\ job'[q].pc = "queued" => job[q].pc = "queued" \/ Touch(q) \/ Land(q)
           /\ job'[q].pc = "saving" => Writes(q) \/ BeginSave(q)
           /\ ~TakeBack(q)
  <1> USE DEF Base
  <1>1. Remains(q)
    BY RemainFacts, Calling
  <1>2. /\ Unclashed(q) /\ job'[q].op = job[q].op /\ job'[q].item = job[q].item /\ job'[q].at = job[q].at
        /\ job[q].at \in Instances /\ job[q].item \in Items /\ Listening(job[q].at)
    BY <1>1, UnclashedFrom, Owner DEF Unclashed, Busy
  <1>3. job'[q] # NoJob
    BY DEF Unclashed, Busy, NoJob
  <1>4. ~Down(job[q].at)
    BY <1>2, <1>3, DownFacts
  <1>5. ~TakeBack(q)
    BY <1>3, AnswerFacts DEF TakeBack
  <1>6. CASE ~RequestStep(q)
    BY <1>2, <1>4, <1>5, <1>6, Stays DEF Unclashed, Writes
  <1>7. CASE RequestStep(q)
    <2>1. CASE Refuse(q) \/ OutsideFails(q) \/ EndSave(q)
      BY <1>3, <2>1, AnswerFacts DEF Refuse, OutsideFails, EndSave
    <2>2. CASE GoOut(q)
      BY <1>2, <1>4, <1>5, <2>2, GoesFacts DEF GoOut, Unclashed
    <2>3. CASE Outside(q)
      BY <1>2, <1>4, <1>5, <2>3, GoesFacts DEF Outside, Unclashed
    <2>4. CASE BeginSave(q)
      BY <1>2, <1>4, <1>5, <2>4, BeginSaveFacts DEF Turns
    <2>5. CASE Touch(q) \/ Land(q)
      BY <1>2, <1>4, <1>5, <2>5, Owner, ApplyFacts DEF Touch, Land
    <2>6. CASE \E t \in Tenants : ClaimLate(q, t)
      BY <1>2, <1>4, <1>5, <2>6 DEF ClaimLate, Writes
    <2>7. ASSUME NEW t \in Tenants, NEW written \in BOOLEAN, FailSave(q, t, written) PROVE job'[q].pc = "undo"
      BY <1>2, <1>3, <2>7, GoesFacts, AnswerFacts DEF FailSave, Unclashed
    <2> QED BY <1>2, <1>4, <1>5, <1>7, <2>1, <2>2, <2>3, <2>4, <2>5, <2>6, <2>7 DEF RequestStep
  <1> QED BY <1>6, <1>7

(* Checkouts are removed by cleanups, and by requests that undo their own. *)
LEMMA DiskChange ==
    ASSUME Base, [WsNext]_wsVars, NEW x, x \in disk, x \notin disk'
    PROVE  \E p \in Slots : job[p].item = x /\ ((Outside(p) /\ job[p].op = "cleanup") \/ (TakeBack(p) /\ job[p].op = "prepare"))
  <1> USE DEF Base
  <1>1. ASSUME NEW i \in Instances, InstanceStep(i) PROVE disk' = disk
    BY <1>1 DEF InstanceStep, StartStep, StartInstance, Listen, GiveUpStart, Load, LoadRefused, Restore, Close, ExitInstance, CrashInstance,
                RenewFails, Down, Save
  <1>2. ASSUME NEW q \in Slots, RequestStep(q)
        PROVE  job[q].item = x /\ ((Outside(q) /\ job[q].op = "cleanup") \/ (TakeBack(q) /\ job[q].op = "prepare"))
    <2>1. CASE UNCHANGED disk
      BY <2>1
    <2>2. CASE Outside(q)
      BY <2>2 DEF Outside, OpOf, Item
    <2>3. CASE TakeBack(q)
      <3>1. job[q].op \in Adding /\ x = job[q].item
        BY <2>3 DEF TakeBack, OpOf, Item
      <3>2. job[q].op \in {"issue", "prepare"} /\ OpFits(job[q].op, job[q].item) /\ x \in Workspaces
        BY <2>3, <3>1, Owner DEF TakeBack, RequestsFit, Adding, WsTypeOK
      <3> QED BY <2>3, <3>1, <3>2, ItemFacts DEF OpFits
    <2> QED BY <1>2, <2>1, <2>2, <2>3
            DEF RequestStep, Refuse, GoOut, Touch, OutsideFails, Land, BeginSave, EndSave, ClaimLate, FailSave
  <1> QED BY <1>1, <1>2 DEF WsNext, Arrive, OwnerExpires, OpenTenant, ItemExpires, wsVars


(* How an item comes out of the memory of an instance that goes on.        *)
LEMMA MemLoses ==
    ASSUME Base, [WsNext]_wsVars, NEW i \in Instances, ~Down(i), NEW x \in Items, x \in mem[i], x \notin mem'[i]
    PROVE  \/ x \in expired
           \/ ~Listening(i) /\ x \in Workspaces /\ (x \notin disk \/ x \in forfeited')
           \/ \E p \in Slots : job[p].at = i /\ (Touch(p) \/ Land(p)) /\ x \in GoneIn(job[p])
           \/ \E p \in Slots : TakeBack(p) /\ Makes(p) /\ job[p].item = x
  <1> USE DEF Base
  <1>1. ~UNCHANGED mem
    OBVIOUS
  <1>2. ASSUME NEW j \in Instances, InstanceStep(j)
        PROVE  x \in expired \/ (~Listening(i) /\ x \in Workspaces /\ (x \notin disk \/ x \in forfeited'))
    <2>1. CASE UNCHANGED mem
      BY <1>1, <2>1
    <2>2. CASE GiveUpStart(j) \/ ExitInstance(j) \/ CrashInstance(j) \/ \E t \in Tenants : LoadRefused(j, t)
      <3>1. Down(j)
        BY <2>2 DEF GiveUpStart, ExitInstance, CrashInstance, LoadRefused
      <3> QED BY <3>1, DownFacts
    <2>3. ASSUME NEW t \in Tenants, Load(j, t) PROVE FALSE
      BY <2>3 DEF Load, WsTypeOK
    <2>4. ASSUME NEW D \in SUBSET Workspaces, Restore(j, D)
          PROVE  x \in expired \/ (~Listening(i) /\ x \in Workspaces /\ (x \notin disk \/ x \in forfeited'))
      BY <2>4 DEF Restore, WsTypeOK, Listening
    <2> QED BY <1>2, <2>1, <2>2, <2>3, <2>4 DEF InstanceStep, StartStep, StartInstance, Listen, Close, RenewFails, Save
  <1>3. ASSUME NEW q \in Slots, RequestStep(q)
        PROVE  \/ x \in expired
               \/ job[q].at = i /\ (Touch(q) \/ Land(q)) /\ x \in GoneIn(job[q])
               \/ TakeBack(q) /\ Makes(q) /\ job[q].item = x
    <2>1. CASE UNCHANGED mem
      BY <1>1, <2>1
    <2>2. CASE Refuse(q)
      <3>1. job[q].at \in Instances /\ job[q].op = "download" /\ job[q].item = x /\ job[q].at = i
        BY <2>2, Owner DEF Refuse, OpOf, Item, At, WsTypeOK
      <3>2. ~Usable(i, x)
        BY <2>2, <3>1 DEF Refuse, Finds, OpOf, Item, At
      <3> QED BY <3>2 DEF Usable
    <2>3. CASE Touch(q) \/ Land(q)
      <3>1. job[q].at \in Instances /\ mem[job[q].at] \ GoneIn(job[q]) \subseteq mem'[job[q].at]
            /\ \A j \in Instances \ {job[q].at} : mem'[j] = mem[j]
        BY <2>3, Owner, ApplyFacts DEF Touch, Land
      <3> QED BY <2>3, <3>1
    <2>4. CASE TakeBack(q)
      <3>1. job[q].op \in Adding /\ x = job[q].item
        BY <2>4, Owner DEF TakeBack, OpOf, Item, At, WsTypeOK
      <3>2. Busy(q) /\ job[q].op \in {"issue", "prepare"}
        BY <2>4, <3>1, Owner DEF TakeBack, RequestsFit, Adding
      <3> QED BY <2>4, <3>1, <3>2 DEF Makes, GivesId
    <2> QED BY <1>3, <2>1, <2>2, <2>3, <2>4
            DEF RequestStep, GoOut, Outside, OutsideFails, BeginSave, EndSave, ClaimLate, FailSave
  <1>4. ASSUME \/ \E q \in Slots, k \in Instances, c \in Calls : Arrive(q, k, c)
               \/ \E t \in Tenants : OwnerExpires(t) \/ OpenTenant(t)
               \/ \E y \in Items : ItemExpires(y)
               \/ UNCHANGED wsVars
        PROVE FALSE
    BY <1>1, <1>4 DEF Arrive, OwnerExpires, OpenTenant, ItemExpires, wsVars
  <1> QED BY <1>2, <1>3, <1>4 DEF WsNext

(* What is wanted stays in memory, with the object that it needs.          *)
LEMMA CompleteStays ==
    ASSUME Base, ExpireFits, [WsNext]_wsVars, NEW i \in Instances, ~Down(i), NEW x \in Items,
           Complete(mem[i], x), Wanted(x), x \notin expired,
           ~\E p \in Slots : TakeBack(p) /\ Makes(p) /\ job[p].item = x,
           Listening(i) \/ (x \in Workspaces => x \in disk /\ x \notin forfeited')
    PROVE  Complete(mem'[i], x)
  <1>1. x \in mem'[i]
    BY MemLoses DEF Complete, Wanted
  <1>2. ASSUME x \in Grants PROVE ObjectOf[x] \in mem'[i]
    <2> DEFINE o == ObjectOf[x]
    <2>1. o \in Objects /\ o \in Items /\ o \in mem[i] /\ o \notin expired /\ o \notin Workspaces
      BY <1>2, ItemFacts DEF Complete, ExpireFits
    <2>2. ASSUME NEW p \in Slots, Busy(p), o \in GoneIn(job[p]) PROVE FALSE
      <3>1. x \in GoneIn(job[p])
        BY <1>2, <2>2, Owner, GoneFacts DEF GoneIn, Busy
      <3> QED BY <3>1 DEF Wanted
    <2>3. ASSUME NEW p \in Slots, TakeBack(p), Makes(p), job[p].item = o PROVE FALSE
      <3>1. job[p].op \in {"issue", "revoke", "prepare"} /\ OpFits(job[p].op, job[p].item)
        BY <2>3, Owner DEF TakeBack, RequestsFit, Base, Makes, Busy
      <3> QED BY <2>1, <2>3, <3>1, ItemFacts DEF OpFits
    <2> HIDE DEF o
    <2>4. o \in mem'[i]
      BY <2>1, <2>2, <2>3, MemLoses DEF Touch, Land, Busy
    <2> QED BY <2>4 DEF o
  <1> QED BY <1>1, <1>2 DEF Complete

(* What is being written stays what it was when the write began.           *)
LEMMA SnapStays ==
    ASSUME Base, [WsNext]_wsVars, NEW i \in Instances, Listening(i), ~Down(i),
           ~\E q \in Slots : job[q].at = i /\ BeginSave(q)
    PROVE  snap'[i] = snap[i]
  <1> USE DEF Base
  <1>1. ASSUME NEW j \in Instances, InstanceStep(j) PROVE snap'[i] = snap[i]
    <2>1. CASE UNCHANGED snap
      BY <2>1
    <2>2. CASE GiveUpStart(j) \/ ExitInstance(j) \/ CrashInstance(j) \/ \E t \in Tenants : LoadRefused(j, t)
      BY <2>2, DownFacts DEF GiveUpStart, ExitInstance, CrashInstance, LoadRefused
    <2>3. CASE \E D \in SUBSET Workspaces : Restore(j, D)
      BY <2>3 DEF Restore, WsTypeOK, Listening
    <2> QED BY <1>1, <2>1, <2>2, <2>3 DEF InstanceStep, StartStep, StartInstance, Listen, Load, Close, RenewFails, Save
  <1>2. ASSUME NEW q \in Slots, RequestStep(q) PROVE snap'[i] = snap[i]
    <2>1. CASE BeginSave(q)
      BY <2>1, BeginSaveFacts
    <2>2. CASE UNCHANGED snap
      BY <2>2
    <2> QED BY <1>2, <2>1, <2>2
            DEF RequestStep, Refuse, GoOut, Outside, OutsideFails, Touch, Land, EndSave, ClaimLate, FailSave, TakeBack
  <1>3. ASSUME \/ \E q \in Slots, k \in Instances, c \in Calls : Arrive(q, k, c)
               \/ \E t \in Tenants : OwnerExpires(t) \/ OpenTenant(t)
               \/ \E y \in Items : ItemExpires(y)
               \/ UNCHANGED wsVars
        PROVE snap'[i] = snap[i]
    BY <1>3 DEF Arrive, OwnerExpires, OpenTenant, ItemExpires, wsVars
  <1> QED BY <1>1, <1>2, <1>3 DEF WsNext

(* Nobody else makes what a request adds.                                  *)
LEMMA OnlyMaker ==
    ASSUME Base, OneMaker, NEW q \in Slots, Unclashed(q), NEW p \in Slots, Makes(p), job[p].item = job[q].item
    PROVE  p = q
  <1>1. OpFits(job[q].op, job[q].item) /\ OpFits(job[p].op, job[p].item) /\ job[q].item \in Items
    BY Owner DEF Unclashed, Makes, Busy
  <1>2. Makes(q)
    BY <1>1, ItemFacts DEF Makes, Unclashed, GivesId, Adding, OpFits
  <1> QED BY <1>2 DEF OneMaker

LEMMA CheckoutsStandKept ==
    ASSUME Base, OneMaker, AddersWanted, CheckoutsStand, [WsNext]_wsVars PROVE CheckoutsStand'
  <1> SUFFICES ASSUME NEW q \in Slots, Unclashed(q)', job'[q].op = "prepare", job'[q].pc \in {"back", "queued", "saving"}
               PROVE  job'[q].item \in disk'
    BY DEF CheckoutsStand
  <1>1. /\ Unclashed(q) /\ job[q].op = "prepare" /\ job'[q].item = job[q].item /\ ~TakeBack(q)
        /\ job'[q].pc = "back" => job[q].pc = "back" \/ Outside(q)
        /\ job'[q].pc = "queued" => job[q].pc = "queued" \/ Touch(q) \/ Land(q)
        /\ job'[q].pc = "saving" => Writes(q) \/ BeginSave(q)
    BY StageFrom
  <1>2. ~Touch(q)
    BY <1>1 DEF Touch, GoesOut, OpOf
  <1>3. CASE Outside(q)
    BY <1>1, <1>3 DEF Outside, OpOf, Item
  <1>4. CASE ~Outside(q)
    <2>1. job[q].item \in disk
      BY <1>1, <1>2, <1>4 DEF CheckoutsStand, Land, BeginSave, Writes
    <2>2. Wanted(job[q].item)
      BY <1>1 DEF AddersWanted
    <2>3. ASSUME NEW p \in Slots, job[p].item = job[q].item, job[p].op = "cleanup" PROVE FALSE
      BY <2>2, <2>3 DEF Wanted, GoneIn, Gone
    <2>4. ASSUME NEW p \in Slots, job[p].item = job[q].item, job[p].op = "prepare", TakeBack(p) PROVE FALSE
      BY <1>1, <2>4, OnlyMaker DEF Makes, GivesId, TakeBack, Busy
    <2>5. PICK x : x = job[q].item
      OBVIOUS
    <2>6. x \in disk'
      BY <2>1, <2>3, <2>4, <2>5, DiskChange
    <2> QED BY <1>1, <2>5, <2>6
  <1> QED BY <1>3, <1>4


LEMMA EnteredStaysKept ==
    ASSUME Base, OneMaker, ExpireFits, AddersWanted, EnteredStays, [WsNext]_wsVars PROVE EnteredStays'
  <1> USE DEF Base
  <1> SUFFICES ASSUME NEW q \in Slots, Unclashed(q)', job'[q].item \notin expired'
               PROVE  /\ job'[q].pc \in {"queued", "saving"} => Complete(mem'[job'[q].at], job'[q].item)
                      /\ Writes(q)' => Complete(snap'[job'[q].at], job'[q].item)
    BY DEF EnteredStays, Complete
  <1>0. CASE job'[q].pc \notin {"queued", "saving"}
    BY <1>0 DEF Writes
  <1>1. CASE job'[q].pc \in {"queued", "saving"}
    <2>1. /\ Unclashed(q) /\ job'[q].op = job[q].op /\ job'[q].item = job[q].item /\ job'[q].at = job[q].at
          /\ job[q].at \in Instances /\ job[q].item \in Items /\ Listening(job[q].at) /\ ~Down(job[q].at) /\ ~TakeBack(q)
          /\ job'[q].pc = "queued" => job[q].pc = "queued" \/ Touch(q) \/ Land(q)
          /\ job'[q].pc = "saving" => Writes(q) \/ BeginSave(q)
      BY <1>1, StageFrom
    <2>2. PICK i \in Instances, x \in Items : i = job[q].at /\ x = job[q].item
      BY <2>1
    <2>3. Wanted(x) /\ x \notin expired
      BY <2>1, <2>2, ExpireFitsKept DEF AddersWanted
    <2>4. ASSUME Complete(mem[i], x) PROVE Complete(mem'[i], x)
      <3>1. ~\E p \in Slots : TakeBack(p) /\ Makes(p) /\ job[p].item = x
        BY <2>1, <2>2, OnlyMaker
      <3> QED BY <2>1, <2>2, <2>3, <2>4, <3>1, CompleteStays
    <2>5. CASE Touch(q) \/ Land(q)
      <3>1. /\ job[q].op \in Adding /\ OpFits(job[q].op, x) /\ GoneIn(job[q]) = {}
        <4>1. job[q].op \in Adding /\ OpFits(job[q].op, x)
          BY <2>1, <2>2, Owner DEF Unclashed, Busy
        <4> QED BY <2>2, <4>1, GoneFacts DEF GoneIn, Adding, Removing
      <3>2. mem'[i] = mem[i] \cup {x}
        BY <2>2, <2>5, <3>1, Owner, ApplyFacts DEF Touch, Land
      <3>3. x \in Grants => ObjectOf[x] \in mem[i]
        <4>1. SUFFICES ASSUME x \in Grants PROVE ObjectOf[x] \in mem[i]
          OBVIOUS
        <4>2. job[q].op = "grant"
          BY <3>1, <4>1, ItemFacts DEF Adding, OpFits
        <4>3. Touch(q)
          BY <2>1, <2>5, <4>2 DEF Land, RequestsFit, Unclashed
        <4>4. Finds(q)
          BY <4>3 DEF Touch
        <4> QED BY <2>2, <4>2, <4>4 DEF Finds, OpOf, Item, At, Removing
      <3>4. ~Writes(q)'
        BY <2>5, Owner, ApplyFacts DEF Touch, Land, Writes
      <3> QED BY <2>1, <2>2, <3>2, <3>3, <3>4 DEF Complete
    <2>6. CASE ~Touch(q) /\ ~Land(q)
      <3>1. Complete(mem[i], x) /\ (Writes(q) => Complete(snap[i], x))
        BY <1>1, <2>1, <2>2, <2>3, <2>6 DEF EnteredStays, BeginSave, Writes
      <3>2. ASSUME Writes(q)' PROVE Complete(snap'[i], x)
        <4>1. CASE BeginSave(q)
          BY <2>2, <3>1, <4>1, BeginSaveFacts
        <4>2. CASE Writes(q)
          <5>1. ~\E p \in Slots : job[p].at = i /\ BeginSave(p)
            BY <2>2, <4>2, BeginSaveFacts
          <5>2. snap'[i] = snap[i]
            BY <2>1, <2>2, <5>1, SnapStays
          <5> QED BY <3>1, <4>2, <5>2
        <4> QED BY <2>1, <3>2, <4>1, <4>2 DEF Writes
      <3> QED BY <2>1, <2>2, <2>4, <3>1, <3>2 DEF Complete
    <2> QED BY <2>5, <2>6
  <1> QED BY <1>0, <1>1

(* What an instance that was writing before the step writes after it.      *)
LEMMA SavingFrom ==
    ASSUME Base, Base', [WsNext]_wsVars, NEW i \in Instances, Saving(i)'
    PROVE  \/ snap'[i] = mem'[i]
           \/ \E q \in Slots : /\ Writes(q) /\ Writes(q)' /\ job[q].at = i /\ job'[q].at = i
                               /\ Listening(i) /\ ~Down(i) /\ Saving(i)
                               /\ snap'[i] = snap[i] /\ todo'[i] \subseteq todo[i]
                               /\ ~\E p \in Slots : job[p].at = i /\ BeginSave(p)
  <1> USE DEF Base
  <1>1. CASE phase'[i] = "restoring"
    BY <1>1 DEF PhasesFit
  <1>2. CASE phase'[i] # "restoring"
    <2>1. PICK q \in Slots : job'[q].at = i /\ Writes(q)'
      BY <1>2 DEF Saving, At, Writes
    <2>2. Busy(q)' /\ job'[q].pc # "called" /\ job'[q] # NoJob
      BY <2>1 DEF Writes, Busy, NoJob
    <2>3. Remains(q)
      BY <2>2, RemainFacts, Calling
    <2>4. Busy(q) /\ job[q].at = i /\ Listening(i)
      BY <2>1, <2>2, <2>3, Owner DEF Remains, Busy
    <2>5. ~Down(i)
      BY <2>2, <2>4, DownFacts
    <2>6. CASE BeginSave(q)
      BY <2>4, <2>6, BeginSaveFacts
    <2>7. CASE Writes(q)
      <3>1. ~\E p \in Slots : job[p].at = i /\ BeginSave(p)
        BY <2>4, <2>7, BeginSaveFacts
      <3>2. snap'[i] = snap[i]
        BY <2>4, <2>5, <3>1, SnapStays
      <3>3. ~\E t \in Tenants, written \in BOOLEAN : FailSave(q, t, written)
        BY <2>1, <2>4, GoesFacts, AnswerFacts DEF FailSave, Writes, NoJob
      <3>4. todo[i] \subseteq Tenants
        BY DEF WsTypeOK
      <3>5. todo'[i] \subseteq todo[i]
        BY <2>2, <2>4, <2>7, <3>3, <3>4, WriteGoesOn
      <3>6. Saving(i)
        BY <2>4, <2>7 DEF Saving, At, Writes
      <3> QED BY <2>1, <2>4, <2>5, <2>7, <3>1, <3>2, <3>5, <3>6
    <2>8. Writes(q) \/ BeginSave(q)
      <3>1. CASE ~RequestStep(q)
        BY <2>1, <2>4, <2>5, <3>1, Stays DEF Writes
      <3>2. CASE RequestStep(q)
        <4>1. CASE Refuse(q) \/ OutsideFails(q) \/ EndSave(q) \/ TakeBack(q)
          BY <2>2, <4>1, AnswerFacts DEF Refuse, OutsideFails, EndSave, TakeBack
        <4>2. CASE GoOut(q) \/ Outside(q)
          BY <2>1, <2>4, <4>2, GoesFacts DEF GoOut, Outside, Writes
        <4>3. CASE Touch(q) \/ Land(q)
          BY <2>1, <4>3, Owner, ApplyFacts DEF Touch, Land, Writes
        <4>4. CASE \E t \in Tenants : ClaimLate(q, t) \/ \E written \in BOOLEAN : FailSave(q, t, written)
          BY <4>4 DEF ClaimLate, FailSave, Writes
        <4> QED BY <3>2, <4>1, <4>2, <4>3, <4>4 DEF RequestStep
      <3> QED BY <3>1, <3>2
    <2> QED BY <2>6, <2>7, <2>8
  <1> QED BY <1>1, <1>2

LEMMA SnapFitsKept == ASSUME Base, ExpireFits, SnapFits, [WsNext]_wsVars PROVE SnapFits'
  <1> USE DEF Base
  <1> SUFFICES ASSUME NEW i \in Instances, Saving(i)', NEW x \in snap'[i] \cap Objects, x \notin mem'[i]
               PROVE  \E p \in Slots : job'[p].at = i /\ job'[p].pc = "queued" /\ x \in GoneIn(job'[p])
    BY DEF SnapFits
  <1>0. x \in Items /\ x \in Objects /\ Base'
    BY BaseStep, ItemFacts
  <1>1. PICK q \in Slots : /\ Writes(q) /\ job[q].at = i /\ Listening(i) /\ ~Down(i) /\ Saving(i) /\ snap'[i] = snap[i]
                           /\ ~\E p \in Slots : job[p].at = i /\ BeginSave(p)
    BY <1>0, SavingFrom
  <1>2. CASE x \in mem[i]
    <2>1. x \notin expired
      BY <1>0, ItemFacts DEF ExpireFits
    <2>2. ASSUME NEW p \in Slots, TakeBack(p), Makes(p), job[p].item = x PROVE FALSE
      <3>1. job[p].op \in {"issue", "revoke", "prepare"} /\ OpFits(job[p].op, job[p].item)
        BY <2>2, Owner DEF TakeBack, RequestsFit, Makes, Busy
      <3> QED BY <1>0, <2>2, <3>1, ItemFacts DEF OpFits
    <2>3. PICK p \in Slots : job[p].at = i /\ (Touch(p) \/ Land(p)) /\ x \in GoneIn(job[p])
      BY <1>0, <1>1, <1>2, <2>1, <2>2, MemLoses
    <2>4. /\ job'[p].at = i /\ job'[p].pc = "queued" /\ job'[p].op = job[p].op /\ job'[p].item = job[p].item
      BY <2>3, Owner, ApplyFacts DEF Touch, Land
    <2> QED BY <2>3, <2>4 DEF GoneIn
  <1>3. CASE x \notin mem[i]
    <2>1. PICK p \in Slots : job[p].at = i /\ job[p].pc = "queued" /\ x \in GoneIn(job[p])
      BY <1>1, <1>3 DEF SnapFits
    <2>2. ~RequestStep(p)
      BY <1>1, <2>1 DEF RequestStep, Refuse, GoOut, Touch, Outside, OutsideFails, Land, EndSave, TakeBack, ClaimLate, FailSave
    <2>3. job'[p].pc = job[p].pc /\ job'[p].at = job[p].at /\ job'[p].op = job[p].op /\ job'[p].item = job[p].item
      BY <1>1, <2>1, <2>2, Stays DEF Busy
    <2> QED BY <2>1, <2>3 DEF GoneIn
  <1> QED BY <1>2, <1>3

(* Something becomes owed when its write is done.                          *)
LEMMA OwedFrom ==
    ASSUME [WsNext]_wsVars, NEW x, x \in owed', x \notin owed
    PROVE  \E q \in Slots : EndSave(q) /\ job[q].op \in Adding /\ ~job[q].clash /\ job[q].item = x
  <1>1. ASSUME NEW i \in Instances, InstanceStep(i) PROVE owed' = owed
    BY <1>1 DEF InstanceStep, StartStep, StartInstance, Listen, GiveUpStart, Load, LoadRefused, Restore, Close, ExitInstance, CrashInstance,
                RenewFails, Down, Save
  <1>2. ASSUME NEW q \in Slots, RequestStep(q), ~EndSave(q) PROVE owed' = owed
    BY <1>2 DEF RequestStep, Refuse, GoOut, Touch, Outside, OutsideFails, Land, BeginSave, TakeBack, ClaimLate, FailSave
  <1>3. ASSUME NEW q \in Slots, EndSave(q)
        PROVE  job[q].op \in Adding /\ ~job[q].clash /\ job[q].item = x
    BY <1>3 DEF EndSave, OpOf, Item
  <1> QED BY <1>1, <1>2, <1>3 DEF WsNext, Arrive, OwnerExpires, OpenTenant, ItemExpires, wsVars

LEMMA OwedIsMadeKept ==
    ASSUME Base, OneMaker, AddersWanted, OwedIsMade, [WsNext]_wsVars PROVE OwedIsMade'
  <1> USE DEF Base
  <1> SUFFICES ASSUME NEW x \in owed'
               PROVE  x \in ids' /\ Wanted(x)' /\ \A q \in Slots : Makes(q)' => job'[q].item # x
    BY DEF OwedIsMade
  <1>1. CASE x \in owed
    <2>1. x \in ids /\ Wanted(x) /\ \A q \in Slots : Makes(q) => job[q].item # x
      BY <1>1 DEF OwedIsMade
    <2>2. Wanted(x)'
      <3>1. ASSUME NEW q \in Slots, NEW i \in Instances, NEW c \in Calls, Arrive(q, i, c), x \in Gone(c.op, c.item)
            PROVE  FALSE
        BY <3>1, Calling
      <3> QED BY <2>1, <3>1, WantedChange
    <2>3. ASSUME NEW q \in Slots, Makes(q)' PROVE job'[q].item # x
      <3>1. CASE Remains(q)
        BY <2>1, <2>3, <3>1 DEF Remains, Makes
      <3>2. ASSUME NEW i \in Instances, NEW c \in Calls, Arrive(q, i, c) PROVE job'[q].item # x
        BY <2>1, <2>3, <3>2, Calling DEF Makes
      <3> QED BY <3>1, <3>2, RemainFacts
    <2> QED BY <2>1, <2>2, <2>3, UsedGrows
  <1>2. CASE x \notin owed
    <2>1. PICK q \in Slots : EndSave(q) /\ job[q].op \in Adding /\ ~job[q].clash /\ job[q].item = x
      BY <1>2, OwedFrom
    <2>2. Unclashed(q) /\ x \in ids /\ Wanted(x)
      BY <2>1 DEF EndSave, Unclashed, Busy, RequestsFit, AddersWanted
    <2>3. job'[q] = NoJob /\ \A p \in Slots \ {q} : job'[p] = job[p]
      BY <2>1, AnswerFacts DEF EndSave
    <2>4. Wanted(x)'
      BY <2>2, <2>3, GoneByIdle DEF Wanted
    <2>5. ASSUME NEW p \in Slots, Makes(p)', job'[p].item = x PROVE FALSE
      <3>1. p # q
        BY <2>3, <2>5 DEF Makes, Busy, NoJob
      <3>2. Makes(p) /\ job[p].item = x
        BY <2>3, <2>5, <3>1 DEF Makes, Busy
      <3> QED BY <2>1, <2>2, <3>1, <3>2, OnlyMaker
    <2> QED BY <2>2, <2>4, <2>5, UsedGrows
  <1> QED BY <1>1, <1>2


(* A row loses what a write of it is without.                              *)
LEMMA RowsLose ==
    ASSUME Base, [WsNext]_wsVars, NEW t \in Tenants, NEW x, x \in record[t], x \notin record'[t]
    PROVE  \E i \in Instances : Stores(i, t) /\ x \notin Slice(snap[i], t)
  <1> USE DEF Base
  <1>1. ASSUME NEW i \in Instances, NEW u \in Tenants, Stores(i, u)
        PROVE  Stores(i, t) /\ x \notin Slice(snap[i], t)
    <2>1. u = t
      BY <1>1 DEF Stores
    <2> QED BY <1>1, <2>1 DEF Stores
  <1>2. ASSUME NEW q \in Slots, NEW u \in Tenants, FailSave(q, u, TRUE)
        PROVE  \E i \in Instances : Stores(i, u)
    BY <1>2, FailSaveStores, Owner DEF FailSave
  <1> QED BY <1>1, <1>2, RowsChange, SaveStores

LEMMA StoresFacts ==
    ASSUME NEW i \in Instances, NEW t \in Tenants, Stores(i, t)
    PROVE  Rules(i, t) /\ Saving(i) /\ t \in todo[i]
  BY DEF Stores, Rules, MayWrite, Held

LEMMA SliceComplete ==
    ASSUME NEW S, NEW x, Complete(S, x) PROVE x \in Slice(S, TenantOf[x])
  BY DEF Complete, Slice

(* Nobody asks for what is due, or makes it anew.                          *)
LEMMA DueFacts ==
    ASSUME Base, OneMaker, AddersWanted, OwedIsMade, NEW x \in Items, Due(x)
    PROVE  /\ Wanted(x) /\ x \notin expired /\ x \notin forfeited
           /\ ~\E p \in Slots : TakeBack(p) /\ Makes(p) /\ job[p].item = x
  <1>1. CASE x \in owed
    BY <1>1 DEF OwedIsMade, Due
  <1>2. ASSUME NEW q \in Slots, Settled(q), job[q].item = x
        PROVE  /\ Wanted(x) /\ ~\E p \in Slots : TakeBack(p) /\ Makes(p) /\ job[p].item = x
    <2>1. Unclashed(q) /\ Writes(q)
      BY <1>2 DEF Settled
    <2> QED BY <1>2, <2>1, OnlyMaker DEF AddersWanted, TakeBack, Writes
  <1> QED BY <1>1, <1>2 DEF Due

(* An item becomes due when the row is written for it.                     *)
LEMMA DueFrom ==
    ASSUME Base, Base', ExpireFits, [WsNext]_wsVars, NEW x \in Items, Due(x)', ~Due(x)
    PROVE  /\ x \notin expired /\ x \notin forfeited
           /\ \E q \in Slots : /\ Unclashed(q) /\ Writes(q) /\ job[q].item = x
                               /\ Save(job[q].at, TenantOf[x])
  <1> USE DEF Base
  <1>0. x \notin expired /\ x \notin forfeited
    BY ExpireFitsKept, ForfeitedGrows DEF Due
  <1>1. ~(x \in owed') \/ x \in owed
    <2>1. ASSUME NEW q \in Slots, EndSave(q), job[q].op \in Adding, ~job[q].clash, job[q].item = x PROVE Due(x)
      <3>1. Settled(q)
        BY <2>1 DEF EndSave, Settled, Unclashed, Busy, Writes, At
      <3> QED BY <1>0, <2>1, <3>1 DEF Due
    <2> QED BY <2>1, OwedFrom
  <1>2. PICK q \in Slots : Settled(q)' /\ job'[q].item = x
    BY <1>0, <1>1 DEF Due
  <1>3. Unclashed(q)' /\ Writes(q)' /\ TenantOf[x] \notin todo'[job'[q].at] /\ job'[q].pc = "saving"
    BY <1>2 DEF Settled, Home, Writes
  <1>4. /\ Unclashed(q) /\ job[q].item = x /\ job'[q].at = job[q].at /\ job[q].at \in Instances
        /\ Writes(q) \/ BeginSave(q)
    BY <1>2, <1>3, StageFrom
  <1>5. ~BeginSave(q)
    BY <1>3, <1>4, BeginSaveFacts DEF Unclashed, Adding, Home
  <1>6. TenantOf[x] \in todo[job[q].at]
    BY <1>0, <1>4, <1>5 DEF Due, Settled, Home
  <1>7. ~\E t \in Tenants, written \in BOOLEAN : FailSave(q, t, written)
    BY <1>3, <1>4, GoesFacts, AnswerFacts DEF FailSave, NoJob, Unclashed
  <1>8. todo[job[q].at] \subseteq Tenants /\ job'[q] # NoJob
    BY <1>3, <1>4 DEF WsTypeOK, NoJob
  <1>9. Save(job[q].at, TenantOf[x])
    BY <1>3, <1>4, <1>5, <1>6, <1>7, <1>8, WriteGoesOn
  <1> QED BY <1>0, <1>4, <1>5, <1>9

LEMMA DueIsKeptKept == ASSUME KeptInv, [WsNext]_wsVars PROVE DueIsKept'
  <1> USE DEF KeptInv, AwayInv, Base, Origins
  <1> SUFFICES ASSUME NEW x \in Items, Due(x)'
               PROVE  /\ x \in record'[TenantOf[x]]
                      /\ x \in Workspaces => x \in disk'
                      /\ \A i \in Instances : Rules(i, TenantOf[x])' =>
                            /\ Complete(mem'[i], x)
                            /\ Saving(i)' /\ TenantOf[x] \in todo'[i] => Complete(snap'[i], x)
    BY DEF DueIsKept, Complete
  <1> DEFINE t == TenantOf[x]
  <1>0. t \in Tenants /\ Base'
    BY BaseStep, ItemFacts
  <1>1. CASE Due(x)
    <2>0. /\ x \in record[t] /\ (x \in Workspaces => x \in disk)
          /\ \A i \in Instances : Rules(i, t) =>
                 Complete(mem[i], x) /\ (Saving(i) /\ t \in todo[i] => Complete(snap[i], x))
      BY <1>1 DEF DueIsKept
    <2>1. /\ Wanted(x) /\ x \notin expired /\ x \notin forfeited
          /\ ~\E p \in Slots : TakeBack(p) /\ Makes(p) /\ job[p].item = x
      BY <1>1, DueFacts
    <2>2. x \notin forfeited'
      BY DEF Due
    <2>3. x \in record'[t]
      <3>1. ASSUME NEW i \in Instances, Stores(i, t), x \notin Slice(snap[i], t) PROVE FALSE
        BY <1>0, <2>0, <3>1, StoresFacts, SliceComplete
      <3> QED BY <1>0, <2>0, <3>1, RowsLose
    <2>4. x \in Workspaces => x \in disk'
      <3>1. ASSUME NEW p \in Slots, job[p].item = x, job[p].op = "cleanup" PROVE FALSE
        BY <2>1, <3>1 DEF Wanted, GoneIn, Gone
      <3>2. ASSUME NEW p \in Slots, job[p].item = x, job[p].op = "prepare", TakeBack(p) PROVE FALSE
        BY <2>1, <3>2 DEF Makes, GivesId, TakeBack, Busy
      <3> QED BY <2>0, <3>1, <3>2, DiskChange
    <2>5. ASSUME NEW i \in Instances, Rules(i, t), Rules(i, t)'
          PROVE  Complete(mem'[i], x) /\ (Saving(i)' /\ t \in todo'[i] => Complete(snap'[i], x))
      <3>1. ~Down(i)
        BY <2>5, DownFacts DEF Rules
      <3>2. Complete(mem[i], x)
        BY <2>0, <2>5
      <3>3. Complete(mem'[i], x)
        BY <2>0, <2>1, <2>2, <3>1, <3>2, CompleteStays
      <3>4. ASSUME Saving(i)', t \in todo'[i] PROVE Complete(snap'[i], x)
        BY <1>0, <2>0, <2>5, <3>3, <3>4, SavingFrom
      <3> QED BY <3>3, <3>4
    <2>6. ASSUME NEW i \in Instances, Load(i, t)
          PROVE  Complete(mem'[i], x) /\ ~Saving(i)'
      <3>1. /\ mem'[i] = mem[i] \cup record[t] /\ UNCHANGED <<job, phase>> /\ phase[i] = "loading"
        BY <2>6 DEF Load, WsTypeOK
      <3>2. \A q \in Slots : job[q].pc = "saving" => job[q].at # i
        BY <3>1, Owner DEF Listening
      <3>3. ~Saving(i)'
        BY <3>1, <3>2 DEF Saving, At
      <3>4. x \in Grants => ObjectOf[x] \in record[t]
        BY <1>0, <2>0 DEF RowsFit
      <3> QED BY <2>0, <3>1, <3>3, <3>4 DEF Complete
    <2>7. ASSUME NEW i \in Instances, NEW q \in Slots, job[q].at = i, ClaimLate(q, t)
          PROVE  Complete(mem'[i], x) /\ Complete(snap'[i], x)
      <3>1. /\ UNCHANGED <<mem, snap>> /\ Writes(q) /\ t \notin owned[i] /\ phase[i] # "closing"
            /\ forfeited' = forfeited \cup (record[t] \ snap[i])
        BY <2>7 DEF ClaimLate, Claim, Claimable, Writes, At
      <3>2. x \in snap[i]
        BY <2>0, <2>2, <3>1
      <3>3. x \in Objects
        BY <2>0, <3>1, <3>2 DEF Unwritten, Private, Has, Secret
      <3>4. Saving(i)
        BY <2>7, <3>1 DEF Saving, At, Writes
      <3>5. x \in mem[i]
        BY <2>1, <3>2, <3>3, <3>4 DEF SnapFits, Wanted
      <3> QED BY <3>1, <3>2, <3>3, <3>5, ItemFacts DEF Complete
    <2> QED BY <1>0, <2>3, <2>4, <2>5, <2>6, <2>7, RulesFrom
  <1>2. CASE ~Due(x)
    <2>1. PICK q \in Slots : Unclashed(q) /\ Writes(q) /\ job[q].item = x /\ Save(job[q].at, t) /\ x \notin expired
      BY <1>0, <1>2, DueFrom
    <2> DEFINE k == job[q].at
    <2>2. k \in Instances /\ OpFits(job[q].op, x)
      BY <2>1, Owner DEF Writes
    <2>3. Complete(mem[k], x) /\ Complete(snap[k], x)
      BY <2>1 DEF EnteredStays, Writes
    <2>4. /\ UNCHANGED <<mem, snap, owned, owner, disk>> /\ owner[t] = k
      BY <2>1 DEF Save, Write, MayWrite, Held
    <2>5. x \in record'[t]
      <3>1. Stores(k, t)
        BY <1>0, <2>1, <2>2, SaveStores
      <3> QED BY <2>3, <3>1, SliceComplete DEF Stores
    <2>6. x \in Workspaces => x \in disk
      <3>1. x \in Workspaces => job[q].op = "prepare"
        BY <2>1, <2>2, ItemFacts DEF OpFits, Unclashed, Adding
      <3> QED BY <2>1, <3>1 DEF CheckoutsStand, Writes
    <2>7. \A i \in Instances : Rules(i, t)' => i = k
      BY <2>4 DEF Rules
    <2> QED BY <2>3, <2>4, <2>5, <2>6, <2>7
  <1> QED BY <1>1, <1>2

LEMMA KeptInit == WsInit => KeptInv
  <1> SUFFICES ASSUME WsInit PROVE KeptInv
    OBVIOUS
  <1>1. AwayInv
    BY AwayInit
  <1>2. \A q \in Slots : ~Busy(q) /\ ~Writes(q)
    BY DEF WsInit, NoJob, Busy, Writes
  <1>3. \A i \in Instances : ~Saving(i)
    BY <1>2 DEF WsInit, Saving, Writes
  <1>4. \A x \in Items : ~Due(x)
    BY <1>2 DEF WsInit, Due, Settled
  <1> QED BY <1>1, <1>2, <1>3, <1>4 DEF WsInit, KeptInv, ExpireFits, AddersWanted, CheckoutsStand, EnteredStays, SnapFits,
            OwedIsMade, DueIsKept, Unclashed

LEMMA KeptStep == KeptInv /\ [WsNext]_wsVars => KeptInv'
  <1> SUFFICES ASSUME KeptInv, [WsNext]_wsVars PROVE KeptInv'
    OBVIOUS
  <1>1. Base /\ OneMaker
    BY DEF KeptInv, AwayInv, Origins
  <1>2. AwayInv' /\ ExpireFits'
    BY AwayStep, ExpireFitsKept DEF KeptInv
  <1>3. AddersWanted' /\ CheckoutsStand' /\ EnteredStays'
    BY <1>1, AddersWantedKept, CheckoutsStandKept, EnteredStaysKept DEF KeptInv
  <1>4. SnapFits' /\ OwedIsMade' /\ DueIsKept'
    BY <1>1, SnapFitsKept, OwedIsMadeKept, DueIsKeptKept DEF KeptInv
  <1> QED BY <1>2, <1>3, <1>4 DEF KeptInv

(* What was acknowledged as stored is in its row, and a checkout on the    *)
(* disk, until somebody asks for it to go, its time is over, or a start    *)
(* or a late claim gives it up.                                            *)
THEOREM AcknowledgementsStand == WsSpec => []AcknowledgedIsKept
  <1>1. KeptInv => AcknowledgedIsKept
    <2> SUFFICES ASSUME KeptInv, NEW x \in owed, x \notin expired, x \notin forfeited
                 PROVE  x \in Recorded /\ (x \in disk \/ x \in Items \ Workspaces)
      BY DEF AcknowledgedIsKept
    <2>1. x \in Items /\ Due(x)
      BY DEF KeptInv, AwayInv, Base, WsTypeOK, Due
    <2>2. x \in record[TenantOf[x]] /\ (x \in Workspaces => x \in disk)
      BY <2>1 DEF KeptInv, DueIsKept
    <2>3. x \in Recorded
      BY <2>1, <2>2, ItemFacts DEF Recorded
    <2> QED BY <2>1, <2>2, <2>3
  <1> QED BY KeptInit, KeptStep, <1>1, PTL DEF WsSpec
=============================================================================
