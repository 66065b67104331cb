------------------------------ MODULE MCPiRun ------------------------------
(***************************************************************************)
(* Liveness of a run, either with a fault or with a cancellation: both at  *)
(* once are explored for safety only.                                      *)
(***************************************************************************)
EXTENDS PiRun

FaultOrCancel == faults = 0 \/ \A c \in Cancels : web[c] = "idle" /\ cmd[c].status = "none"
=============================================================================
