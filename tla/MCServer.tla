------------------------------ MODULE MCServer ------------------------------
(***************************************************************************)
(* Model checking of Server.  The application of a behaviour either shuts  *)
(* down or cancels the server, or aborts an association; in both it sends  *)
(* a report, to one association or by a broadcast.                         *)
(***************************************************************************)
EXTENDS Server

VARIABLE plan

Planned ==
  /\ plan = "ends" => g'["app"] = g["app"]
  /\ plan = "aborts" => shut' = "idle" /\ serveCtx' = "live"

PlannedInit == Init /\ plan \in {"ends", "aborts"}

PlannedSpec ==
  /\ PlannedInit
  /\ [][Next /\ Planned /\ UNCHANGED plan]_<<vars, plan>>
  /\ Fairness

=============================================================================
