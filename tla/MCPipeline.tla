----------------------------- MODULE MCPipeline -----------------------------
(***************************************************************************)
(* One task, one worker whose relay has one or two executions, jobs with   *)
(* two tries, and one request or none that edits or toggles the task.      *)
(***************************************************************************)
EXTENDS Pipeline, TLC

CONSTANTS r1, r2, w1, x1, q1

MCMsg     == {1}
OneWorker == [r \in Relay |-> w1]
=============================================================================
