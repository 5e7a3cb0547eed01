------------------------------- MODULE MCTasks ------------------------------
(***************************************************************************)
(* One task, two texts, two requests that edit or toggle it together.      *)
(***************************************************************************)
EXTENDS TaskHistory, TLC

CONSTANTS t1, x1, x2, q1, q2
=============================================================================
