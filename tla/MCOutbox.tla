------------------------------ MODULE MCOutbox ------------------------------
(***************************************************************************)
(* Two messages and two relay executions, in two workers or in one.        *)
(***************************************************************************)
EXTENDS Outbox, TLC

CONSTANTS r1, r2, w1, w2

MCMsg   == 1 .. 2
TwoWorkers == r1 :> w1 @@ r2 :> w2
OneWorker  == r1 :> w1 @@ r2 :> w1
=============================================================================
