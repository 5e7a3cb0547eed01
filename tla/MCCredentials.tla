--------------------------- MODULE MCCredentials ---------------------------
(***************************************************************************)
(* Two passwords, one browser with two requests in flight.                 *)
(***************************************************************************)
EXTENDS Credentials, TLC

CONSTANTS p1, p2, b1, q1, q2
=============================================================================
