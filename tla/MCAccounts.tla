----------------------------- MODULE MCAccounts -----------------------------
(* One registration and two seeds of one email, with two sample tasks. *)
EXTENDS Accounts
CONSTANTS r1, s1, s2, t1, t2
=============================================================================
