----------------------------- MODULE MCWorktree -----------------------------
(* The worktree with two commands at a time, two PIDs and two blocks of ports. *)
EXTENDS Worktree, TLC
CONSTANTS c1, c2, p1, p2, b1, b2
Symmetry == Permutations({c1, c2}) \cup Permutations({p1, p2}) \cup Permutations({b1, b2})
=============================================================================
