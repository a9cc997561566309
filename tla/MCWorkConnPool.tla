-------------------------- MODULE MCWorkConnPool --------------------------
(* WorkConnPool on small instances. *)
EXTENDS WorkConnPool, TLC

(* Used where only invariants are checked. *)
Symmetry == Permutations(User) \cup Permutations(Work)
=============================================================================
