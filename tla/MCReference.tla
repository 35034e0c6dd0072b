----------------------------- MODULE MCReference -----------------------------
(* Instances of Reference for TLC. *)
EXTENDS Reference, TLC

Symmetry == Permutations(Clients) \union Permutations(Procs)
=============================================================================
