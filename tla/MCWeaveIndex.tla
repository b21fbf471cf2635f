---------------------------- MODULE MCWeaveIndex ----------------------------
(* WeaveIndex for TLC: line pointers and sessions are interchangeable. *)
EXTENDS WeaveIndex, TLC

Symmetry == Permutations(Tids) \cup Permutations(Backends)
=============================================================================
