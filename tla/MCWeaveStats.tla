---------------------------- MODULE MCWeaveStats ----------------------------
(* WeaveStats for TLC: line pointers and sessions are interchangeable. *)
EXTENDS WeaveStats, TLC

Symmetry == Permutations(Tids) \cup Permutations(Backends)
=============================================================================
