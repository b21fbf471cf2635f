---------------------------- MODULE MCWeaveCache ----------------------------
(* WeaveCache for TLC: patterns and addresses are interchangeable. *)
EXTENDS WeaveCache, TLC

Symmetry == Permutations(Patterns) \cup Permutations(Handles)
=============================================================================
