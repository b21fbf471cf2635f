---------------------------- MODULE MCWeavePages ----------------------------
(* WeavePages for TLC: sessions are interchangeable. *)
EXTENDS WeavePages, TLC

Symmetry == Permutations(Backends)
=============================================================================
