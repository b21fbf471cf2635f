---------------------------- MODULE MCWeaveScan ----------------------------
(* WeaveScan for TLC: line pointers and sessions are interchangeable. *)
EXTENDS WeaveScan, TLC

Symmetry == Permutations(Tids) \cup Permutations(Backends)
=============================================================================
