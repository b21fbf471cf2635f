---------------------------- MODULE WeaveContents ----------------------------
(***************************************************************************)
(* What the index promises the executor and VACUUM: it is a set of         *)
(* entries.  An entry is there from the index insert of its row, until     *)
(* VACUUM takes it out of a row that is dead; a line pointer is given back *)
(* when no entry is left for it.  Folding the pending list, merging bolts, *)
(* waiting, failing and crashing do not show.                              *)
(***************************************************************************)
EXTENDS Naturals

CONSTANTS Tids, NullFlags, MaxInc

VARIABLES
    st, inc, nul,   \* the heap, as in WeaveIndex
    contents        \* the entries

vars == <<st, inc, nul, contents>>

RowAt(t) == [tid |-> t, inc |-> inc[t], nul |-> nul[t]]

\* The rows of D move on to state s.
Rows(D, s) == st' = [t \in Tids |-> IF t \in D THEN s ELSE st[t]]

Init ==
    /\ st = [t \in Tids |-> "unused"]
    /\ inc = [t \in Tids |-> 0]
    /\ nul = [t \in Tids |-> FALSE]
    /\ contents = {}

NewRow(t, isnull) ==
    /\ st[t] = "unused" /\ inc[t] < MaxInc
    /\ Rows({t}, "busy")
    /\ inc' = [inc EXCEPT ![t] = @ + 1]
    /\ nul' = [nul EXCEPT ![t] = isnull]
    /\ UNCHANGED contents

AddEntry(t) ==
    /\ st[t] = "busy"
    /\ Rows({t}, "indexed")
    /\ contents' = contents \cup {RowAt(t)}
    /\ UNCHANGED <<inc, nul>>

Commit(t) ==
    /\ st[t] = "indexed"
    /\ Rows({t}, "live")
    /\ UNCHANGED <<inc, nul, contents>>

\* Rows are deleted, or their transactions abort; their entries stay.
Kill(D) ==
    /\ \A t \in D : st[t] \in {"busy", "indexed", "live"}
    /\ Rows(D, "dead")
    /\ UNCHANGED <<inc, nul, contents>>

Remove(D) ==
    /\ \A e \in D : st[e.tid] = "dead"
    /\ contents' = contents \ D
    /\ UNCHANGED <<st, inc, nul>>

Free(D) ==
    /\ \A t \in D : st[t] = "dead"
    /\ \A e \in contents : e.tid \notin D
    /\ Rows(D, "unused")
    /\ UNCHANGED <<inc, nul, contents>>

Next ==
    \/ \E t \in Tids, isnull \in NullFlags : NewRow(t, isnull)
    \/ \E t \in Tids : AddEntry(t) \/ Commit(t)
    \/ \E D \in SUBSET Tids : Kill(D) \/ Free(D)
    \/ \E D \in SUBSET contents : Remove(D)

Spec == Init /\ [][Next]_vars
=============================================================================
