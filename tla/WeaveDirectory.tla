--------------------------- MODULE WeaveDirectory ---------------------------
(***************************************************************************)
(* How a merge rewrites segs[], the bolt directory: the loop of            *)
(* weave_merge_selected_ex() copies the descriptors that stay and puts     *)
(* what was written behind them.  WeaveIndex and WeaveMerge use it.        *)
(***************************************************************************)
EXTENDS Integers, Sequences, FiniteSets

\* Where the bolt at position i goes when the positions in S are removed.
KeptPos(S, i) == i - Cardinality({j \in S : j < i})

\* The directory d without the positions in S, order preserved, then new.
Rewritten(d, S, new) ==
    LET nkept == Len(d) - Cardinality(S)
    IN  [k \in 1..(nkept + Len(new)) |->
            IF k > nkept THEN new[k - nkept]
            ELSE d[CHOOSE i \in (DOMAIN d) \ S : KeptPos(S, i) = k]]

=============================================================================
