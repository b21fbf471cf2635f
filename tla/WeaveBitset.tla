---------------------------- MODULE WeaveBitset ----------------------------
(***************************************************************************)
(* What a bitmap promises its callers: it is a set of indices.  An update  *)
(* either succeeds, and does to the set exactly what its indices say, or   *)
(* reports a failure (no room) and changes nothing.                        *)
(***************************************************************************)
CONSTANT Index

VARIABLES
    members,   \* the set
    call       \* the last update asked for: [op, S, ok]

Init ==
    /\ members = {}
    /\ call = [op |-> "clear", S |-> {}, ok |-> TRUE]

Add(S) ==
    /\ call' = [op |-> "add", S |-> S, ok |-> TRUE]
    /\ members' = members \cup S

Remove(S) ==
    /\ call' = [op |-> "remove", S |-> S, ok |-> TRUE]
    /\ members' = members \ S

Clear ==
    /\ call' = [op |-> "clear", S |-> {}, ok |-> TRUE]
    /\ members' = {}

Fail(op, S) ==
    /\ call' = [op |-> op, S |-> S, ok |-> FALSE]
    /\ members' = members

\* Lookups, and a trip of the buffer through storage.
Read ==
    /\ call' = [op |-> "read", S |-> {}, ok |-> TRUE]
    /\ members' = members

Next ==
    \/ Clear
    \/ Read
    \/ /\ call'.S \in SUBSET Index
       /\ \/ Add(call'.S)
          \/ Remove(call'.S)
          \/ Fail("add", call'.S)
          \/ Fail("remove", call'.S)

Spec == Init /\ [][Next]_<<members, call>>
=============================================================================
