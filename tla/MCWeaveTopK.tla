---------------------------- MODULE MCWeaveTopK ----------------------------
(* Corpora for TLC.                                                          *)
EXTENDS WeaveTopK

(* A bolt from per-document choices [a, b, dl, vec]: a and b are the term    *)
(* frequencies of terms 1 and 2.  A docid is live in at most one bolt.       *)
BoltWith(f, n, tomb, nulls, sidecar, merged) ==
    [tf |-> SubSeq(<<[d \in DOMAIN f |-> f[d].a], [d \in DOMAIN f |-> f[d].b],
                       [d \in DOMAIN f |-> 1], [d \in DOMAIN f |-> IF d < 2 THEN 1 ELSE 0]>>,
                     1, n),
     dl |-> [d \in DOMAIN f |-> f[d].dl],
     vec |-> [d \in DOMAIN f |-> f[d].vec], tomb |-> tomb, nulls |-> nulls,
     sidecar |-> sidecar, merged |-> merged]
BoltOf(f, n, tomb, nulls) == BoltWith(f, n, tomb, nulls, TRUE, FALSE)

Query(algo, bolts, terms, op, filter, k) ==
    [algo |-> algo, bolts |-> bolts, terms |-> terms, op |-> op, filter |-> filter,
     k |-> k, hasvec |-> FALSE, gated |-> FALSE, slack |-> 0]

D == 0..4
Tuple(a, b, dl, vec) == [a |-> a, b |-> b, dl |-> dl, vec |-> vec]

Long == [d \in D |-> 3 + (d % 3)]   \* lengths 3 and 5 are rounded down
Same == [d \in D |-> 3]

(* Two terms over one bolt, two blocks of two postings: block-max WAND under *)
(* every boolean gate, with a tombstone and with a filter; the bolt fresh or *)
(* merged, its lengths in a sidecar or in its blocks.                        *)
Wand(tomb, op, filter, k, dl, sidecar, merged) ==
    {Query("lexical", <<BoltWith([d \in 0..3 |-> Tuple(a[d], b[d], dl[d], 0)], 2, tomb, {}, sidecar, merged)>>,
           <<1, 2>>, op, filter, k) : a \in [0..3 -> 0..2], b \in [0..3 -> 0..1]}
WandCorpora == Wand({}, "or", D, 1, Long, TRUE, FALSE) \cup Wand({1}, "or", D, 2, Same, TRUE, TRUE)
               \cup Wand({}, "and", D, 1, Long, FALSE, TRUE)
               \cup Wand({}, "andnot", D, 1, Same, FALSE, FALSE)
               \cup Wand({}, "phrase", D \ {2}, 1, Same, TRUE, FALSE)

(* One term over two bolts that share a docid, dead in the first.            *)
SharedCorpora ==
    {Query("lexical", <<BoltOf([d \in 0..2 |-> Tuple(a[d], 0, 3, 0)], 1, {1}, {}),
                        BoltOf([d \in {1, 3} |-> Tuple((d + 1) \div 2, 0, dl, 0)], 1, {}, {})>>,
           <<1>>, op, IF op = "or" THEN D ELSE {}, k) : op \in {"or", "phrase"}, a \in [0..2 -> 0..2], dl \in {3, 4}, k \in 1..2}

(* Two terms and a vector over one bolt, with dead lanes, a tombstone, a     *)
(* document that is NULL, and a WHERE gate.                                  *)
Fuse(tomb, nulls, filter, v, k) ==
    {[Query("fuse", <<BoltOf([d \in 0..3 |-> Tuple(IF d \in nulls THEN 0 ELSE a[d], d % 2, Long[d], IF d = 0 THEN -3 ELSE vec[d])],
                             2, tomb, nulls)>>, <<1, 2>>, "or", filter, k)
        EXCEPT !.hasvec = v, !.gated = filter # D, !.slack = IF v THEN 1 ELSE 0] :
        a \in [0..3 -> 0..2], vec \in IF v THEN [1..3 -> {NegInf, -9, -3}] ELSE {[d \in 1..3 |-> 0]}}
FusedCorpora ==
    Fuse({}, {}, D, TRUE, 1) \cup Fuse({1}, {2}, D, TRUE, 2)
    \cup Fuse({}, {}, {1, 2, 3}, TRUE, 1)
    \cup Fuse({}, {}, D, FALSE, 1) \cup Fuse({1}, {}, D, FALSE, 2)

VectorCorpora ==
    {Query("vector", <<BoltOf([d \in {1, 4} |-> Tuple(0, 0, 3, v[d])], 0, {}, {}),
                       BoltOf([d \in 0..3 |-> Tuple(0, 0, 3, u[d])], 0, {1}, {})>>,
           <<>>, "or", IF k = 1 THEN D ELSE {0, 1, 3, 4}, k) :
        u \in [0..3 -> {NegInf, 1, 3}], v \in [{1, 4} -> {NegInf, 2, 4}], k \in {1, 2}}

(* Four terms over one small document set: MaxScore.                         *)
MaxScoreCorpora ==
    {Query("lexical", <<BoltOf([d \in 0..2 |-> Tuple(a[d], b[d], Long[d] + 2, 0)], 4, {}, {})>>,
           <<1, 2, 3, 4>>, "or", D, 1) : a \in [0..2 -> 0..2], b \in [0..2 -> 0..1]}

MCCorpora == WandCorpora \cup SharedCorpora \cup FusedCorpora \cup VectorCorpora
             \cup MaxScoreCorpora
=============================================================================
