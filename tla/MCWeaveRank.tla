---------------------------- MODULE MCWeaveRank ----------------------------
(* Small heaps, placements and scans for WeaveRank.                          *)
EXTENDS WeaveRank

Plain(terms, dist, words) ==
    [terms |-> terms, dist |-> dist, words |-> words, nulldoc |-> FALSE, vec |-> TRUE,
     lex |-> TRUE, other |-> TRUE, vis |-> TRUE, hot |-> FALSE, pred |-> TRUE, late |-> FALSE]
Both == {1, 2}
first(d)  == Plain({1}, d, {1, 2})
hot(d)    == [Plain(Both, d, {2}) EXCEPT !.hot = TRUE]
gone(d)   == [Plain({1}, d, {1}) EXCEPT !.vis = FALSE]
other(d)  == [Plain({2}, d, {0}) EXCEPT !.lex = FALSE]
empty     == [Plain({}, 2, {}) EXCEPT !.vec = FALSE, !.hot = TRUE]
bare      == Plain({}, 2, {})
outside   == [Plain({1}, 1, {1}) EXCEPT !.pred = FALSE]
unmatched == [Plain({}, 3, {3}) EXCEPT !.other = FALSE]
nulldoc   == [Plain({}, 1, {}) EXCEPT !.nulldoc = TRUE, !.lex = FALSE]
novec     == [Plain({1}, 2, {1}) EXCEPT !.vec = FALSE]
late      == [Plain({1}, 0, {0}) EXCEPT !.vis = FALSE, !.late = TRUE]

Heaps ==
    {<<first(a), hot(b), gone(c), other(d), x, late>> :
        a \in {1, 3}, b \in {1, 2}, c \in {1}, d \in {2}, x \in {empty, nulldoc}}
    \cup {<<first(2), gone(1), novec, unmatched, x, late>> : x \in {outside, nulldoc, hot(2)}}
    \cup {<<nulldoc, hot(1), nulldoc, empty, unmatched, late>>,
           <<nulldoc, hot(1), nulldoc, nulldoc, nulldoc, late>>,
           <<first(2), bare, gone(1), other(1), bare, late>>}
Crowded == {<<first(a), hot(2), gone(1), other(1), first(2), late>> : a \in {1, 3}}

Places ==
    {<<1, 1, 2, 2, PENDING>>, <<PENDING, 1, 1, PENDING, 1>>, <<1, 2, 1, 1, 2>>}
PlaceOf(h, p) ==
    [r \in DOMAIN h |-> IF h[r].late \/ ~h[r].pred THEN OUT ELSE p[r]]
(* A version before 12 does not index a row whose document is NULL.          *)
OldPlaceOf(h, p) == [r \in DOMAIN h |-> IF h[r].nulldoc THEN OUT ELSE PlaceOf(h, p)[r]]

Keys(kind, q, chan) ==
    [kind |-> kind, q |-> q, chan |-> chan, lex |-> "no", not |-> FALSE, dv |-> FALSE,
     cgram |-> FALSE, lossy |-> FALSE, v12 |-> TRUE, hint |-> 0, k |-> 0, slack |-> 0, again |-> {}]
Orders ==
    {Keys("lex", q, "none") : q \in {"term", "or", "and", "andnot", "ornot", "wild"}}
    \cup {[Keys("vec", "term", "none") EXCEPT !.again = a] :
            a \in {{Keys("lex", "term", "none")}}}
    \cup {[Keys("edist", "term", "none") EXCEPT !.slack = s] : s \in {0, 1}}
    \cup {Keys("fuse", "term", c) : c \in {"lexlex", "lexvec", "vecvec"}}
    \cup {Keys("fuse", "and", "lexlex")}
Wheres(o) ==
    {o}
    \cup {[o EXCEPT !.lex = l, !.dv = d] : l \in {"same", "other"}, d \in BOOLEAN}
    \cup {[o EXCEPT !.lex = "other", !.not = TRUE, !.lossy = b] : b \in BOOLEAN}
    \cup {[o EXCEPT !.dv = TRUE], [o EXCEPT !.cgram = TRUE], [o EXCEPT !.cgram = TRUE, !.lex = "same"]}
Wants == UNION {Wheres(o) : o \in Orders}
Reordered ==
    {[w EXCEPT !.again = {Keys("edist", "term", "none"), [Keys("lex", "term", "none") EXCEPT !.hint = 1]}] :
        w \in UNION {Wheres(o) : o \in {Keys("edist", "term", "none"), Keys("fuse", "term", "lexvec")}}}
Searches == {[Keys("search", q, "none") EXCEPT !.k = k] :
               q \in {"term", "or", "ornot", "wild"}, k \in {1, 2}}
FuseSearches == {[Keys("fuse", "term", c) EXCEPT !.k = k] : c \in {"lexlex", "lexvec", "vecvec"}, k \in {1, 3}}
OldWants == {[w EXCEPT !.v12 = FALSE] : w \in Wants}

MCStarts ==
    {[rows |-> h, place |-> PlaceOf(h, p), want |-> w] :
       h \in Heaps \cup Crowded, p \in Places, w \in Wants \cup Searches \cup FuseSearches}
    \cup {[rows |-> h, place |-> PlaceOf(h, p), want |-> w] :
            h \in {x \in Heaps : x[1].dist = 1}, p \in {<<1, 1, 2, 2, PENDING>>}, w \in Reordered}
    \cup {[rows |-> h, place |-> OldPlaceOf(h, p), want |-> w] :
            h \in Heaps, p \in {<<1, 1, 2, 2, PENDING>>}, w \in OldWants}
=============================================================================
