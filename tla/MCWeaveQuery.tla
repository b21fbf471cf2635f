---------------------------- MODULE MCWeaveQuery ----------------------------
(* Small dictionaries, documents and queries for WeaveQuery.  Letters: a = 0, *)
(* b = 1; 2 is the capital of a, 3 and 4 a letter outside ASCII in both cases. *)
EXTENDS WeaveQuery

a == <<0>>
ab == <<0, 1>>
aba == <<0, 1, 0>>
aaa == <<0, 0, 0>>
aab == <<0, 0, 1>>
bb == <<1, 1>>

Plain(terms, positions) ==
    [null |-> FALSE, dead |-> FALSE, haspos |-> positions, pos |-> terms, text |-> <<0, 1>>, dv |-> 1]
TwoWords(t, p, u, q) == [x \in {t, u} |-> IF x = t THEN p ELSE q]

adjacent == Plain(TwoWords(a, {<<1, "A">>}, ab, {<<2, "B">>}), TRUE)
apart    == [Plain([x \in {a, ab, bb} |-> IF x = a THEN {<<1, "B">>} ELSE IF x = ab THEN {<<3, "A">>} ELSE {<<2, "B">>}], TRUE)
               EXCEPT !.text = <<2, 1, 3>>, !.dv = 2]
mixed    == [Plain(TwoWords(a, {<<0, "D">>}, ab, {<<1, "D">>}), TRUE) EXCEPT !.text = <<0, 0>>, !.dv = NoValue]
stripped == [Plain(TwoWords(a, {}, ab, {}), FALSE) EXCEPT !.text = <<1, 3, 4>>, !.dv = 3]
many     == [Plain(TwoWords(a, {<<1, "A">>, <<3, "A">>, <<5, "A">>}, ab, {<<4, "A">>}), TRUE) EXCEPT !.text = <<>>]
words    == [Plain(TwoWords(aab, {<<1, "A">>}, aaa, {<<2, "A">>}), TRUE) EXCEPT !.text = <<1, 4, 4>>, !.dv = 2]
triple   == [Plain([x \in {aaa, aba, ab, bb} |-> {<<1, "A">>}], TRUE) EXCEPT !.dv = 0]
lone     == [Plain([x \in {aaa} |-> {<<1, "A">>}], TRUE) EXCEPT !.dv = 3]
empty    == [Plain(<<>>, TRUE) EXCEPT !.text = <<>>, !.dv = 0]
nulldoc  == [Plain(<<>>, FALSE) EXCEPT !.null = TRUE, !.text = <<>>, !.dv = 2]

Bolts2(d, e, trgm, cgram) ==
    <<MakeBolt([t \in {1, 2} |-> IF t = 1 THEN d ELSE triple], {2}, trgm, cgram),
      MakeBolt([t \in {2, 3} |-> IF t = 2 THEN e ELSE words], {}, TRUE, TRUE)>>
Index(bolts, pending) == [bolts |-> bolts, pending |-> pending, gen |-> 1]

(* The recently dead row 1 and the live row 2 hold the same term.               *)
RecentlyDead ==
    Index(<<MakeBolt([t \in {1, 2} |-> IF t = 1 THEN [lone EXCEPT !.dead = TRUE] ELSE lone],
                     {}, TRUE, TRUE)>>, <<>>)
Corpora ==
    {Index(Bolts2(d, e, trgm, trgm), p) :
       d \in {adjacent, apart, stripped, empty}, <<e, trgm>> \in
         ({lone, many, mixed, nulldoc} \X {TRUE}) \cup ({mixed} \X {FALSE}),
       p \in {<<>>, [t \in {4} |-> adjacent]}}
(* A scan over one of these may see the index move twice.                       *)
NarrowCorpora ==
    {[Index(Bolts2(d, e, TRUE, TRUE), p) EXCEPT !.gen = 0] : d \in {adjacent, apart}, e \in {many, nulldoc},
                                          p \in {[t \in {4} |-> stripped]}}

Leaf(kind, t, k, mask) == [op |-> "val", kind |-> kind, term |-> t, k |-> k, mask |-> mask]
And == [op |-> "and"]
Or == [op |-> "or"]
Not == [op |-> "not"]
Near(n) == [op |-> "phrase", dist |-> n, exact |-> FALSE]
Gap(n) == [op |-> "phrase", dist |-> n, exact |-> TRUE]

ExactA == Leaf("exact", a, 0, {})
ExactAb == Leaf("exact", ab, 0, {})
ExactBb == Leaf("exact", bb, 0, {})
WeightA == Leaf("exact", a, 0, {"A"})
PrefixA == Leaf("prefix", a, 0, {})
PrefixAb == Leaf("prefix", ab, 0, {})
FuzzyAb == Leaf("fuzzy", ab, 1, {})           \* the automaton takes it
FuzzyAba == Leaf("fuzzy", aba, 1, {})         \* too long for it, too few grams
FuzzyLong == Leaf("fuzzy", <<0, 0, 1, 1>>, 1, {}) \* too long, the funnel serves
RegexSafe == Leaf("regex", "safe", 0, {})
RegexWord == Leaf("regex", "word", 0, {})

MCPattern == [p \in {"safe", "word"} |->
    IF p = "safe" THEN [matches |-> {ab, aba}, cnf |-> {{<<0, 1>>}}, narrowable |-> TRUE]
    ELSE [matches |-> {aaa, bb}, cnf |-> {{<<0, 1>>}}, narrowable |-> FALSE]]

AllLeaves == {ExactA, ExactAb, ExactBb, WeightA, PrefixA, PrefixAb, FuzzyAb, FuzzyAba,
              FuzzyLong, RegexSafe, RegexWord}
Some == {ExactA, ExactAb, WeightA, PrefixAb, FuzzyAb, RegexWord}
Queries ==
    {<<l>> : l \in AllLeaves} \cup {<<l, Not>> : l \in AllLeaves}
    \cup {<<l, m, o>> : l \in Some, m \in Some, o \in {And, Or, Near(1)}}
    \cup {<<l, m, Not, o>> : l \in {ExactA, WeightA, FuzzyAb}, m \in {ExactAb, WeightA, RegexSafe}, o \in {And, Or}}
    \cup {<<l, m, o, Not>> : l \in {ExactA, WeightA}, m \in {ExactAb, PrefixAb}, o \in {And, Or, Near(1), Gap(2)}}
    \cup {<<l, Not, m, Not, o>> : l \in {ExactA, WeightA}, m \in {ExactBb, FuzzyAb}, o \in {And, Or}}
Phrases ==
    {<<ExactA, m, p>> : m \in {ExactAb, ExactBb}, p \in {Near(1), Near(2), Gap(1), Gap(2), Gap(0)}}
    \cup {<<ExactA, ExactBb, Near(1), ExactAb, p>> : p \in {Near(1), Gap(2)}}
    \cup {<<ExactBb, ExactA, ExactAb, And, Near(1)>>, <<ExactA, ExactAb, Near(1), ExactBb, Or>>}

Cond(kind, q, pat, ci, keys) == [kind |-> kind, query |-> q, pat |-> pat, ci |-> ci, keys |-> keys]
Likes == {<<ANY, 0, 1, ANY>>, <<0, ONE>>, <<1, 3, ANY>>, <<ANY, 3, 3>>, <<ANY, 0, 0, ANY>>}
Keys == {<<[op |-> o, c |-> 2]>> : o \in {"<", "<=", "=", ">=", ">"}}
        \cup {<<[op |-> ">=", c |-> 1], [op |-> "<", c |-> 3]>>}
MCStarts ==
    {[ix |-> i, want |-> Cond("lex", q, <<>>, FALSE, <<>>)] : i \in Corpora, q \in Queries \cup Phrases}
    \cup {[ix |-> i, want |-> Cond("cgram", <<>>, p, ci, <<>>)] : i \in Corpora, p \in Likes, ci \in BOOLEAN}
    \cup {[ix |-> i, want |-> Cond(k, q, <<>>, FALSE, ks)] :
            i \in NarrowCorpora, k \in {"dv", "both"},
            q \in {<<ExactA>>, <<WeightA>>, <<ExactA, ExactAb, Near(1)>>}, ks \in Keys}
MCDeadStarts ==
    {[ix |-> RecentlyDead, want |-> Cond("lex", q, <<>>, FALSE, <<>>)] : q \in Queries \cup Phrases}
MCFoldOf == [c \in 0..4 |-> IF c = 2 THEN 0 ELSE c]
MCLowerOf == [c \in 0..4 |-> CASE c = 2 -> 0 [] c = 3 -> 4 [] OTHER -> c]
=============================================================================
