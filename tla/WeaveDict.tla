------------------------------ MODULE WeaveDict ------------------------------
(***************************************************************************)
(* The dictionary of a bolt and the lookups a lexical scan makes in it       *)
(* (src/src/am/amscan.c, src/include/weave/uleven.h,                         *)
(* src/src/pages/trgm_page.c).  A bolt's terms are byte strings in memcmp    *)
(* order, cut into pages of PageTerms entries; a block index names the first *)
(* term of every page; a trigram weft names, by ordinal, the terms that hold *)
(* a gram.  Bytes are 0..MaxByte (255 in the code) and grams have GramLen    *)
(* bytes (3 in the code), so that short strings meet every case.             *)
(***************************************************************************)
EXTENDS Integers, Sequences, FiniteSets, FiniteSetsExt, SequencesExt

CONSTANTS
    MaxByte,      \* the largest byte (0xff)
    PageTerms,    \* dictionary entries of a page
    GramLen,      \* bytes of a gram (3)
    MaxUnits,     \* WEAVE_ULEVEN_MAX_UNITS: longest query the automaton takes
    Pattern       \* Pattern[p]: a regular expression, by what it means

(* Pattern[p] is [matches, cnf, narrowable]: the terms the engine matches, the *)
(* CNF of grams the extractor says a match must hold, and whether both        *)
(* dialects read the pattern alike.  The extractor's claim is only sound then. *)
ASSUME DictAssumption ==
    /\ MaxByte \in Nat \ {0} /\ PageTerms \in Nat \ {0}
    /\ GramLen \in Nat \ {0} /\ MaxUnits \in Nat

-----------------------------------------------------------------------------
(* memcmp order, shorter first on a tie. *)

Differ(a, b) == {i \in 1..Min({Len(a), Len(b)}) : a[i] # b[i]}
Below(a, b) == IF Differ(a, b) = {} THEN Len(a) < Len(b)
               ELSE LET i == Min(Differ(a, b)) IN a[i] < b[i]
AtMost(a, b) == a = b \/ Below(a, b)

(* weave_write_dictionary: the terms of a bolt in order, PageTerms a page.    *)
TermOrder(T) == [n \in 1..Cardinality(T) |->
                   CHOOSE t \in T : Cardinality({u \in T : Below(u, t)}) = n - 1]
WriteDict(T) ==
    LET o == TermOrder(T)
    IN [p \in 1..((Len(o) + PageTerms - 1) \div PageTerms) |->
          SubSeq(o, (p - 1) * PageTerms + 1, Min({p * PageTerms, Len(o)}))]

Entries(dict) == FlattenSeq(dict)
PageOf(i) == (i - 1) \div PageTerms + 1
FirstOf(p) == (p - 1) * PageTerms + 1

(* Walk the block index for the last page whose first term is at most key; a  *)
(* dictionary whose first term is above key is searched from its first page.  *)
weave_dict_seek_at(dict, key) ==
    Max({1} \cup {p \in DOMAIN dict : AtMost(dict[p][1], key)})

(* With a block index only the page it names is searched.                     *)
weave_lookup_term_at(dict, key) ==
    LET p == weave_dict_seek_at(dict, key)
    IN p \in DOMAIN dict /\ key \in ToSet(dict[p])

(* Walk on from the page that can hold prefix: entries that sort before it are *)
(* passed, and the first entry that sorts after every extension ends the walk. *)
Beyond(t, prefix) == Differ(t, prefix) # {} /\ Below(prefix, t)
weave_lookup_prefix(dict, prefix) ==
    LET e == Entries(dict)
        from == FirstOf(weave_dict_seek_at(dict, prefix))
        walk == from..Len(e)
    IN {e[i] : i \in {i \in walk : /\ IsPrefix(prefix, e[i])
                                   /\ \A j \in from..i : ~Beyond(e[j], prefix)}}

-----------------------------------------------------------------------------
(* The Levenshtein automaton, a row of distances capped at k + 1.             *)

NextRow(q, k, row, c) ==
    LET cap(v) == Min({v, k + 1})
        nxt[j \in 0..Len(q)] ==
            IF j = 0 THEN cap(row[0] + 1)
            ELSE cap(Min({row[j - 1] + (IF q[j] = c THEN 0 ELSE 1),
                          nxt[j - 1] + 1, row[j] + 1}))
    IN nxt
Row(q, k, s) == FoldLeft(LAMBDA row, c : NextRow(q, k, row, c),
                         [j \in 0..Len(q) |-> Min({j, k + 1})], s)
RowMin(row) == Min({row[j] : j \in DOMAIN row})

(* The length of the shortest dead prefix of s: no string within k of q        *)
(* extends it.                                                                *)
DeadAt(q, k, s) == {n \in 1..Len(s) : RowMin(Row(q, k, SubSeq(s, 1, n))) > k}
weave_uleven_match(q, k, s) ==
    IF DeadAt(q, k, s) # {} THEN "dead"
    ELSE IF Row(q, k, s)[Len(q)] <= k THEN "match" ELSE "alive"

(* weave_dictvocab_skip: the prefix with its last byte below MaxByte raised;  *)
(* <<>> when every byte is MaxByte and nothing sorts after it.                *)
NextKey(prefix) ==
    LET low == {i \in DOMAIN prefix : prefix[i] < MaxByte}
    IN IF low = {} THEN <<>>
       ELSE [SubSeq(prefix, 1, Max(low)) EXCEPT ![Max(low)] = @ + 1]

(* Where the walk goes from entry i once the first n bytes of it are dead: to   *)
(* the first entry of the page that can hold the next key, unless that is the  *)
(* page it is on or the next entry is already there.                           *)
weave_dictvocab_skip(dict, i, n) ==
    LET e == Entries(dict)
        key == NextKey(SubSeq(e[i], 1, n))
        tgt == weave_dict_seek_at(dict, key)
    IN IF key = <<>> THEN Len(e) + 1
       ELSE IF \/ i + 1 \in DOMAIN e /\ PageOf(i + 1) = PageOf(i) /\ AtMost(key, e[i + 1])
               \/ tgt = PageOf(i)
            THEN i + 1
            ELSE FirstOf(tgt)

(* weave_uleven_expand_vocab: the entries the walk stops at.                   *)
Successor(dict, q, k, i) ==
    LET dead == DeadAt(q, k, Entries(dict)[i])
    IN IF dead = {} THEN i + 1 ELSE weave_dictvocab_skip(dict, i, Min(dead))
Visited(dict, q, k) ==
    LET n == Len(Entries(dict))
        reach[i \in 1..n] == \/ i = 1
                             \/ \E j \in 1..(i - 1) : /\ Successor(dict, q, k, j) = i
                                                      /\ reach[j]
    IN {i \in 1..n : reach[i]}
weave_fuzzy_terms(dict, q, k) ==
    {Entries(dict)[i] : i \in {i \in Visited(dict, q, k) :
                               weave_uleven_match(q, k, Entries(dict)[i]) = "match"}}

(* weave_uleven_init refuses a query it would have to truncate.                *)
AutomatonTakes(q) == Len(q) <= MaxUnits

-----------------------------------------------------------------------------
(* Grams.  A term shorter than a gram has one padded gram (padding is -1).     *)

weave_trigrams(t) ==
    IF Len(t) < GramLen
    THEN {[i \in 1..GramLen |-> IF i \in DOMAIN t THEN t[i] ELSE -1]}
    ELSE {SubSeq(t, i, i + GramLen - 1) : i \in 1..(Len(t) - GramLen + 1)}

(* The trigram weft of a bolt, as the flush writes it beside the dictionary.   *)
weave_trgm_ordinals(dict, g) ==
    {i \in DOMAIN Entries(dict) : g \in weave_trigrams(Entries(dict)[i])}

(* Terms that share a gram with q.  One edit destroys GramLen grams, so the    *)
(* funnel refuses a query with fewer than GramLen * k + 1 of them.             *)
FlatMinimum(k) == GramLen
MinTrigrams(k) == GramLen * k + 1
FunnelServes(dict, q, k) ==
    /\ Cardinality(weave_trigrams(q)) >= MinTrigrams(k)
    /\ \E g \in weave_trigrams(q) : weave_trgm_ordinals(dict, g) # {}
weave_trgm_candidates(dict, q) ==
    {Entries(dict)[i] : i \in UNION {weave_trgm_ordinals(dict, g) : g \in weave_trigrams(q)}}

(* The regular-expression walk: every term, or the ones whose ordinal survives *)
(* the extractor's CNF when the pattern is narrowable and there is a weft.     *)
Narrows(p, trgm) == trgm /\ Pattern[p].narrowable /\ Pattern[p].cnf # {}
weave_regex_narrow(dict, p) ==
    {i \in DOMAIN Entries(dict) :
       \A alts \in Pattern[p].cnf : \E g \in alts : i \in weave_trgm_ordinals(dict, g)}
weave_regex_terms(dict, p, trgm) ==
    LET cands == IF Narrows(p, trgm) THEN weave_regex_narrow(dict, p) ELSE DOMAIN Entries(dict)
    IN {Entries(dict)[i] : i \in {i \in cands : Entries(dict)[i] \in Pattern[p].matches}}
=============================================================================
