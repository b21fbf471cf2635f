----------------------------- MODULE WeaveQuery -----------------------------
(***************************************************************************)
(* The exact scans of the access method: weave_getbitmap over a boolean and   *)
(* phrase query (weave_collect_matches), a LIKE pattern (weave_cgram_collect) *)
(* or docvalue conditions (weave_docvals_gate), and the matcher they have to   *)
(* agree with, weave_doc_matches (src/src/query/match.c).                     *)
(*                                                                           *)
(* A query is the code's array of items in postfix order.  A document is its  *)
(* terms with their positions <<ordinal, label>>, its text and its docvalue.   *)
(* A scan reads one bolt at a time while merges and flushes move the           *)
(* directory under it; what it reads of a directory that moved may be gone.    *)
(***************************************************************************)
EXTENDS WeaveDict, WeavePostings

CONSTANTS
    Starts,        \* the indexes and conditions a scan may start on
    PosBuf,        \* WEAVE_PHRASE_POSBUF: positions a phrase step can hold
    MaxRetries,    \* pg_weave.scan_race_retries
    MaxMoves,      \* bound: the last generation; a start counts up to it
    FoldOf,        \* FoldOf[c]: the byte ASCII folding makes of c
    LowerOf,       \* LowerOf[c]: the byte the locale's lower() makes of c
    HighBytes      \* bytes outside ASCII

VARIABLES
    ix,        \* the index: [bolts, pending, gen]
    want,      \* the condition: [kind, query, pat, ci, keys]
    meta,      \* the directory snapshot the scan reads
    at,        \* the next bolt, or the next docvalue key
    acc,       \* rows collected
    phr,       \* rows of the positional phrase path, kept apart (ptids)
    pbuf,      \* ptids: "null", "live", "freed" or, freed again, "twice"
    pos,       \* use_pos_phrase
    recheck,   \* need_recheck
    gate,      \* rows of the docvalue conditions
    retries,
    phase

vars == <<ix, want, meta, at, acc, phr, pbuf, pos, recheck, gate, retries, phase>>
scanState == <<meta, at, acc, phr, pbuf, pos, recheck, gate, retries, phase>>

UNKNOWN == 0
NoValue == -99
Literal(c) == c >= 0

-----------------------------------------------------------------------------
(* weave_doc_matches: the reference, and the recheck.                          *)

weave_doc_lookup(doc, t) == t \in DOMAIN doc.pos
weave_doc_has_prefix(doc, p) == \E t \in DOMAIN doc.pos : IsPrefix(p, t)
weave_doc_has_regex(doc, p) == DOMAIN doc.pos \cap Pattern[p].matches # {}

(* varstr_levenshtein, uncapped. *)
Distance(a, b) ==
    LET d[i \in 0..Len(a), j \in 0..Len(b)] ==
            IF i = 0 THEN j ELSE IF j = 0 THEN i
            ELSE Min({d[i - 1, j - 1] + (IF a[i] = b[j] THEN 0 ELSE 1),
                      d[i - 1, j] + 1, d[i, j - 1] + 1})
    IN d[Len(a), Len(b)]
weave_doc_has_fuzzy(doc, q, k) == \E t \in DOMAIN doc.pos : Distance(q, t) <= k

Value(present, known, positions, lossy) ==
    [present |-> present, known |-> known, at |-> positions, lossy |-> lossy]

(* Only an exact leaf has positions; a weighted one keeps those in its zones   *)
(* and is absent from a document without positions.                            *)
term_positions(doc, it) ==
    CASE it.kind = "regex"  -> Value(weave_doc_has_regex(doc, it.term), FALSE, {}, FALSE)
      [] it.kind = "fuzzy"  -> Value(weave_doc_has_fuzzy(doc, it.term, it.k), FALSE, {}, FALSE)
      [] it.kind = "prefix" -> Value(weave_doc_has_prefix(doc, it.term), FALSE, {}, TRUE)
      [] it.kind = "exact" ->
           IF ~weave_doc_lookup(doc, it.term) THEN Value(FALSE, FALSE, {}, FALSE)
           ELSE IF it.mask = {} THEN Value(TRUE, doc.haspos, doc.pos[it.term], FALSE)
           ELSE LET zone == {p \in doc.pos[it.term] : p[2] \in it.mask /\ p[1] # UNKNOWN}
                    hit == doc.haspos /\ zone # {}
                IN Value(hit, hit, zone, FALSE)

(* The right positions that follow the nearest left one that is not too far.   *)
weave_phrase_step_pos(left, right, dist, exact) ==
    {p \in right :
       LET near == {l[1] : l \in {l \in left : l[1] # UNKNOWN /\ l[1] + dist >= p[1]}}
       IN /\ p[1] # UNKNOWN /\ near # {}
          /\ IF exact THEN Min(near) + dist = p[1] ELSE Min(near) < p[1]}

phrase_step(l, r, it) ==
    IF l.known /\ r.known
    THEN LET q == weave_phrase_step_pos(l.at, r.at, it.dist, it.exact)
         IN Value(q # {}, TRUE, q, FALSE)
    ELSE LET unknowable == (~l.known /\ ~l.lossy) \/ (~r.known /\ ~r.lossy)
         IN Value(~unknowable /\ l.present /\ r.present, FALSE, {}, FALSE)

Push(stack, v) == Append(stack, v)
Drop(stack, n) == SubSeq(stack, 1, Len(stack) - n)
Bool(b) == Value(b, FALSE, {}, FALSE)
weave_doc_matches(doc, query) ==
    LET step(stack, it) ==
          LET n == Len(stack) IN
          CASE it.op = "val"    -> Push(stack, term_positions(doc, it))
            [] it.op = "not"    -> Push(Drop(stack, 1), Bool(~stack[n].present))
            [] it.op = "phrase" -> Push(Drop(stack, 2), phrase_step(stack[n - 1], stack[n], it))
            [] it.op = "and"    -> Push(Drop(stack, 2), Bool(stack[n - 1].present /\ stack[n].present))
            [] it.op = "or"     -> Push(Drop(stack, 2), Bool(stack[n - 1].present \/ stack[n].present))
    IN FoldLeft(step, <<>>, query)[1].present

-----------------------------------------------------------------------------
(* One bolt.  A posting holds the ordinals of its term, without their labels.  *)
(* Postings name every document of the bolt, tombstoned or not.                *)

Posting(doc, d, t) ==
    LET ords == IF doc.haspos THEN Asc({p[1] : p \in doc.pos[t]}) ELSE <<>>
    IN [doc |-> d, tf |-> Max({Len(ords), 1}), dl |-> Cardinality(DOMAIN doc.pos), at |-> ords]
weave_build_callback(docs, terms, d) ==
    FoldSet(LAMBDA t, ts : add_posting(ts, t, Posting(docs[d], d, t)), terms,
            DOMAIN docs[d].pos)
Built(docs) ==
    weave_write_segment(FoldSet(LAMBDA d, ts : weave_build_callback(docs, ts, d),
                                <<>>, DOMAIN docs), TRUE)

(* A build indexes a recently dead row for the snapshots that see it, but does *)
(* not count it; nor does it count a NULL document.                            *)
CountDocs(docs) == Cardinality({d \in DOMAIN docs : ~docs[d].null /\ ~docs[d].dead})
BoltOf(docs, weft, ndocs, tomb, trgm, cgram) ==
    [docs |-> docs, weft |-> weft, ndocs |-> ndocs, tomb |-> tomb, trgm |-> trgm,
     cgram |-> cgram, doclist |-> TRUE, dict |-> WriteDict(DOMAIN weft.dict)]
MakeBolt(docs, tomb, trgm, cgram) ==
    BoltOf(docs, Built(docs), CountDocs(docs), tomb, trgm, cgram)

(* The documents the metapage counts, now.                                     *)
CountedDocs ==
    Cardinality(DOMAIN ix.pending) +
    FoldSet(LAMBDA s, n : n + ix.bolts[s].ndocs, 0, DOMAIN ix.bolts)
Decoded(b, t) ==
    IF t \in DOMAIN b.weft.dict THEN ToSet(weave_decode_term(b.weft, t, CountedDocs)) ELSE {}
(* The runs of several terms, each sorted, merged through a heap with repeats   *)
(* dropped.                                                                    *)
weave_termruns_merge(runs) == UNION runs
Postings(b, T) == weave_termruns_merge({{e.doc : e \in Decoded(b, t)} : t \in T})
weave_lookup_term(b, t) == IF weave_lookup_term_at(b.dict, t) THEN Postings(b, {t}) ELSE {}

(* The document list without its NULL documents; a bolt without a list has     *)
(* only its postings.                                                          *)
weave_universe_bounded(b) == Postings(b, ToSet(Entries(b.dict)))
weave_universe_seg(b) ==
    IF b.doclist THEN {d \in DOMAIN b.docs : ~b.docs[d].null}
    ELSE weave_universe_bounded(b)

(* Rows still in the bolt, for a set taken from its postings.                  *)
weave_filter_tombstoned_seg(b, S) == S \ b.tomb

(* Negation is carried as a flag; the complement of a set that may be too      *)
(* large would be too small, so it is widened to everything.                   *)
EvalVal(s, neg, inexact) == [set |-> s, neg |-> neg, inexact |-> inexact]
LeafVal(b, it) ==
    EvalVal(IF it.kind = "prefix" THEN Postings(b, weave_lookup_prefix(b.dict, it.term))
            ELSE weave_lookup_term(b, it.term),
            FALSE, it.mask # {})
EvalNot(v) == IF v.inexact THEN EvalVal({}, TRUE, TRUE) ELSE [v EXCEPT !.neg = ~@]
EvalAnd(a, b, inexact) ==
    CASE ~a.neg /\ ~b.neg -> EvalVal(a.set \cap b.set, FALSE, inexact)
      [] ~a.neg /\  b.neg -> EvalVal(a.set \ b.set, FALSE, inexact)
      []  a.neg /\ ~b.neg -> EvalVal(b.set \ a.set, FALSE, inexact)
      []  a.neg /\  b.neg -> EvalVal(a.set \cup b.set, TRUE, inexact)
EvalOr(a, b, inexact) ==
    CASE ~a.neg /\ ~b.neg -> EvalVal(a.set \cup b.set, FALSE, inexact)
      [] ~a.neg /\  b.neg -> EvalVal(b.set \ a.set, TRUE, inexact)
      []  a.neg /\ ~b.neg -> EvalVal(a.set \ b.set, TRUE, inexact)
      []  a.neg /\  b.neg -> EvalVal(a.set \cap b.set, TRUE, inexact)
weave_eval_query(b, query) ==
    LET step(stack, it) ==
          LET n == Len(stack)
              either == stack[n - 1].inexact \/ stack[n].inexact
          IN CASE it.op = "val" -> Push(stack, LeafVal(b, it))
               [] it.op = "not" -> Push(Drop(stack, 1), EvalNot(stack[n]))
               [] it.op = "and" -> Push(Drop(stack, 2), EvalAnd(stack[n - 1], stack[n], either))
               [] it.op = "phrase" -> Push(Drop(stack, 2), EvalAnd(stack[n - 1], stack[n], TRUE))
               [] it.op = "or" -> Push(Drop(stack, 2), EvalOr(stack[n - 1], stack[n], either))
        top == FoldLeft(step, <<>>, query)[1]
    IN IF top.neg THEN weave_universe_seg(b) \ top.set ELSE top.set

Leaves(query) == SelectSeq(query, LAMBDA it : it.op = "val")
Has(query, op) == \E i \in DOMAIN query : query[i].op = op
FuzzyRegex(it) == it.op = "val" /\ it.kind \in {"fuzzy", "regex"}
HasFuzzyRegex(query) == \E i \in DOMAIN query : FuzzyRegex(query[i])
HasWeighted(query) == \E i \in DOMAIN Leaves(query) : Leaves(query)[i].mask # {}

(* A left-nested chain of exact terms: t1 t2 <-> t3 <-> ...                    *)
weave_phrase_chain(query) ==
    /\ Len(query) >= 3
    /\ \A i \in DOMAIN query :
         IF i = 1 \/ i % 2 = 0 THEN query[i].op = "val" /\ query[i].kind = "exact"
         ELSE query[i].op = "phrase"
UsesPositions(query) ==
    /\ Has(query, "phrase") /\ ~Has(query, "not")
    /\ ~HasFuzzyRegex(query) /\ ~HasWeighted(query) /\ weave_phrase_chain(query)

(* weave_lookup_term_pos and weave_phrase_eval_seg: FALSE sends the whole scan *)
(* back to the boolean path.  An absent term settles the bolt at once.         *)
NoPositions(b, t) == \E e \in Decoded(b, t) : e.at = <<>>
PositionsIn(b, t, d) ==
    {<<o, "none">> : o \in UNION {ToSet(e.at) : e \in {e \in Decoded(b, t) : e.doc = d}}}
Steps(query) == SelectSeq(query, LAMBDA it : it.op = "phrase")
PhraseAt(b, query, d, n) ==
    LET L == Leaves(query)
    IN FoldLeft(LAMBDA left, i : weave_phrase_step_pos(left, PositionsIn(b, L[i].term, d),
                                                       Steps(query)[i - 1].dist,
                                                       Steps(query)[i - 1].exact),
                PositionsIn(b, L[1].term, d), [i \in 1..(n - 1) |-> i + 1])
PhraseDocs(b, query) ==
    {d \in DOMAIN b.docs : \A i \in DOMAIN Leaves(query) : d \in Postings(b, {Leaves(query)[i].term})}
PhraseSettled(b, query) ==
    LET L == Leaves(query)
        absent == {i \in DOMAIN L : ~weave_lookup_term_at(b.dict, L[i].term)}
        nopos == {i \in DOMAIN L : NoPositions(b, L[i].term)}
    IN /\ nopos # {} => absent # {} /\ Min(absent) < Min(nopos)
       /\ absent # {} \/ \A d \in PhraseDocs(b, query) : \A i \in DOMAIN L :
            \/ (i > 1 /\ PhraseAt(b, query, d, i - 1) = {})
            \/ Cardinality(PositionsIn(b, L[i].term, d)) <= PosBuf
PhraseRows(b, query) ==
    IF \E i \in DOMAIN Leaves(query) : ~weave_lookup_term_at(b.dict, Leaves(query)[i].term)
    THEN {}
    ELSE {d \in PhraseDocs(b, query) : PhraseAt(b, query, d, Len(Leaves(query))) # {}}

(* Do the fuzzy and regular-expression leaves alone bound the result?          *)
weave_query_fr_covered(query) ==
    LET step(st, it) ==
          LET n == Len(st) IN
          CASE it.op = "val" -> Push(st, FuzzyRegex(it))
            [] it.op = "not" -> Push(Drop(st, 1), FALSE)
            [] it.op = "or"  -> Push(Drop(st, 2), st[n - 1] /\ st[n])
            [] it.op \in {"and", "phrase"} -> Push(Drop(st, 2), st[n - 1] \/ st[n])
    IN FoldLeft(step, <<>>, query)[1]

(* The rows of one fuzzy or regular-expression leaf: by the automaton or the   *)
(* dictionary walk, else by the gram funnel, else not at all.                  *)
LeafExact(it) == it.kind = "regex" \/ AutomatonTakes(it.term)
LeafServed(b, it) == LeafExact(it) \/ (b.trgm /\ FunnelServes(b.dict, it.term, it.k))
LeafTerms(b, it) ==
    IF it.kind = "regex" THEN weave_regex_terms(b.dict, it.term, b.trgm)
    ELSE IF LeafExact(it) THEN weave_fuzzy_terms(b.dict, it.term, it.k)
    ELSE weave_trgm_candidates(b.dict, it.term)
FrLeaves(query) == {Leaves(query)[i] : i \in {i \in DOMAIN Leaves(query) : FuzzyRegex(Leaves(query)[i])}}
FrServed(b, query) ==
    weave_query_fr_covered(query) /\ \A it \in FrLeaves(query) : LeafServed(b, it)
FrRows(b, query) ==
    IF FrServed(b, query) THEN UNION {Postings(b, LeafTerms(b, it)) : it \in FrLeaves(query)}
    ELSE weave_universe_seg(b)
FrExact(b, query) ==
    FrServed(b, query) /\ Len(query) = 1 /\ \A it \in FrLeaves(query) : LeafExact(it)

-----------------------------------------------------------------------------
(* LIKE.  A pattern is a sequence of bytes, ANY ("%") and ONE ("_").           *)

ANY == -1
ONE == -2
weave_cgram_match(text, pat, ci) ==
    LET same(a, b) == a = b \/ (ci /\ LowerOf[a] = LowerOf[b])
        m[i \in 0..Len(text), j \in 0..Len(pat)] ==
            IF j = 0 THEN i = 0
            ELSE IF pat[j] = ANY THEN m[i, j - 1] \/ (i > 0 /\ m[i - 1, j])
            ELSE i > 0 /\ (pat[j] = ONE \/ same(text[i], pat[j])) /\ m[i - 1, j - 1]
    IN m[Len(text), Len(pat)]

Windows(s) == {SubSeq(s, i, i + GramLen - 1) : i \in 1..(Len(s) - GramLen + 1)}
Fold(s) == [i \in DOMAIN s |-> FoldOf[s[i]]]

(* The grams of the literal runs; none for a case-insensitive pattern with a    *)
(* byte that lower() folds and ASCII folding does not.                          *)
weave_cgram_required(pat, ci) ==
    IF ci /\ \E i \in DOMAIN pat : pat[i] \in HighBytes THEN {}
    ELSE {Fold(w) : w \in {w \in Windows(pat) : \A i \in DOMAIN w : Literal(w[i])}}

TextGrams(doc) == IF doc.text = <<>> THEN {} ELSE {Fold(w) : w \in Windows(doc.text)}
HasText(doc) == doc.text # <<>>
CgramPostings(b, g) == {d \in DOMAIN b.docs : g \in TextGrams(b.docs[d])}
CgramRows(b) == {d \in DOMAIN b.docs : \A g \in weave_cgram_required(want.pat, want.ci) :
                                          d \in CgramPostings(b, g)}

(* Docvalues: [op, c] conditions; a document without a value matches none.      *)
weave_dv_match_int8(v, key) ==
    /\ v # NoValue
    /\ CASE key.op = "<"  -> v < key.c  [] key.op = "<=" -> v <= key.c
         [] key.op = "="  -> v = key.c  [] key.op = ">=" -> v >= key.c
         [] key.op = ">"  -> v > key.c
DvRows(docs, key) == {d \in DOMAIN docs : weave_dv_match_int8(docs[d].dv, key)}
DvPending(i, key) == DvRows(i.pending, key)
weave_docvals_collect(i, key) ==
    DvPending(i, key) \cup
    UNION {weave_filter_tombstoned_seg(i.bolts[s], DvRows(i.bolts[s].docs, key)) : s \in DOMAIN i.bolts}

-----------------------------------------------------------------------------
(* The heap: the document of every live row, whichever part of the index holds *)
(* it, recently dead rows left out.  Merges and flushes do not change it.       *)

Indexed(b) == DOMAIN b.docs \ b.tomb
LiveIn(b) == {d \in Indexed(b) : ~b.docs[d].dead}
Live == DOMAIN ix.pending \cup UNION {LiveIn(ix.bolts[s]) : s \in DOMAIN ix.bolts}
Doc(d) == IF d \in DOMAIN ix.pending THEN ix.pending[d]
          ELSE LET s == CHOOSE s \in DOMAIN ix.bolts : d \in LiveIn(ix.bolts[s])
               IN ix.bolts[s].docs[d]

weave_recheck_exact(S) == {d \in S \cap Live : ~Doc(d).null /\ weave_doc_matches(Doc(d), want.query)}
weave_cgram_recheck(S) ==
    {d \in S \cap Live : HasText(Doc(d)) /\ weave_cgram_match(Doc(d).text, want.pat, want.ci)}
weave_cgram_heapscan == weave_cgram_recheck(Live)

-----------------------------------------------------------------------------
(* The scan.                                                                    *)

NoMeta == [bolts |-> <<>>, pending |-> <<>>, gen |-> 0]
EmptyBolt == MakeBolt(<<>>, {}, FALSE, FALSE)

Init ==
    /\ \E s \in Starts : ix = s.ix /\ want = s.want
    /\ meta = NoMeta /\ at = 1 /\ acc = {} /\ phr = {} /\ pbuf = "null"
    /\ pos = FALSE /\ recheck = FALSE /\ retries = 0 /\ gate = {}
    /\ phase = IF want.kind \in {"dv", "both"} THEN "gate" ELSE "start"

Moved == ix.gen # meta.gen
(* A bolt of a directory that has moved is read whole, or its pages are gone.   *)
ReadBolt == IF Moved THEN {meta.bolts[at], EmptyBolt} ELSE {meta.bolts[at]}
InBolts == phase = "bolts" /\ at \in DOMAIN meta.bolts

(* weave_read_meta, and the plan for this query (collect_retry).                *)
ReadMeta ==
    /\ phase = "start" /\ want.kind # "cgram"
    /\ meta' = ix /\ at' = 1 /\ phr' = {}
    /\ acc' = {}
    /\ pos' = UsesPositions(want.query)
    /\ recheck' = HasWeighted(want.query)
    /\ phase' = "bolts"
    /\ UNCHANGED <<ix, want, gate, pbuf, retries>>

Lexical == InBolts /\ want.kind # "cgram"
NextBolt == at' = at + 1 /\ UNCHANGED <<ix, want, gate, meta, retries, phase>>

CollectFuzzyRegex ==
    /\ Lexical /\ HasFuzzyRegex(want.query)
    /\ \E b \in ReadBolt :
         /\ acc' = acc \cup weave_filter_tombstoned_seg(b, FrRows(b, want.query))
         /\ recheck' = (recheck \/ ~FrExact(b, want.query))
    /\ NextBolt /\ UNCHANGED <<phr, pbuf, pos>>

CollectPhrase ==
    /\ Lexical /\ pos
    /\ \E b \in ReadBolt :
         /\ PhraseSettled(b, want.query)
         /\ phr' = phr \cup weave_filter_tombstoned_seg(b, PhraseRows(b, want.query))
    /\ pbuf' = "live"
    /\ NextBolt /\ UNCHANGED <<acc, pos, recheck>>

KeepPtids == IF pbuf = "live" THEN "freed" ELSE pbuf
ForgetPtids == "null"

(* A bolt without positions: forget the bolts read so far and start over on the *)
(* boolean path.                                                                *)
PhraseFallback ==
    /\ Lexical /\ pos
    /\ \E b \in ReadBolt : ~PhraseSettled(b, want.query)
    /\ pos' = FALSE /\ phr' = {} /\ acc' = {} /\ pbuf' = ForgetPtids /\ at' = 1
    /\ UNCHANGED <<ix, want, gate, meta, recheck, retries, phase>>

CollectEval ==
    /\ Lexical /\ ~pos /\ ~HasFuzzyRegex(want.query)
    /\ \E b \in ReadBolt :
         LET rows == weave_filter_tombstoned_seg(b, weave_eval_query(b, want.query))
         IN /\ acc' = acc \cup rows
            /\ recheck' = (recheck \/ (Has(want.query, "phrase") /\ rows # {}))
    /\ NextBolt /\ UNCHANGED <<phr, pbuf, pos>>

(* Fold in the phrase rows, free their buffer, and add the pending documents,   *)
(* which the bolts' tombstones say nothing about.                               *)
CollectPending ==
    /\ phase = "bolts" /\ want.kind # "cgram" /\ at > Len(meta.bolts)
    /\ \E pend \in (IF Moved THEN {meta.pending, <<>>} ELSE {meta.pending}) :
         acc' = acc \cup phr \cup
                {d \in DOMAIN pend : ~pend[d].null /\ weave_doc_matches(pend[d], want.query)}
    /\ pbuf' = IF pbuf = "live" THEN "freed" ELSE pbuf
    /\ phase' = "check"
    /\ UNCHANGED <<ix, want, gate, meta, at, phr, pos, recheck, retries>>

(* weave_getbitmap hands the rows to the bitmap, those of a docvalue gate cut to *)
(* it, and marks them for recheck.                                              *)
Finish ==
    /\ phase = "check" /\ ~Moved
    /\ phase' = "done"
    /\ acc' = IF want.kind = "both" THEN acc \cap gate ELSE acc
    /\ UNCHANGED <<ix, want, gate, meta, at, phr, pbuf, pos, recheck, retries>>

(* A pass that raced is discarded; its phrase buffer, already freed, is freed    *)
(* again, and what the process does from there is undefined.                    *)
Retry ==
    /\ phase = "check" /\ Moved /\ retries < MaxRetries
    /\ retries' = retries + 1
    /\ IF pbuf = "freed" THEN pbuf' = "twice" /\ phase' = "crash"
                         ELSE pbuf' = "null" /\ phase' = "start"
    /\ UNCHANGED <<ix, want, gate, meta, at, acc, phr, pos, recheck>>

weave_scan_raced_out ==
    /\ phase \in {"check", "docvals"} /\ Moved /\ retries = MaxRetries
    /\ phase' = "error"
    /\ UNCHANGED <<ix, want, gate, meta, at, acc, phr, pbuf, pos, recheck, retries>>

(* weave_cgram_collect: the weft serves a pattern that requires some gram, if    *)
(* every bolt has a weft; the heap serves the rest.                             *)
CgramPlan ==
    /\ phase = "start" /\ want.kind = "cgram"
    /\ meta' = ix /\ at' = 1 /\ acc' = {}
    /\ phase' = IF /\ weave_cgram_required(want.pat, want.ci) # {}
                   /\ \A s \in DOMAIN ix.bolts : ix.bolts[s].cgram
                THEN "bolts" ELSE "heap"
    /\ UNCHANGED <<ix, want, gate, phr, pbuf, pos, recheck, retries>>

(* A weft that does not open is an error, raced or not.                          *)
CgramBolt ==
    /\ InBolts /\ want.kind = "cgram"
    /\ \E b \in ReadBolt :
         IF b.cgram THEN acc' = acc \cup weave_filter_tombstoned_seg(b, CgramRows(b)) /\ NextBolt
         ELSE phase' = "error" /\ UNCHANGED <<ix, want, gate, meta, at, acc, retries>>
    /\ UNCHANGED <<phr, pbuf, pos, recheck>>

CgramFinish ==
    /\ phase = "bolts" /\ want.kind = "cgram" /\ at > Len(meta.bolts)
    /\ IF Moved THEN phase' = "heap" /\ acc' = {}
       ELSE phase' = "done" /\ acc' = weave_cgram_recheck(acc \cup DOMAIN meta.pending)
    /\ UNCHANGED <<ix, want, gate, meta, at, phr, pbuf, pos, recheck, retries>>

CgramHeap ==
    /\ phase = "heap" /\ acc' = weave_cgram_heapscan /\ phase' = "done"
    /\ UNCHANGED <<ix, want, gate, meta, at, phr, pbuf, pos, recheck, retries>>

(* weave_docvals_gate: the conditions are collected one after another, each over *)
(* the directory of that moment and again if it moves, and intersected.         *)
GateKey ==
    /\ phase = "gate" /\ at \in DOMAIN want.keys
    /\ meta' = ix /\ retries' = 0 /\ phase' = "docvals"
    /\ UNCHANGED <<ix, want, at, acc, phr, pbuf, pos, recheck, gate>>

GateRetry ==
    /\ phase = "docvals" /\ Moved /\ retries < MaxRetries
    /\ meta' = ix /\ retries' = retries + 1
    /\ UNCHANGED <<ix, want, at, acc, phr, pbuf, pos, recheck, gate, phase>>

GateIntersect ==
    /\ phase = "docvals" /\ ~Moved
    /\ LET one == weave_docvals_collect(meta, want.keys[at])
       IN gate' = IF at = 1 THEN one ELSE gate \cap one
    /\ at' = IF at > 1 /\ gate' = {} THEN Len(want.keys) + 1 ELSE at + 1
    /\ retries' = 0 /\ phase' = "gate"
    /\ UNCHANGED <<ix, want, meta, acc, phr, pbuf, pos, recheck>>

GateDone ==
    /\ phase = "gate" /\ at > Len(want.keys)
    /\ IF want.kind = "both" THEN phase' = "start" /\ acc' = acc
                              ELSE phase' = "done" /\ acc' = gate
    /\ UNCHANGED <<ix, want, gate, meta, at, phr, pbuf, pos, recheck, retries>>

-----------------------------------------------------------------------------
(* The index moves.                                                             *)

Survivors(b) == [d \in Indexed(b) |-> b.docs[d]]
FoldDocs(fs) == FoldFunction(LAMBDA f, g : f @@ g, <<>>, fs)

Merge ==
    /\ ix.gen < MaxMoves /\ Len(ix.bolts) > 1
    /\ LET docs == FoldDocs([s \in DOMAIN ix.bolts |-> Survivors(ix.bolts[s])])
           weft == weave_merge_segments_streaming(ix.bolts, TRUE, CountedDocs)
           ndocs == FoldSet(LAMBDA s, n : n + ix.bolts[s].ndocs - Cardinality(ix.bolts[s].tomb),
                            0, DOMAIN ix.bolts)
           every(P(_)) == \A s \in DOMAIN ix.bolts : P(ix.bolts[s])
       IN ix' = [ix EXCEPT !.gen = @ + 1,
                           !.bolts = <<BoltOf(docs, weft, ndocs, {}, every(LAMBDA b : b.trgm),
                                              every(LAMBDA b : b.cgram))>>]
    /\ UNCHANGED <<want, scanState>>

Flush ==
    /\ ix.gen < MaxMoves /\ ix.pending # <<>>
    /\ ix' = [ix EXCEPT !.gen = @ + 1, !.pending = <<>>,
                        !.bolts = Append(@, MakeBolt(ix.pending, {}, TRUE, TRUE))]
    /\ UNCHANGED <<want, scanState>>

Ended == phase \in {"done", "error", "crash"}
ScanStep ==
    \/ ReadMeta \/ CollectFuzzyRegex \/ CollectPhrase \/ PhraseFallback \/ CollectEval
    \/ CollectPending \/ Finish \/ Retry \/ weave_scan_raced_out
    \/ CgramPlan \/ CgramBolt \/ CgramFinish \/ CgramHeap
    \/ GateKey \/ GateRetry \/ GateIntersect \/ GateDone
Next == ~Ended /\ (ScanStep \/ Merge \/ Flush)
Spec == Init /\ [][Next]_vars

-----------------------------------------------------------------------------
(* What a scan has to return, from the documents alone.                          *)
Matching ==
    {d \in Live :
       /\ want.kind \in {"lex", "both"} => ~Doc(d).null /\ weave_doc_matches(Doc(d), want.query)
       /\ want.kind = "cgram" => HasText(Doc(d)) /\ weave_cgram_match(Doc(d).text, want.pat, want.ci)
       /\ want.kind \in {"dv", "both"} => \A i \in DOMAIN want.keys : weave_dv_match_int8(Doc(d).dv, want.keys[i])}
Returned == IF recheck THEN weave_recheck_exact(acc) ELSE acc \cap Live

(* A scan that completes returns exactly the live rows whose document matches:   *)
(* by dictionary walk, automaton, gram funnel, positions, boolean sets or heap,  *)
(* with or without a recheck, over any mix of bolts, and whatever merged or was   *)
(* flushed while it ran (weave_getbitmap against weave_doc_matches).  It fails to  *)
(* complete, but for the error of its last retry, only where a raced pass has      *)
(* read all bolts by positions: that pass releases ptids twice                     *)
(* (weave_collect_matches); one that went back to the boolean path does not.       *)
QueryExact ==
    /\ phase = "done" => Returned = Matching
    /\ phase = "crash" => pos
=============================================================================
