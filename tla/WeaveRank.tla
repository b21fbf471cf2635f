----------------------------- MODULE WeaveRank -----------------------------
(***************************************************************************)
(* The ordered index scan of src/src/am/amscan.c: weave_gettuple() with an  *)
(* ORDER BY operator, and weave_topk_visible() behind weave_search().       *)
(*                                                                          *)
(* The scan is a ladder.  A pass reads the best `width` candidates of the   *)
(* bolts and the pending list, a probe keeps the ones the snapshot sees,    *)
(* gettuple hands them out, and when they run out a wider pass is made,     *)
(* until a pass proves that it has seen everything.  Rows that have no      *)
(* place in the ranking follow as padding, rows whose ordering column is    *)
(* NULL come last.  Between two steps of the scan other sessions insert,    *)
(* flush, merge and vacuum.                                                 *)
(*                                                                          *)
(* A pass is one step: each runs inside the generation bracket WeaveScan    *)
(* checks.  The candidates of a pass are the exact top of what it reads,    *)
(* which is WeaveTopK's subject; the distance of a row is a datum.          *)
(***************************************************************************)
EXTENDS Integers, Sequences, FiniteSets, FiniteSetsExt, SequencesExt

CONSTANTS
    Starts,       \* [rows, place, want]: the heap, the index and the scan's keys
    InitialK,     \* pg_weave.wand_initial_k
    WidthFloor,   \* the narrowest pass (64 in the code)
    Factor,       \* how much wider the next pass is (4 in the code)
    WidthMax,     \* WEAVE_ORD_WIDTH_MAX
    ProbeMin,     \* the smallest probe batch (16 in the code)
    SearchCap,    \* the widest pass of weave_search() (at least 4096 in the code)
    INF,          \* the distance of padding, past every ranked one
    MaxMoves,     \* bound: steps of other sessions during a scan
    MaxRescans    \* bound: rescans

ASSUME RankBounds ==
    /\ InitialK \in Nat \ {0} /\ WidthFloor \in Nat \ {0} /\ Factor \in Nat \ {0, 1}
    /\ WidthMax \in Nat \ {0} /\ ProbeMin \in Nat \ {0} /\ SearchCap \in Nat \ {0}
    /\ INF \in Nat \ {0} /\ MaxMoves \in Nat /\ MaxRescans \in Nat

VARIABLES
    rows,     \* the heap: rows[r] of the root line pointer r
    place,    \* place[r]: OUT of the index, PENDING, or the number of a bolt
    dead,     \* the rows tombstoned in their bolt
    want,     \* the scan's keys
    so,       \* the scan's state, WeaveScanOpaque
    out,      \* Seq of [row, dist]: what the executor has kept
    moves, rescans

indexVars == <<place, dead>>
vars == <<rows, place, dead, want, so, out, moves, rescans>>

Row == DOMAIN rows
NULLDIST == INF + 1     \* NULLS LAST
NoThreshold == INF + 9  \* INT_MAX
NoGate == {-1}          \* no set of rows
PENDING == 0
OUT == -1

-----------------------------------------------------------------------------
(* The index.                                                                *)

Bolts == {place[r] : r \in Row} \ {OUT, PENDING}
InBolt(b) == {r \in Row : place[r] = b /\ r \notin dead}
Flushed == {r \in Row : place[r] \in Bolts /\ r \notin dead}
Pending == {r \in Row : place[r] = PENDING}
Live == Flushed \cup Pending
ndocs == Cardinality({r \in Live : ~rows[r].nulldoc})
N == Max({1, ndocs})

(* The ordering query: a literal, two literals under an operator, a negation *)
(* or a literal and a prefix.                                                *)
Match(q, t) ==
    CASE q = "term" -> 1 \in t
      [] q = "or" -> t # {}
      [] q = "and" -> t = {1, 2}
      [] q = "andnot" -> t = {1}
      [] q = "ornot" -> 1 \in t \/ 2 \notin t
      [] q = "wild" -> t # {}
weave_query_terms(q) == IF q \in {"term", "wild"} THEN {1} ELSE {1, 2}
weave_query_lit_covered(q) == q \notin {"ornot", "wild"}

df(t) == Cardinality({r \in Row : place[r] \in Bolts /\ t \in rows[r].terms})
DictHits(q) ==
    CASE q = "term" -> df(1)
      [] q = "or" -> df(1) + df(2)
      [] q = "and" -> Min({df(1), df(2)})
      [] q = "andnot" -> Min({df(1), N})
      [] OTHER -> df(1) + N
DictionaryOnly(q) == Min({N, DictHits(q)})
weave_query_maxhits(q) == Min({N, Cardinality(Pending) + DictHits(q)})

-----------------------------------------------------------------------------
(* The keys of the scan, as weave_rescan() sorts them out.  A LIKE key takes *)
(* the place of a lexical one, which then is only rechecked.                 *)

HasLex(w) == w.lex # "no" /\ ~w.cgram
NoKeys(w) == w.lex = "no" /\ ~w.dv /\ ~w.cgram
unhonoured(w) == w.cgram
ordSameQuery(w) == w.kind = "lex" /\ w.lex = "same" /\ ~w.dv /\ ~w.cgram
ordQueryRestricts(w) == w.kind = "lex" /\ w.lex = "same" /\ ~w.cgram
weave_query_has_not(w) == w.not

LexWhere(r) == ~rows[r].nulldoc /\ IF want.lex = "same" THEN Match(want.q, rows[r].terms)
                                   ELSE rows[r].lex
Where(r) == /\ want.lex # "no" => LexWhere(r)
            /\ want.dv \/ want.cgram => rows[r].other

(* What a scan may be given.  The index lists every row its predicate admits *)
(* -- before version 12 all but the NULL documents -- and a row that appears *)
(* later is invisible to the snapshot.  The search functions have no WHERE.  *)
RowType ==
    [terms : SUBSET {1, 2}, dist : 0..(INF - 1), words : SUBSET (0..(INF - 1)),
     nulldoc : BOOLEAN, vec : BOOLEAN, lex : BOOLEAN, other : BOOLEAN, vis : BOOLEAN,
     hot : BOOLEAN, pred : BOOLEAN, late : BOOLEAN]
KeysType(again) ==
    [kind : {"lex", "vec", "edist", "fuse", "search"}, again : {again},
     q : {"term", "or", "and", "andnot", "ornot", "wild"},
     chan : {"none", "lexlex", "lexvec", "vecvec"}, lex : {"no", "same", "other"},
     not : BOOLEAN, dv : BOOLEAN, cgram : BOOLEAN, lossy : BOOLEAN, v12 : BOOLEAN,
     hint : Nat, k : Nat, slack : Nat]
Rescanned(w, keys) == [keys EXCEPT !.again = w.again, !.v12 = w.v12]
KeysFit(w) ==
    /\ w \in KeysType(w.again)
    /\ w.kind = "search" \/ w.k > 0 => NoKeys(w)
    /\ w.kind = "search" => w.k > 0
    /\ w.kind \notin {"search", "fuse"} => w.k = 0
    /\ w.kind = "fuse" => w.chan # "none"
Lists(p, rs, v12) ==
    \A r \in DOMAIN rs :
        /\ rs[r].late => ~rs[r].vis
        /\ rs[r].vis => IF p[r] # OUT THEN rs[r].pred
                        ELSE rs[r].pred => rs[r].nulldoc /\ ~v12
ASSUME RankStarts ==
    \A start \in Starts :
        /\ start.rows \in Seq(RowType)
        /\ start.place \in [DOMAIN start.rows -> Nat \cup {OUT}]
        /\ Lists(start.place, start.rows, start.want.v12)
        /\ KeysFit(start.want)
        /\ \A w \in start.want.again : KeysFit(Rescanned(start.want, w))

HasLexChan == want.chan \in {"lexlex", "lexvec"}
weave_fuse_has_vec == want.chan \in {"lexvec", "vecvec"}

(* The rows a kind of scan ranks, and the ones whose ordering is NULL.       *)
Ranks(r) ==
    CASE want.kind \in {"lex", "search"} ->
           ~rows[r].nulldoc /\ Match(want.q, rows[r].terms)
           /\ rows[r].terms \cap weave_query_terms(want.q) # {}
      [] want.kind = "vec" -> rows[r].vec
      [] want.kind = "edist" -> ~rows[r].nulldoc /\ rows[r].words # {}
      [] want.kind = "fuse" ->
           IF weave_fuse_has_vec THEN rows[r].vec /\ (HasLexChan => ~rows[r].nulldoc)
           ELSE ~rows[r].nulldoc /\ rows[r].terms # {}
KeyNull(r) ==
    CASE want.kind \in {"lex", "edist", "search"} -> rows[r].nulldoc
      [] want.kind = "vec" -> ~rows[r].vec
      [] want.kind = "fuse" -> \/ HasLexChan /\ rows[r].nulldoc
                               \/ weave_fuse_has_vec /\ ~rows[r].vec
Dist(r) == IF want.kind = "edist" THEN Min(rows[r].words) ELSE rows[r].dist

Sorted(S, key(_)) ==
    LET before(x, y) == key(x) < key(y) \/ (key(x) = key(y) /\ x < y)
    IN [i \in 1..Cardinality(S) |->
          CHOOSE x \in S : Cardinality({y \in S : before(y, x)}) = i - 1]
Best(S, n) == LET s == Sorted(S, Dist) IN SubSeq(s, 1, Min({n, Len(s)}))
Asc(S) == Sorted(S, LAMBDA x : x)
Pick(s, P) == LET p == Asc(P) IN [k \in DOMAIN p |-> s[p[k]]]

-----------------------------------------------------------------------------
(* The scan.  cand is the last pass, ordered the visible rows probed so far, *)
(* plain the set the WHERE clause gates by.                                  *)

FreshScan ==
    [phase |-> "start", ordered |-> <<>>, ordpos |-> 0, cand |-> <<>>, candpos |-> 0,
     candfull |-> FALSE, width |-> 0, maxhits |-> 0, lanes |-> 0, thr |-> 0,
     next |-> NoThreshold, plain |-> NoGate, plainRecheck |-> FALSE, gateLex |-> FALSE,
     pad |-> <<>>, walk |-> "none", seen |-> {}, nulls |-> <<>>, capped |-> FALSE,
     short |-> FALSE]

weave_ord_width(k) ==
    IF k > WidthMax \div Factor THEN WidthMax ELSE Max({k * Factor, WidthFloor})
weave_ord_first_width(hint) ==
    IF hint > 0 THEN Min({weave_ord_width(hint), weave_ord_width(InitialK)})
    ELSE weave_ord_width(InitialK)
Wider(w) == IF w > WidthMax \div Factor THEN WidthMax ELSE w * Factor
Unseen(s, cand) == Pick(cand, {i \in DOMAIN cand : cand[i] \notin ToSet(s.ordered)})
NewCand(s, cand) == [s EXCEPT !.cand = Unseen(s, cand), !.candpos = 0]

(* The set of rows a lexical key selects, as the plain scan computes it: a   *)
(* superset when it needs a recheck, without the empty documents of a bolt   *)
(* that has no document list when the query holds a NOT.                     *)
weave_collect_matches ==
    {r \in Live : /\ ~rows[r].nulldoc
                  /\ want.lossy \/ LexWhere(r)
                  /\ weave_query_has_not(want) /\ ~want.v12 => rows[r].words # {}}
weave_docvals_gate == {r \in Live : rows[r].other}

(* lexical *)
weave_topk_candidates_range(wantk) == Best({r \in Flushed : Ranks(r)}, wantk)
weave_pending_ranked == {r \in Pending : Ranks(r)}
weave_topk_merge_pending(cand, pend, wantk) == Best(ToSet(cand) \cup pend, wantk)
weave_topk_candidates_guarded(wantk) ==
    weave_topk_merge_pending(weave_topk_candidates_range(wantk), weave_pending_ranked, wantk)
weave_ord_pass(s) ==
    LET width == IF s.width = WidthMax THEN s.width + 1 ELSE s.width
        cand == weave_topk_candidates_guarded(width)
        full == Len(cand) >= width
    IN [NewCand(s, IF full THEN SubSeq(cand, 1, s.width) ELSE cand) EXCEPT !.candfull = full]

(* vector: a bolt has a lane per document, whatever became of it.            *)
weave_vec_topk_guarded(k) == Best({r \in Flushed : Ranks(r)}, k)
nlane == Cardinality({r \in Row : place[r] \in Bolts})
weave_vec_collect_pending == {r \in Pending : Ranks(r)}
NoFrontier(s) ==
    LET hits == weave_vec_topk_guarded(s.width)
        vecDone == Len(hits) < s.width \/ s.width >= nlane
    IN [NewCand(s, Best(ToSet(hits) \cup weave_vec_collect_pending, Cardinality(Row)))
          EXCEPT !.lanes = nlane, !.candfull = ~vecDone]
weave_vec_pass(s) ==
    LET hits == weave_vec_topk_guarded(s.width)
        vecDone == Len(hits) < s.width \/ s.width >= nlane
        pend == {r \in weave_vec_collect_pending :
                   ~vecDone /\ hits # <<>> => Dist(r) <= Dist(Last(hits))}
    IN [NewCand(s, Best(ToSet(hits) \cup pend, Cardinality(Row)))
          EXCEPT !.lanes = nlane, !.candfull = ~vecDone]

(* edit distance: the words of a bolt lie in dictionary pages, here one for  *)
(* each distance, whose bound may be loose; a page past the threshold is     *)
(* skipped, and the bounded distance of a word past it is only thr + 1.      *)
weave_edist_block_lower(d) == Max({0, d - want.slack})
weave_edist_shuttle_dist_le(d, thr) == IF d <= thr THEN d ELSE thr + 1
edist_shuttle_words == UNION {rows[r].words : r \in {x \in Row : place[x] \in Bolts}}
edist_collect_term(d) == {r \in Flushed : ~rows[r].nulldoc /\ d \in rows[r].words}
edist_collect_pending(thr) == {r \in Pending : Ranks(r) /\ Dist(r) <= thr}
EdistHits(thr) ==
    (UNION {edist_collect_term(d) : d \in {x \in edist_shuttle_words :
              weave_edist_block_lower(x) <= thr /\ weave_edist_shuttle_dist_le(x, thr) <= thr}})
    \cup edist_collect_pending(thr)
EdistNext(thr) ==
    LET read == {d \in edist_shuttle_words : weave_edist_block_lower(d) <= thr}
        pages == {weave_edist_block_lower(d) : d \in edist_shuttle_words \ read}
        words == {weave_edist_shuttle_dist_le(d, thr) : d \in {x \in read : x > thr}}
        pend == {d \in {Dist(r) : r \in {x \in Pending : Ranks(x)}} : d > thr}
    IN Min({NoThreshold} \cup pages \cup words \cup pend)
Gated(s, r) == s.plain # NoGate => r \in s.plain
EdistGate(s) ==
    IF s.plain # NoGate \/ ~HasLex(want) THEN s
    ELSE [s EXCEPT !.plain = weave_collect_matches, !.plainRecheck = want.lossy,
                   !.gateLex = ~weave_query_has_not(want)]
weave_edist_pass(s0) ==
    LET s == EdistGate(s0)
        hits == {r \in EdistHits(s.thr) : Gated(s, r)}
    IN [NewCand(s, Best(hits, Cardinality(Row))) EXCEPT !.next = EdistNext(s.thr),
                                                          !.candfull = EdistNext(s.thr) # NoThreshold]

(* fused: a heap for each bolt, cut to the width only when one was full.  A  *)
(* lexical key takes part by its terms, whatever its operators are.          *)
FuseGate(s) ==
    IF s.plain # NoGate \/ (~HasLex(want) /\ ~want.dv) THEN s
    ELSE LET gate == IF ~HasLex(want) THEN weave_docvals_gate
                     ELSE IF want.dv THEN weave_collect_matches \cap weave_docvals_gate
                     ELSE weave_collect_matches
         IN [s EXCEPT !.plain = gate, !.plainRecheck = HasLex(want) /\ want.lossy,
                      !.gateLex = HasLex(want) /\ ~weave_query_has_not(want)]
weave_fuse_vec_warpmap(b) == {r \in InBolt(b) : HasLexChan => ~rows[r].nulldoc}
fuse_vec_lanes(b) == {r \in weave_fuse_vec_warpmap(b) : rows[r].vec}
fuse_lex_docs(b) == {r \in InBolt(b) : ~rows[r].nulldoc /\ rows[r].terms # {}}
weave_fuse_bolt(s, b, width) ==
    LET docs == IF weave_fuse_has_vec THEN fuse_vec_lanes(b) ELSE fuse_lex_docs(b)
    IN Best({r \in docs : Gated(s, r)}, width)
weave_fuse_collect_pending(s) == {r \in Pending : Ranks(r) /\ Gated(s, r)}
weave_fuse_pass(s0) ==
    LET s == FuseGate(s0)
        width == IF s.width = WidthMax THEN s.width + 1 ELSE s.width
        hits == [b \in Bolts |-> weave_fuse_bolt(s, b, width)]
        complete == \A b \in Bolts : Len(hits[b]) < width
        all == Best(UNION {ToSet(hits[b]) : b \in Bolts}, Cardinality(Row))
        acc == IF complete THEN all ELSE SubSeq(all, 1, Min({Len(all), s.width}))
        last == complete \/ s.width >= s.maxhits \/ acc = <<>>
        pend == {r \in weave_fuse_collect_pending(s) : last \/ Dist(r) <= Dist(Last(acc))}
    IN IF s.plain = {} THEN [s EXCEPT !.cand = <<>>, !.candpos = 0, !.candfull = FALSE]
       ELSE [NewCand(s, Best(ToSet(acc) \cup pend, Cardinality(Row))) EXCEPT !.candfull = ~complete]

FuseMaxHits ==
    CASE want.chan = "lexlex" -> weave_query_maxhits(want.q) + Min({N, df(2) + Cardinality(Pending)})
      [] want.chan = "lexvec" -> weave_query_maxhits(want.q) + N
      [] want.chan = "vecvec" -> N + N

(* What a pass could rank.  short is history: it says that the scan's pass was *)
(* cut off while more rows could rank than maxhits, computed once, allows for.  *)
Found == {r \in Live : Ranks(r)}
Short(s) == want.kind \in {"lex", "fuse"} /\ s.candfull /\ Cardinality(Found) > s.maxhits
OnePass(s) ==
    CASE want.kind = "lex" -> weave_ord_pass(s)
      [] want.kind = "vec" -> weave_vec_pass(s)
      [] want.kind = "edist" -> weave_edist_pass(s)
      [] want.kind = "fuse" -> weave_fuse_pass(s)
Pass(s) == LET t == OnePass(s) IN [t EXCEPT !.short = Short(t)]

-----------------------------------------------------------------------------
(* weave_gettuple().                                                         *)

Init ==
    /\ \E start \in Starts :
         /\ rows = start.rows /\ place = start.place /\ want = start.want
    /\ dead = {} /\ so = FreshScan /\ out = <<>> /\ moves = 0 /\ rescans = 0

(* weave_fuse_search() reads a fused scan up to k rows and no further than the *)
(* first row the ranking did not reach; any other reader takes every row.      *)
Satisfied == /\ want.kind = "fuse" /\ want.k > 0 /\ out # <<>>
             /\ Len(out) = want.k \/ Last(out).dist >= INF
Scan(s) == ~Satisfied /\ so' = s /\ UNCHANGED <<rows, indexVars, want, moves, rescans>>

FirstWidth ==
    CASE want.kind = "lex" -> weave_ord_first_width(want.hint)
      [] want.kind = "fuse" -> weave_ord_first_width(IF HasLexChan THEN want.hint ELSE 0)
      [] OTHER -> weave_ord_width(InitialK)
OrderInit ==
    /\ so.phase = "start" /\ want.kind # "search"
    /\ Scan(Pass([so EXCEPT !.phase = "ranked", !.width = FirstWidth,
                            !.maxhits = CASE want.kind = "lex" -> weave_query_maxhits(want.q)
                                          [] want.kind = "fuse" -> FuseMaxHits
                                          [] OTHER -> 0]))
    /\ UNCHANGED out

Exhausted == so.phase = "ranked" /\ so.ordpos >= Len(so.ordered)

(* A probe keeps visible candidates until it has a batch of them.            *)
BatchSize == Max({2 * Len(so.ordered), ProbeMin, so.ordpos + 1})
weave_ord_probe ==
    /\ Exhausted /\ so.candpos < Len(so.cand)
    /\ LET room == BatchSize - Len(so.ordered)
           VisibleTo(n) == {i \in (so.candpos + 1)..n : rows[so.cand[i]].vis}
           stop == Min({Len(so.cand)} \cup
                       {n \in (so.candpos + 1)..Len(so.cand) : Cardinality(VisibleTo(n)) >= room})
       IN Scan([so EXCEPT !.ordered = @ \o Pick(so.cand, VisibleTo(stop)), !.candpos = stop])
    /\ UNCHANGED out

Recheck(s) ==
    /\ ~NoKeys(want)
    /\ CASE want.kind = "fuse" -> s.plainRecheck \/ unhonoured(want)
         [] want.kind = "edist" -> (HasLex(want) /\ ~want.dv => s.plainRecheck)
         [] OTHER -> ~ordSameQuery(want)
Give(r, d, recheck) ==
    out' = IF recheck /\ ~Where(r) THEN out ELSE Append(out, [row |-> r, dist |-> d])

weave_gettuple ==
    /\ so.phase = "ranked" /\ so.ordpos < Len(so.ordered)
    /\ LET r == so.ordered[so.ordpos + 1] IN Give(r, Dist(r), Recheck(so))
    /\ Scan([so EXCEPT !.ordpos = @ + 1])

(* Whether the ladder may stop, and the next rung when it may not.           *)
weave_ord_grow(s) == [s EXCEPT !.width = Wider(@)]
weave_fuse_grow(s) == [s EXCEPT !.width = Wider(@)]
weave_vec_grow(s) == [s EXCEPT !.width = Min({Wider(@)} \cup {n \in {s.lanes} : n > 0})]
weave_edist_grow(s) == [s EXCEPT !.thr = s.next]
GrowProves(s) ==
    \/ ~s.candfull
    \/ want.kind \in {"lex", "fuse"} /\ s.width >= s.maxhits
AtLimit == want.kind # "edist" /\ so.width >= WidthMax
OutOfCandidates == Exhausted /\ so.candpos >= Len(so.cand)

Grow ==
    /\ OutOfCandidates /\ ~GrowProves(so) /\ ~AtLimit
    /\ Scan(Pass(CASE want.kind = "lex" -> weave_ord_grow(so)
                   [] want.kind = "fuse" -> weave_fuse_grow(so)
                   [] want.kind = "vec" -> weave_vec_grow(so)
                   [] want.kind = "edist" -> weave_edist_grow(so)))
    /\ UNCHANGED out

(* The limit is an ERROR, never the end of the ranking.                      *)
GrowError ==
    /\ OutOfCandidates /\ ~GrowProves(so) /\ AtLimit
    /\ Scan([so EXCEPT !.phase = "error"])
    /\ UNCHANGED out

-----------------------------------------------------------------------------
(* Padding.                                                                  *)

weave_pad_wanted ==
    \/ want.kind = "fuse"
    \/ ~ordSameQuery(want) /\ ~ordQueryRestricts(want)
    \/ ~weave_query_lit_covered(want.q)
weave_index_v12_complete == want.v12

(* A heap-only tuple has a line pointer of its own; the index knows only the *)
(* root of its chain.                                                        *)
HotBase == Len(rows)
TupleTid(r) == IF rows[r].hot THEN HotBase + r ELSE r
padRoots(t) == IF t > HotBase THEN t - HotBase ELSE t
Heap == {r \in Row : rows[r].vis}

(* The set the padding walks: the heap, or what the WHERE clause selects     *)
(* when the index lists every row.  A gate computed for a pass is reused.    *)
PadGate(s) ==
    LET wq == want.kind \in {"vec", "lex"} /\ HasLex(want)
    IN IF s.plain # NoGate
       THEN [s EXCEPT !.gateLex = @ \/ weave_index_v12_complete]
       ELSE IF (wq \/ want.dv)
               /\ ((wq /\ ~weave_query_has_not(want)) \/ weave_index_v12_complete)
            THEN [s EXCEPT !.plain = IF wq THEN weave_collect_matches ELSE weave_docvals_gate,
                           !.gateLex = TRUE]
            ELSE s
weave_pad_begin(s0) ==
    LET s == [s0 EXCEPT !.phase = "pad", !.seen = ToSet(s0.ordered)]
        g == PadGate(s)
    IN IF want.kind = "lex" /\ ordQueryRestricts(want) /\ ~weave_query_lit_covered(want.q)
       THEN [s EXCEPT !.walk = "match", !.pad = Asc(Row)]
       ELSE IF g.plain # NoGate /\ g.gateLex
            THEN [g EXCEPT !.walk = "gate", !.pad = Asc(g.plain)]
            ELSE [g EXCEPT !.walk = "heap", !.pad = Asc({TupleTid(r) : r \in Heap})]

PadBegin ==
    /\ OutOfCandidates /\ GrowProves(so)
    /\ Scan(IF weave_pad_wanted THEN weave_pad_begin(so) ELSE [so EXCEPT !.phase = "done"])
    /\ UNCHANGED out

(* The next row the padding visits.                                          *)
weave_pad_walk_next(r) == rows[r].pred /\ ~rows[r].nulldoc /\ Match(want.q, rows[r].terms)
weave_pad_emit(r, nulldist) == Give(r, IF nulldist THEN NULLDIST ELSE INF, ~NoKeys(want))
weave_pad_gettuple ==
    /\ so.phase = "pad" /\ so.pad # <<>>
    /\ LET r == IF so.walk = "heap" THEN padRoots(Head(so.pad)) ELSE Head(so.pad)
           rest == [so EXCEPT !.pad = Tail(@)]
           keep == IF r \notin Row THEN FALSE ELSE rows[r].vis /\ rows[r].pred
       IN \/ /\ so.walk = "match"
             /\ IF r \notin so.seen /\ rows[r].vis /\ weave_pad_walk_next(r)
                THEN weave_pad_emit(r, FALSE) ELSE UNCHANGED out
             /\ Scan(rest)
          \/ /\ so.walk # "match"
             /\ CASE ~keep -> UNCHANGED out /\ Scan(rest)
                  [] keep /\ KeyNull(r) -> UNCHANGED out /\ Scan([rest EXCEPT !.nulls = Append(@, r)])
                  [] keep /\ ~KeyNull(r) /\ r \in so.seen -> UNCHANGED out /\ Scan(rest)
                  [] OTHER -> weave_pad_emit(r, FALSE) /\ Scan(rest)
PadNulls ==
    /\ so.phase = "pad" /\ so.pad = <<>> /\ so.nulls # <<>>
    /\ weave_pad_emit(Head(so.nulls), TRUE)
    /\ Scan([so EXCEPT !.nulls = Tail(@)])
PadEnd ==
    /\ so.phase = "pad" /\ so.pad = <<>> /\ so.nulls = <<>>
    /\ Scan([so EXCEPT !.phase = "done"])
    /\ UNCHANGED out

weave_fuse_search ==
    /\ Satisfied /\ so.phase \in {"ranked", "pad"}
    /\ out' = IF Last(out).dist >= INF THEN Front(out) ELSE out
    /\ so' = [so EXCEPT !.phase = "done"]
    /\ UNCHANGED <<rows, indexVars, want, moves, rescans>>

-----------------------------------------------------------------------------
(* weave_topk_visible(): the k best visible rows, each pass from the start.  *)

weave_topk_pad(res) ==
    LET rest == Asc({r \in Row \ ToSet(res) : rows[r].vis /\ weave_pad_walk_next(r)})
    IN SubSeq(rest, 1, Min({want.k - Len(res), Len(rest)}))
SearchWidth == Max({want.k * Factor, WidthFloor})
weave_topk_visible ==
    /\ so.phase \in {"start", "search"} /\ want.kind = "search"
    /\ LET wantk == IF so.phase = "start" THEN SearchWidth ELSE so.width
           cand == weave_topk_candidates_guarded(wantk)
           vis == Pick(cand, {i \in DOMAIN cand : rows[cand[i]].vis})
           res == SubSeq(vis, 1, Min({want.k, Len(vis)}))
           stop == Len(res) >= want.k \/ Len(cand) < wantk \/ wantk >= SearchCap
           padded == IF Len(res) < want.k /\ Len(cand) < wantk /\ ~weave_query_lit_covered(want.q)
                     THEN weave_topk_pad(res) ELSE <<>>
       IN IF stop
          THEN /\ out' = [i \in DOMAIN res |-> [row |-> res[i], dist |-> Dist(res[i])]]
                         \o [i \in DOMAIN padded |-> [row |-> padded[i], dist |-> INF]]
               /\ Scan([so EXCEPT !.phase = "done", !.capped = Len(res) < want.k /\ Len(cand) >= wantk])
          ELSE /\ Scan([so EXCEPT !.phase = "search", !.width = Min({wantk * 2, SearchCap})])
               /\ UNCHANGED out

-----------------------------------------------------------------------------
(* A rescan starts again with other keys, and everything the old ones left   *)
(* behind is dropped.                                                        *)
KeepGate == [FreshScan EXCEPT !.plain = so.plain, !.gateLex = so.gateLex]
ForgetScan == FreshScan
weave_rescan ==
    /\ rescans < MaxRescans /\ so.phase \in {"ranked", "pad", "done"}
    /\ \E w \in want.again : want' = Rescanned(want, w)
    /\ so' = ForgetScan /\ out' = <<>> /\ rescans' = rescans + 1
    /\ UNCHANGED <<rows, indexVars, moves>>

(* What other sessions do meanwhile.                                         *)
NewBolt == Max({PENDING} \cup Bolts) + 1
Move == /\ moves < MaxMoves /\ so.phase \notin {"start", "done", "error"}
        /\ moves' = moves + 1
        /\ UNCHANGED <<rows, want, so, out, rescans>>
Insert(r) ==
    /\ place[r] = OUT /\ rows[r].pred /\ rows[r].late
    /\ place' = [place EXCEPT ![r] = PENDING]
    /\ UNCHANGED dead /\ Move
Flush ==
    /\ Pending # {}
    /\ place' = [r \in Row |-> IF r \in Pending THEN NewBolt ELSE place[r]]
    /\ UNCHANGED dead /\ Move
Vacuum(r) ==
    /\ r \in Flushed /\ ~rows[r].vis
    /\ dead' = dead \cup {r}
    /\ UNCHANGED place /\ Move
Merge ==
    /\ Bolts # {} /\ (Cardinality(Bolts) > 1 \/ dead # {})
    /\ place' = [r \in Row |-> IF r \in dead THEN OUT
                               ELSE IF place[r] \in Bolts THEN NewBolt ELSE place[r]]
    /\ dead' = {} /\ Move

Next ==
    \/ OrderInit \/ weave_ord_probe \/ weave_gettuple \/ Grow \/ GrowError
    \/ PadBegin \/ weave_pad_gettuple \/ PadNulls \/ PadEnd
    \/ weave_fuse_search \/ weave_topk_visible \/ weave_rescan
    \/ Flush \/ Merge
    \/ \E r \in Row : Insert(r) \/ Vacuum(r)

Spec == Init /\ [][Next]_vars

-----------------------------------------------------------------------------
(* Properties.                                                               *)

Due == {r \in Row : rows[r].vis /\ rows[r].pred /\ Where(r)
                     /\ (want.kind = "search" => Match(want.q, rows[r].terms) /\ ~rows[r].nulldoc)}
TrueDist(r) == IF KeyNull(r) THEN NULLDIST
               ELSE IF Ranks(r) /\ place[r] # OUT THEN Dist(r) ELSE INF

(* The rows a finished ladder may still owe a rank: all, when maxhits ended  *)
(* it short; and behind a negation those a bolt without document lists does   *)
(* not have in its universe, so that a fused order gates them.                *)
WithoutList(r) == /\ want.kind = "fuse" /\ HasLex(want) /\ weave_query_has_not(want)
                  /\ ~want.v12 /\ rows[r].words = {}
Overlooked(r) == so.short \/ WithoutList(r)

(* What any scan hands out is in order: each row comes once, with the        *)
(* distance the ranking gives it, nearest first, then the rows without a     *)
(* rank, then those whose ordering column is NULL, whatever is inserted,     *)
(* flushed, merged or vacuumed between two passes.  A row the ladder has      *)
(* overlooked comes with the rows without a rank, never between others       *)
(* (weave_gettuple(), weave_vec_pass(), weave_fuse_pass(),                   *)
(* weave_pad_gettuple()).                                                    *)
RankOrdered ==
    \A i \in DOMAIN out :
        /\ out[i].row \in Due
        /\ \/ out[i].dist = TrueDist(out[i].row)
           \/ out[i].dist = INF /\ TrueDist(out[i].row) < INF /\ Overlooked(out[i].row)
        /\ \A j \in DOMAIN out : i < j => out[i].dist <= out[j].dist /\ out[i].row # out[j].row

(* A scan that ends has handed out every row the snapshot sees and the WHERE *)
(* clause admits: the ladder stops only when nothing is left, and padding    *)
(* adds what the ranking left out; the search functions stop at k or, at     *)
(* the lexical one's cap, with fewer.  A ladder that maxhits ended short     *)
(* costs rows only where there is no padding (weave_ord_grow(),              *)
(* weave_pad_begin(), weave_topk_visible(), weave_fuse_search()).            *)
RankComplete ==
    so.phase = "done" =>
        IF want.kind = "search"
        THEN so.capped \/ Len(out) = Min({want.k, Cardinality(Due)})
        ELSE IF want.k > 0
        THEN so.short \/ Len(out) = Min({want.k, Cardinality({r \in Due : TrueDist(r) < INF})})
        ELSE \/ so.short /\ ~weave_pad_wanted
             \/ {out[i].row : i \in DOMAIN out} = Due

(* The fused orders whose maxhits counts what their channels rank: not an AND *)
(* beside another lexical channel, and not two vector channels over more NULL *)
(* documents than others.                                                     *)
UnionCounted ==
    want.kind = "fuse" =>
        /\ want.chan = "lexlex" => want.q # "and"
        /\ want.chan = "vecvec" =>
             Cardinality({r \in Row : rows[r].vec /\ rows[r].nulldoc})
               <= Max({1, Cardinality({r \in Row : rows[r].vis /\ rows[r].pred /\ ~rows[r].nulldoc})})

(* The most hits a scan can have, counted from dictionaries and the pending  *)
(* list when it starts, stays enough for the rows that were there then, for   *)
(* whatever is flushed, merged or vacuumed: only rows inserted since can end   *)
(* a ladder short (weave_query_maxhits(), weave_ord_grow(),                   *)
(* weave_fuse_grow()).                                                        *)
HitsBounded ==
    so.phase = "ranked" /\ want.kind \in {"lex", "fuse"} /\ UnionCounted =>
        Cardinality({r \in Found : ~rows[r].late}) <= so.maxhits
=============================================================================
