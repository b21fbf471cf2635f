----------------------------- MODULE WeaveTopK -----------------------------
(***************************************************************************)
(* The three top-k scorers of the weave access method, each pruning by     *)
(* upper bounds and each claimed exact by its comments:                     *)
(*                                                                          *)
(*   - lexical: block-max WAND (weave_search_bmw) and MaxScore              *)
(*     (weave_search_maxscore) over one posting cursor per query term and   *)
(*     bolt (src/src/am/amscan.c);                                          *)
(*   - fused: the document-at-a-time threshold algorithm over the lexical,  *)
(*     vector and gate channels of one bolt (src/src/am/fuse.c);            *)
(*   - vector: the block scan of the code lanes of every bolt               *)
(*     (src/src/vector/vecshuttle.c).                                       *)
(*                                                                          *)
(* A corpus is what the scorers read: bolts of postings, lengths, lanes and *)
(* tombstones, and the query.  A corpus is fixed during a scan (the         *)
(* generation bracket of WeaveScan re-runs one that raced).  BM25 is kept   *)
(* to what its bounds need: a contribution grows with tf and falls with the *)
(* document length.                                                         *)
(***************************************************************************)
EXTENDS WeavePostings

CONSTANTS
    Corpora,      \* the corpora and queries a scan may start on
    WandCutoff,   \* cursors from which MaxScore is used (4 in the code)
    MaxDoc        \* the largest docid

ASSUME TopKBounds ==
    /\ WandCutoff \in Nat \ {0} /\ MaxDoc \in Nat

VARIABLES
    corpus,   \* the corpus and query of this scan
    chan,     \* Seq: the cursors or channels the scan opened
    pos,      \* pos[i]: entry channel i stands on; 0 before its first seek
    heap,     \* Seq of [doc, score]: the k best so far
    at,       \* fused: the position p; vector: the bolt
    ess,      \* MaxScore: first_essential; fused: split; vector: the block
    phase,    \* "bmw", "maxscore", "fuse", "vector", "done", "error"
    loose     \* history: a lexical scorer passed documents its bound does not cover

vars == <<corpus, chan, pos, heap, at, ess, phase, loose>>

END == MaxDoc + 2
NegInf == -1000
Doc == 0..MaxDoc
SumOver(S, f(_)) == FoldSet(LAMBDA x, acc : f(x) + acc, 0, S)

-----------------------------------------------------------------------------
(* Channels.  A channel is a docid-ordered sequence of entries              *)
(* [doc, val, ok] cut into blocks; ok is FALSE for an entry the channel      *)
(* never stops at (tombstoned in its own bolt, or a lane not available).     *)

weave_bm25_contrib(tf, dl) == 4 * tf + 16 - dl
weave_bm25_term_bound(maxtf) == 4 * maxtf + 16

Block(i) == (i - 1) \div BlockSize
BlockEntries(posts, b) == {i \in DOMAIN posts : Block(i) = b}
NBlocks(posts) == (Len(posts) + BlockSize - 1) \div BlockSize

(* A bolt's postings as they lie in the index: written from its documents,   *)
(* or by the merge of two bolts, of which the second still holds the         *)
(* tombstoned postings of documents that have moved to the first.            *)
weave_build_callback(bolt, terms, d) ==
    FoldLeft(LAMBDA acc, t : IF bolt.tf[t][d] = 0 THEN acc
                             ELSE add_posting(acc, t, [doc |-> d, tf |-> bolt.tf[t][d],
                                                       dl |-> bolt.dl[d], at |-> <<>>]),
             terms, [t \in DOMAIN bolt.tf |-> t])
Built(bolt, docs) ==
    weave_write_segment(FoldSet(LAMBDA d, acc : weave_build_callback(bolt, acc, d), <<>>, docs),
                        bolt.sidecar)
Weft(bolt) ==
    LET docs == DOMAIN bolt.dl
        even == {d \in docs : d % 2 = 0}
    IN IF ~bolt.merged THEN Built(bolt, docs)
       ELSE weave_merge_segments_streaming(
              <<[weft |-> Built(bolt, even), tomb |-> {}],
                [weft |-> Built(bolt, docs), tomb |-> even]>>,
              bolt.sidecar, 2 * Cardinality(docs))

(* The lengths a cursor reads for its postings, in docid order, through the  *)
(* sidecar; a bolt without one has them in its blocks.                       *)
SidecarLengths(pages, docs) ==
    FoldLeft(LAMBDA acc, d :
               LET l == weave_doclen_cursor_lookup(pages, acc.res, d)
               IN [res |-> l.res, lens |-> Append(acc.lens, l.len)],
             [res |-> NoResident, lens |-> <<>>], docs).lens

(* The block header's max_tf and min_doclen bound every entry of the block.  *)
(* min_doclen is exact; the lengths of a sidecar are rounded down, so the    *)
(* bound takes the rounded one.                                              *)
wand_block_max_contrib(block, inline) ==
    weave_bm25_contrib(block.max_tf,
                       IF inline THEN block.min_doclen ELSE Quantised(block.min_doclen))

TermChan(weft, t, tomb) ==
    LET e == weft.dict[t]
        inline == weft.doclens = <<>>
        blocks == [b \in 1..((e.df + BlockSize - 1) \div BlockSize) |-> weft.file[e.slot + b]]
        docs == FlattenSeq(Column(blocks, BlockDocs))
        tfs == FlattenSeq(Column(blocks, LAMBDA b : b.tfs))
        dls == IF inline THEN FlattenSeq(Column(blocks, LAMBDA b : b.dls))
               ELSE SidecarLengths(weft.doclens, docs)
    IN [kind |-> "term", term |-> t, required |-> FALSE, slot |-> e.slot,
        posts |-> [i \in DOMAIN docs |->
                     [doc |-> docs[i], ok |-> docs[i] \notin tomb,
                      val |-> weave_bm25_contrib(tfs[i], dls[i])]],
        bound |-> [b \in 0..(Len(blocks) - 1) |-> wand_block_max_contrib(blocks[b + 1], inline)],
        max |-> weave_bm25_term_bound(e.max_tf)]

(* A vector channel has one lane per document of its bolt; a lane is         *)
(* available when the caller allows it and its live bit is set (a document   *)
(* without a vector keeps a dead lane).  The block bound covers every lane   *)
(* of the block, dead ones too, and may be loose (slack).                    *)
Alive(bolt) == {d \in DOMAIN bolt.dl : bolt.vec[d] # NegInf}
vec_block_avail(bolt, allow, d) == d \in allow \cap Alive(bolt)
scan_bound(bolt, docs, b, slack) ==
    Max({bolt.vec[docs[i]] : i \in BlockEntries(docs, b)}) + slack
weave_vec_weft_maxscore(bolt, slack) ==
    Max({NegInf} \cup {bolt.vec[d] : d \in DOMAIN bolt.dl}) + slack
VecChan(bolt, allow, slack) ==
    LET docs == Asc(DOMAIN bolt.dl)
    IN [kind |-> "vector", term |-> 0, required |-> FALSE, slot |-> 0,
        posts |-> [i \in DOMAIN docs |->
                     [doc |-> docs[i], ok |-> vec_block_avail(bolt, allow, docs[i]),
                      val |-> bolt.vec[docs[i]]]],
        bound |-> [b \in 0..(NBlocks(docs) - 1) |-> scan_bound(bolt, docs, b, slack)],
        max |-> weave_vec_weft_maxscore(bolt, slack)]

GateChan(keys) ==
    [kind |-> "gate", term |-> 0, required |-> TRUE, slot |-> 0,
     posts |-> LET s == Asc(keys) IN [i \in DOMAIN s |-> [doc |-> s[i], ok |-> TRUE, val |-> 0]],
     bound |-> <<>>, max |-> 0]

-----------------------------------------------------------------------------
(* The posting cursor.                                                       *)

DocAt(c, i) == IF i > Len(c.posts) THEN END ELSE c.posts[i].doc
BlockEnd(c, i) == DocAt(c, Min({(Block(i) + 1) * BlockSize, Len(c.posts)}))

NoTombSkip(c, i) == i
wand_skip_own_tombstoned(c, i) ==
    Min({j \in i..Len(c.posts) : c.posts[j].ok} \cup {Max({i, Len(c.posts) + 1})})

wand_next(c, i) == wand_skip_own_tombstoned(c, i + 1)
wand_skip_block(c, i) ==
    wand_skip_own_tombstoned(c, Min({(Block(i) + 1) * BlockSize, Len(c.posts)}) + 1)

(* wand_skip_blocks: from the first unread block b, on b's page, pass over a *)
(* block while the one after it starts at or before the target.              *)
wand_skip_blocks(c, b, target) ==
    Max({b} \cup {n \in (b + 1)..(NBlocks(c.posts) - 1) :
            /\ (c.slot + n) \div PageBlocks = (c.slot + b) \div PageBlocks
            /\ \A m \in (b + 1)..n : DocAt(c, m * BlockSize + 1) <= target})

FirstFrom(c, i, target) ==
    Min({j \in i..Len(c.posts) : c.posts[j].doc >= target} \cup {Len(c.posts) + 1})

wand_seek(c, i, target) ==
    IF DocAt(c, i) >= target THEN wand_skip_own_tombstoned(c, i)
    ELSE IF BlockEnd(c, i) >= target
         THEN wand_skip_own_tombstoned(c, FirstFrom(c, i, target))
         ELSE wand_skip_own_tombstoned(c,
                FirstFrom(c, wand_skip_blocks(c, Block(i) + 1, target) * BlockSize + 1, target))

wand_prime(c) == wand_skip_own_tombstoned(c, 1)

Cur(i) == DocAt(chan[i], pos[i])
Contrib(i) == chan[i].posts[pos[i]].val
BlockMax(i) == chan[i].bound[Block(pos[i])]

-----------------------------------------------------------------------------
(* What a query admits, and the heap of the lexical scorers.                 *)

(* An OR needs no filter; AND and NOT are decided by the cursors that stand on *)
(* the document; any other query is collected first and ranks what it matched. *)
weave_query_is_pure_or(op) == op = "or"
weave_query_is_pure_boolean(op) == op \in {"or", "and", "andnot"}
docid_admitted(d) == weave_query_is_pure_boolean(corpus.op) \/ d \in corpus.filter
NothingMatched == ~weave_query_is_pure_boolean(corpus.op) /\ corpus.filter = {}
bool_gate_admits(op, present) ==
    CASE weave_query_is_pure_or(op) \/ ~weave_query_is_pure_boolean(op) -> TRUE
      [] op = "and" -> \A t \in DOMAIN corpus.terms : corpus.terms[t] \in present
      [] op = "andnot" -> corpus.terms[1] \in present /\ corpus.terms[2] \notin present
bmw_gate_admits(d) ==
    bool_gate_admits(corpus.op, {chan[i].term : i \in {j \in DOMAIN chan : Cur(j) = d}})

Full == Len(heap) >= corpus.k
ScoresOf(h) == {h[i].score : i \in DOMAIN h}
WorstOf(h) == Min(ScoresOf(h))
Threshold == IF Full THEN WorstOf(heap) ELSE 0

(* Until the heap is full every admitted document enters it; then one that   *)
(* beats the threshold replaces the first minimum.                           *)
HeapAdmit(d, s) ==
    IF ~Full THEN Append(heap, [doc |-> d, score |-> s])
    ELSE IF s > Threshold
         THEN [heap EXCEPT ![Min({i \in DOMAIN heap : heap[i].score = Threshold})] =
                   [doc |-> d, score |-> s]]
         ELSE heap

-----------------------------------------------------------------------------
(* Opening a scan.                                                           *)

Lexical(c) ==
    LET one(t, b) == IF t \in DOMAIN c.bolts[b].weft.dict
                     THEN <<TermChan(c.bolts[b].weft, t, c.bolts[b].tomb)>> ELSE <<>>
        ofTerm(t) == FlattenSeq([b \in DOMAIN c.bolts |-> one(t, b)])
    IN FlattenSeq([n \in DOMAIN c.terms |-> ofTerm(c.terms[n])])

(* weave_fuse_pass, one bolt: a channel per term the bolt has, the vector    *)
(* channel, a gate on the live lanes when a lane of an unexcluded document   *)
(* is dead, and a gate on the WHERE clause.                                  *)
Allowed(bolt) == DOMAIN bolt.dl \ (bolt.tomb \cup bolt.nulls)
LiveGate(bolt) == IF Allowed(bolt) \subseteq Alive(bolt) THEN <<>>
                  ELSE <<GateChan(Allowed(bolt) \cap Alive(bolt))>>
NoVector(c) == c.hasvec /\ Allowed(c.bolts[1]) \cap Alive(c.bolts[1]) = {}
Fused(c) ==
    LET b == c.bolts[1]
    IN Lexical(c)
       \o (IF c.hasvec THEN <<VecChan(b, Allowed(b), c.slack)>> \o LiveGate(b) ELSE <<>>)
       \o (IF c.gated THEN <<GateChan(c.filter)>> ELSE <<>>)

(* fuse_sort_scored: the scored channels by descending ceiling, stably;      *)
(* the required ones are kept apart, here after them.                        *)
fuse_sort_scored(cs) ==
    LET sc == SelectSeq(cs, LAMBDA c : ~c.required)
        rank(i) == Cardinality({j \in DOMAIN sc : sc[j].max > sc[i].max
                                               \/ (sc[j].max = sc[i].max /\ j <= i)})
        srt == [r \in DOMAIN sc |-> sc[CHOOSE i \in DOMAIN sc : rank(i) = r]]
    IN srt \o SelectSeq(cs, LAMBDA c : c.required)

(* MaxScore sorts its cursors by ascending max_contrib.                      *)
SortAscending(cs) == Reverse(fuse_sort_scored(cs))

(* weave_search_wand picks the scorer by the number of cursors, once it is    *)
(* known that something matches.                                             *)
OpenLexical ==
    /\ corpus.algo = "lexical"
    /\ \E cs \in {Lexical(corpus)} :
         /\ chan = IF Len(cs) >= WandCutoff THEN SortAscending(cs) ELSE cs
         /\ phase = IF NothingMatched THEN "done"
                    ELSE IF Len(cs) >= WandCutoff THEN "maxscore" ELSE "bmw"
    /\ pos = [i \in DOMAIN chan |-> wand_prime(chan[i])]
    /\ at = 0 /\ ess = 0

(* weave_fuse_init: no channel has sought, all scored ones are essential.    *)
(* A bolt without a live lane, or without a scored channel, is passed over.  *)
OpenFused ==
    /\ corpus.algo = "fuse"
    /\ chan = fuse_sort_scored(Fused(corpus))
    /\ pos = [i \in DOMAIN chan |-> 0]
    /\ ess = Cardinality({i \in DOMAIN chan : ~chan[i].required})
    /\ phase = IF NoVector(corpus) \/ ess = 0 THEN "done" ELSE "fuse"
    /\ at = 0

(* weave_vec_topk_run opens the bolts in turn, each under the allow bitmap   *)
(* of the documents the WHERE clause matched.                                *)
vec_allow_from_docids(c) == c.filter
OpenVector ==
    /\ corpus.algo = "vector"
    /\ chan = [b \in DOMAIN corpus.bolts |->
                 VecChan(corpus.bolts[b], vec_allow_from_docids(corpus), corpus.slack)]
    /\ pos = [b \in DOMAIN corpus.bolts |-> 0]
    /\ at = 1 /\ ess = 0 /\ phase = "vector"

(* The corpus with its postings on disk.                                     *)
OnDisk(c) ==
    [c EXCEPT !.bolts = [b \in DOMAIN c.bolts |->
        [x \in DOMAIN c.bolts[b] \cup {"weft"} |->
            IF x = "weft" THEN Weft(c.bolts[b]) ELSE c.bolts[b][x]]]]

Init ==
    /\ \E c \in Corpora : corpus = OnDisk(c)
    /\ heap = <<>> /\ loose = FALSE
    /\ OpenLexical \/ OpenFused \/ OpenVector

-----------------------------------------------------------------------------
(* Block-max WAND.                                                           *)

AtOrBefore(d) == {i \in DOMAIN chan : Cur(i) <= d}
MaxSum(S) == SumOver(S, LAMBDA i : chan[i].max)
LiveDocs == {Cur(i) : i \in DOMAIN chan} \ {END}
BmwPivots ==
    {d \in LiveDocs : ~Full \/ MaxSum(AtOrBefore(d)) > Threshold}

BlockSumBeforePivot(pivot) ==
    Full /\ SumOver(AtOrBefore(pivot - 1), BlockMax) <= Threshold
BlockSumSkips(pivot) ==
    Full /\ SumOver(AtOrBefore(pivot), BlockMax) <= Threshold

(* A lone cursor whose block ends before any other cursor's document may     *)
(* drop the whole block.                                                     *)
BlockIsolated(pivot) ==
    /\ Cardinality(AtOrBefore(pivot)) = 1
    /\ \E i \in AtOrBefore(pivot) : \A j \in DOMAIN chan \ {i} : Cur(j) > BlockEnd(chan[i], pos[i])

(* A cursor lags when it has a posting up to the pivot in a later block than  *)
(* the one whose bound is summed.                                            *)
Lags(i, pivot) ==
    \E n \in DOMAIN chan[i].posts : chan[i].posts[n].doc <= pivot /\ Block(n) > Block(pos[i])

BmwEnd ==
    /\ phase = "bmw" /\ BmwPivots = {}
    /\ phase' = "done"
    /\ UNCHANGED <<corpus, loose, chan, pos, heap, at, ess>>

BmwSkip ==
    /\ phase = "bmw"
    /\ \E pivot \in {IF BmwPivots = {} THEN END ELSE Min(BmwPivots)} :
         /\ pivot # END /\ BlockSumSkips(pivot)
         /\ pos' = [i \in DOMAIN pos |->
                      IF Cur(i) > pivot THEN pos[i]
                      ELSE IF BlockIsolated(pivot) THEN wand_skip_block(chan[i], pos[i])
                      ELSE wand_seek(chan[i], pos[i], pivot + 1)]
         /\ loose' = (loose \/ \E i \in AtOrBefore(pivot) : Lags(i, pivot))
    /\ UNCHANGED <<corpus, chan, heap, at, ess, phase>>

BmwScore ==
    /\ phase = "bmw"
    /\ \E pivot \in {IF BmwPivots = {} THEN END ELSE Min(BmwPivots)} :
         /\ pivot # END /\ ~BlockSumSkips(pivot)
         /\ Min(LiveDocs) = pivot
         /\ heap' = IF docid_admitted(pivot) /\ bmw_gate_admits(pivot)
                    THEN HeapAdmit(pivot, SumOver(AtOrBefore(pivot), Contrib)) ELSE heap
         /\ pos' = [i \in DOMAIN pos |->
                      IF Cur(i) = pivot THEN wand_next(chan[i], pos[i]) ELSE pos[i]]
    /\ UNCHANGED <<corpus, loose, chan, at, ess, phase>>

BmwSeek ==
    /\ phase = "bmw"
    /\ \E pivot \in {IF BmwPivots = {} THEN END ELSE Min(BmwPivots)} :
         /\ pivot # END /\ ~BlockSumSkips(pivot)
         /\ Min(LiveDocs) < pivot
         /\ pos' = [i \in DOMAIN pos |->
                      IF Cur(i) < pivot THEN wand_seek(chan[i], pos[i], pivot) ELSE pos[i]]
    /\ UNCHANGED <<corpus, loose, chan, heap, at, ess, phase>>

-----------------------------------------------------------------------------
(* MaxScore.  suffix[i] sums max_contrib from cursor i (0-based) on.         *)

Suffix(i) == MaxSum((i + 1)..Len(chan))

(* while (first_essential < nterms && suffix[first_essential + 1] <= threshold) *)
FirstEssential ==
    IF ~Full THEN ess
    ELSE Max({ess} \cup {n \in (ess + 1)..Len(chan) :
                 \A m \in ess..(n - 1) : Suffix(m + 1) <= Threshold})

(* The cursors left out can beat the heap by themselves.                     *)
CutsTooFar(fe) == Full /\ MaxSum(1..fe) > Threshold
Essentials(fe) == (fe + 1)..Len(chan)
Candidate(fe) == Min({END} \cup {Cur(i) : i \in Essentials(fe)})

MaxScoreEnd ==
    /\ phase = "maxscore" /\ Candidate(FirstEssential) = END
    /\ ess' = FirstEssential /\ phase' = "done"
    /\ loose' = (loose \/ CutsTooFar(FirstEssential))
    /\ UNCHANGED <<corpus, chan, pos, heap, at>>

MaxScoreStep ==
    /\ phase = "maxscore"
    /\ \E fe \in {FirstEssential} : \E d \in {Candidate(fe)} :
         /\ d # END
         /\ ess' = fe /\ loose' = (loose \/ CutsTooFar(fe))
         /\ \E s \in {SumOver({i \in Essentials(fe) : Cur(i) = d}, Contrib)} :
            \E here \in {IF Full /\ s + Suffix(fe) <= Threshold THEN pos
                         ELSE [i \in DOMAIN pos |->
                                 IF i <= fe THEN wand_seek(chan[i], pos[i], d) ELSE pos[i]]} :
            \E on \in {{i \in DOMAIN chan : DocAt(chan[i], here[i]) = d}} :
              /\ heap' = IF /\ ~(Full /\ s + Suffix(fe) <= Threshold)
                            /\ docid_admitted(d)
                            /\ bool_gate_admits(corpus.op, {chan[i].term : i \in on})
                         THEN HeapAdmit(d, SumOver(on, LAMBDA i : chan[i].posts[here[i]].val))
                         ELSE heap
              /\ pos' = [i \in DOMAIN pos |->
                           IF i > fe /\ Cur(i) = d THEN wand_next(chan[i], pos[i]) ELSE here[i]]
    /\ UNCHANGED <<corpus, chan, at, phase>>

-----------------------------------------------------------------------------
(* The fused scorer.                                                         *)

Required == {i \in DOMAIN chan : chan[i].required}
Scored == DOMAIN chan \ Required
fuse_theta == IF Full THEN WorstOf(heap) ELSE NegInf * 10

(* The seek of each kind of channel: a lexical shuttle moves its posting     *)
(* cursor, a vector shuttle finds the first available lane at or past the    *)
(* target's lane, a gate the first key.                                      *)
lex_shuttle_seek(c, i, target) == wand_seek(c, i, target)
vec_shuttle_seek(c, i, lane) ==
    Min({j \in Max({i, lane})..Len(c.posts) : c.posts[j].ok} \cup {Len(c.posts) + 1})
vecdoc_seek(c, i, target) == vec_shuttle_seek(c, i, FirstFrom(c, i, target))
gate_shuttle_seek(c, i, target) == FirstFrom(c, i, target)
ChanSeek(i, target) ==
    LET from == Max({1, pos[i]})
    IN CASE chan[i].kind = "term" -> lex_shuttle_seek(chan[i], from, target)
         [] chan[i].kind = "vector" -> vecdoc_seek(chan[i], from, target)
         [] chan[i].kind = "gate" -> gate_shuttle_seek(chan[i], from, target)

fuse_advance(i, target) ==
    IF pos[i] > 0 /\ Cur(i) >= target THEN pos[i] ELSE ChanSeek(i, target)
AdvancedDoc(i, target) == DocAt(chan[i], fuse_advance(i, target))

(* fuse_intersect: the least document at or past p that every required       *)
(* channel has.                                                              *)
fuse_intersect(p) ==
    Min({END} \cup {d \in p..MaxDoc : \A i \in Required : AdvancedDoc(i, d) = d})

(* fuse_repartition: drop channels from the essential prefix while the tail  *)
(* they join cannot beat theta.                                              *)
fuse_repartition(split, h) ==
    IF Len(h) < corpus.k THEN split
    ELSE Min({split} \cup {n \in 0..split : \A m \in (n + 1)..split :
                 MaxSum(Scored \cap (m..Len(chan))) <= WorstOf(h)})

EssentialPivot(p) == Min({END} \cup {AdvancedDoc(i, p) : i \in 1..ess})

(* The block-skip bound and the end of the range it covers, all scored       *)
(* channels standing at np.                                                  *)
AdvanceScored(p) == [i \in DOMAIN pos |-> IF i \in Scored THEN fuse_advance(i, p) ELSE pos[i]]
Contributors(np, p) == {i \in Scored : DocAt(chan[i], np[i]) = p}
Bound(np, i) == chan[i].bound[Block(np[i])]
RangeEndContributorsOnly(np, p) ==
    Min({END - 1} \cup {BlockEnd(chan[i], np[i]) : i \in Contributors(np, p)})
RangeEndBehind(np, p) ==
    Min({END - 1} \cup {DocAt(chan[i], np[i]) - 1 : i \in Scored})
RangeEnd(np, p) ==
    Min({END - 1} \cup {BlockEnd(chan[i], np[i]) : i \in Contributors(np, p)}
                  \cup {DocAt(chan[i], np[i]) - 1 : i \in Scored \ Contributors(np, p)})

(* Scoring stops once what is summed and the bounds of the rest cannot beat  *)
(* theta.                                                                    *)
Abandoned(np, p) ==
    \E j \in Contributors(np, p) :
        SumOver({i \in Contributors(np, p) : i <= j}, LAMBDA i : chan[i].posts[np[i]].val)
        + SumOver({i \in Contributors(np, p) : i > j}, LAMBDA i : Bound(np, i)) <= fuse_theta

(* fuse_push: the heap's root is its worst hit, the lowest score and among   *)
(* equals the highest document.                                              *)
fuse_push(d, s) ==
    IF ~Full THEN Append(heap, [doc |-> d, score |-> s])
    ELSE [heap EXCEPT ![CHOOSE i \in DOMAIN heap :
                          /\ heap[i].score = WorstOf(heap)
                          /\ \A j \in DOMAIN heap : heap[j].score = heap[i].score
                                                    => heap[j].doc <= heap[i].doc] =
            [doc |-> d, score |-> s]]

CeilingStop == Full /\ MaxSum(Scored) <= fuse_theta

FuseStop ==
    /\ phase = "fuse"
    /\ \/ at >= END \/ CeilingStop
       \/ Required # {} /\ fuse_intersect(at) >= END
       \/ Required = {} /\ ess = 0
    /\ phase' = "done"
    /\ UNCHANGED <<corpus, loose, chan, pos, heap, at, ess>>

(* One turn of the loop at p, the least candidate of the required channels.  *)
FuseTurn(p) ==
    /\ phase = "fuse" /\ at < END /\ ~CeilingStop
    /\ p = (IF Required = {} THEN at ELSE fuse_intersect(at)) /\ p < END
    /\ ess > 0 \/ Required # {}

FusePivot ==
    \E p \in {IF Required = {} THEN at ELSE fuse_intersect(at)} :
        /\ FuseTurn(p)
        /\ ess > 0 /\ EssentialPivot(p) > p
        /\ at' = EssentialPivot(p)
        /\ pos' = [i \in DOMAIN pos |-> IF i <= ess \/ i \in Required
                                        THEN fuse_advance(i, p) ELSE pos[i]]
        /\ UNCHANGED <<corpus, loose, chan, heap, ess, phase>>

FuseBlockSkip ==
    \E p \in {IF Required = {} THEN at ELSE fuse_intersect(at)} :
        /\ FuseTurn(p) /\ (ess > 0 => EssentialPivot(p) = p)
        /\ \E np \in {AdvanceScored(p)} :
             /\ SumOver(Contributors(np, p), LAMBDA i : Bound(np, i)) <= fuse_theta
             /\ pos' = np
             /\ \E rend \in {RangeEnd(np, p)} :
                  /\ phase' = CASE rend < p -> "error"
                                [] rend >= END - 1 -> "done"
                                [] OTHER -> "fuse"
                  /\ at' = IF phase' = "fuse" THEN rend + 1 ELSE p
        /\ UNCHANGED <<corpus, loose, chan, heap, ess>>

FuseScore ==
    \E p \in {IF Required = {} THEN at ELSE fuse_intersect(at)} :
        /\ FuseTurn(p) /\ (ess > 0 => EssentialPivot(p) = p)
        /\ \E np \in {AdvanceScored(p)} :
             /\ SumOver(Contributors(np, p), LAMBDA i : Bound(np, i)) > fuse_theta
             /\ \E s \in {SumOver(Contributors(np, p), LAMBDA i : chan[i].posts[np[i]].val)} :
                  /\ heap' = IF ~Abandoned(np, p) /\ (~Full \/ s > fuse_theta)
                             THEN fuse_push(p, s) ELSE heap
                  /\ ess' = IF heap' = heap THEN ess ELSE fuse_repartition(ess, heap')
             /\ pos' = np
        /\ at' = p + 1
        /\ UNCHANGED <<corpus, loose, chan, phase>>

-----------------------------------------------------------------------------
(* The vector scan, a block of a bolt a step: a block whose bound does not   *)
(* beat the worst of k hits is passed over (the threshold is pushed by an    *)
(* admission in the same bolt, so a bolt starts without one), then its lanes *)
(* are offered in order and inserted below every hit that is as good.        *)

VecInsertNoGrow(h, e) ==
    LET n == Cardinality({i \in DOMAIN h : h[i].score >= e.score})
    IN SubSeq(InsertAt(h, n + 1, e), 1, Min({corpus.k, Len(h)}))
VecInsert(h, e) ==
    IF Len(h) = corpus.k /\ e.score <= h[corpus.k].score THEN h
    ELSE LET n == Cardinality({i \in DOMAIN h : h[i].score >= e.score})
         IN SubSeq(InsertAt(h, n + 1, e), 1, Min({corpus.k, Len(h) + 1}))

ThetaOfBest == IF pos[at] = 1 /\ Full THEN heap[1].score ELSE NegInf * 10
vec_threshold == IF pos[at] = 1 /\ Full THEN heap[corpus.k].score ELSE NegInf * 10

(* The dropped callback reads the tombstones of the bolt being scanned.      *)
VecDropped(b, d) == d \in corpus.bolts[b].tomb

LaneScore(c, i) == c.posts[i].val
VecLanes(c, b) ==
    LET S == {i \in BlockEntries(c.posts, b) : c.posts[i].ok /\ ~VecDropped(at, c.posts[i].doc)}
        s == Asc(S)
    IN [n \in DOMAIN s |-> [doc |-> c.posts[s[n]].doc, score |-> LaneScore(c, s[n])]]

(* The decision on a block: no available lane, a bound that cannot beat the  *)
(* threshold, or lanes to score.                                             *)
weave_vec_scan_block(c, b) ==
    IF \A i \in BlockEntries(c.posts, b) : ~c.posts[i].ok THEN "mask"
    ELSE IF c.bound[b] <= vec_threshold THEN "bound" ELSE "score"
vec_load_block(c, b) ==
    IF weave_vec_scan_block(c, b) = "score" THEN VecLanes(c, b) ELSE <<>>

VecBlock ==
    /\ phase = "vector" /\ at <= Len(chan) /\ ess < NBlocks(chan[at].posts)
    /\ heap' = FoldLeft(VecInsert, heap, vec_load_block(chan[at], ess))
    /\ pos' = [pos EXCEPT ![at] = IF heap' # heap THEN 1 ELSE @]
    /\ ess' = ess + 1
    /\ UNCHANGED <<corpus, loose, chan, at, phase>>

VecNextBolt ==
    /\ phase = "vector" /\ at <= Len(chan) /\ ess = NBlocks(chan[at].posts)
    /\ at' = at + 1 /\ ess' = 0
    /\ phase' = IF at = Len(chan) THEN "done" ELSE "vector"
    /\ UNCHANGED <<corpus, loose, chan, pos, heap>>

Finished == phase = "done" /\ UNCHANGED vars

Next ==
    \/ BmwEnd \/ BmwSkip \/ BmwScore \/ BmwSeek
    \/ MaxScoreEnd \/ MaxScoreStep
    \/ FuseStop \/ FusePivot \/ FuseBlockSkip \/ FuseScore
    \/ VecBlock \/ VecNextBolt
    \/ Finished

Spec == Init /\ [][Next]_vars

-----------------------------------------------------------------------------
(* The reference: what a scan is for, defined on the corpus alone.           *)

LiveIn(b) == DOMAIN corpus.bolts[b].dl \ corpus.bolts[b].tomb
ScoredLength(bolt, d) == IF bolt.sidecar THEN Quantised(bolt.dl[d]) ELSE bolt.dl[d]
LexScore(b, d) == SumOver({n \in DOMAIN corpus.terms : corpus.bolts[b].tf[corpus.terms[n]][d] > 0},
                          LAMBDA n : weave_bm25_contrib(corpus.bolts[b].tf[corpus.terms[n]][d],
                                                        ScoredLength(corpus.bolts[b], d)))
TermsOf(b, d) == {t \in ToSet(corpus.terms) : corpus.bolts[b].tf[t][d] > 0}
VecMatches(b, d) == ~corpus.hasvec \/ d \in Alive(corpus.bolts[b]) \ corpus.bolts[b].nulls
VecScore(b, d) == IF corpus.hasvec THEN corpus.bolts[b].vec[d] ELSE 0

(* The documents a scan ranks, each with its score: live in its bolt,        *)
(* admitted by the WHERE clause, and reached by a scored channel.            *)
Matches ==
    UNION {{[doc |-> d, score |-> IF corpus.algo = "vector" THEN corpus.bolts[b].vec[d]
                                  ELSE LexScore(b, d) + VecScore(b, d)] :
              d \in {x \in LiveIn(b) \cap corpus.filter :
                       CASE corpus.algo = "vector" -> x \in Alive(corpus.bolts[b])
                         [] corpus.algo = "fuse" -> /\ VecMatches(b, x)
                                                    /\ corpus.hasvec \/ TermsOf(b, x) # {}
                         [] OTHER -> /\ TermsOf(b, x) # {}
                                     /\ bool_gate_admits(corpus.op, TermsOf(b, x))}} :
           b \in DOMAIN corpus.bolts}

Hits == ToSet(heap)
Done == phase = "done"

(* Every hit a scan holds, at any step, is a document the query matches,     *)
(* with its full score, and no document is held twice: no tombstoned         *)
(* posting of another bolt's document is summed and no channel is left out.  *)
ScoresTrue == Hits \subseteq Matches /\ Cardinality(Hits) = Len(heap)

(* A finished scan that holds fewer than k hits holds every match.  The      *)
(* ordered scan relies on it: fewer candidates than asked for ends its       *)
(* widening (weave_topk_candidates, "COMPLETENESS SIGNAL").                  *)
CompleteBelowK == Done /\ Len(heap) < corpus.k => Hits = Matches

(* No match outside a full heap beats a hit.                                 *)
TopKExact ==
    Done => \A m \in Matches \ Hits : Full /\ m.score <= WorstOf(heap)

(* The fused scorer returns the reference top-k, ties by document included   *)
(* (weave_fuse_reference): no block skip, ceiling stop, essential-prefix     *)
(* cut or abandonment loses a document.                                      *)
Better(m, n) == m.score > n.score \/ (m.score = n.score /\ m.doc < n.doc)
FuseExact ==
    Done /\ corpus.algo = "fuse" =>
        Hits = {m \in Matches : Cardinality({n \in Matches : Better(n, m)}) < corpus.k}

(* The vector scan over several bolts loses no better lane to a block bound  *)
(* or to a threshold carried over from another bolt.                         *)
VecExact == corpus.algo = "vector" => TopKExact

(* The two lexical scorers lose a document in two ways only: to the bound of  *)
(* a block that a lagging cursor has left behind (weave_search_bmw), and to a  *)
(* boundary behind which the left-out cursors' bounds sum to more than the    *)
(* threshold (weave_search_maxscore).  A scan in which neither happened is    *)
(* exact over lists of any number of blocks.                                 *)
LexExact == corpus.algo = "lexical" /\ ~loose => TopKExact

(* A step moves the scan forward and does not meet the C1 error.            *)
PosSum(f) == SumOver(DOMAIN f, LAMBDA i : f[i])
Forward ==
    /\ phase' # "error"
    /\ phase' = phase =>
         \/ phase \in {"bmw", "maxscore"} /\ PosSum(pos') > PosSum(pos)
         \/ phase = "fuse" /\ at' > at
         \/ phase = "vector" /\ (at' > at \/ (at' = at /\ ess' > ess))

(* Every step moves a scan forward, and none meets the C1 error: a cursor    *)
(* or the fused position advances, so no scan cycles ("the failure is not a  *)
(* wrong answer, it is a HANG", fuse.c).                                     *)
AlwaysForward == [][Forward]_vars

=============================================================================
