--------------------------- MODULE WeavePostings ---------------------------
(***************************************************************************)
(* The postings and the document lengths of a bolt as they are written and *)
(* read back (src/src/am/ambuild.c, src/src/am/am.c, for.h).               *)
(*                                                                          *)
(* A weft is a file of posting blocks shared by all terms, a dictionary     *)
(* that says where a term's blocks start and how many postings it has, and  *)
(* the doclen sidecar: pages of blocks of (docid, length byte).  A posting  *)
(* is [doc, tf, dl, at]; at is the sequence of its ordinals, empty when     *)
(* none are known.  The bit packing of a column (weave_for_pack) is         *)
(* lossless and left out; the gaps, the shared pages, the lossy length byte *)
(* and the positions that may be dropped are kept.                          *)
(***************************************************************************)
EXTENDS Integers, Sequences, FiniteSets, FiniteSetsExt, SequencesExt

CONSTANTS
    BlockSize,     \* WEAVE_BLOCK_SIZE: entries of a block (128 in the code)
    PageBlocks,    \* blocks that fit a page
    MantissaBits,  \* mantissa bits of a length byte (3 in the code)
    PosRoom        \* ordinals of a block that fit beside it on a page

ASSUME PostingBounds ==
    /\ BlockSize \in Nat \ {0} /\ PageBlocks \in Nat \ {0}
    /\ MantissaBits \in Nat /\ PosRoom \in Nat

Asc(S) == [n \in 1..Cardinality(S) |-> CHOOSE x \in S : Cardinality({y \in S : y < x}) = n - 1]
SumTo(s, n) == FoldLeft(LAMBDA acc, x : acc + x, 0, SubSeq(s, 1, n))
Column(s, f(_)) == SubSeq([i \in DOMAIN s |-> f(s[i])], 1, Len(s))
Chop(s, n) ==
    LET blocks == (Len(s) + n - 1) \div n
    IN SubSeq([b \in 1..blocks |-> SubSeq(s, (b - 1) * n + 1, Min({b * n, Len(s)}))], 1, blocks)

-----------------------------------------------------------------------------
(* A length in a byte: exact below 2^MantissaBits, then its leading bits, so *)
(* a length read back is never above the one written.                        *)

weave_doclen_to_byte(len) ==
    IF len < 2 ^ MantissaBits THEN len
    ELSE LET exp == Max({b \in 0..len : 2 ^ b <= len}) - MantissaBits
         IN (exp + 1) * 2 ^ MantissaBits + ((len \div 2 ^ exp) % 2 ^ MantissaBits)

weave_byte_to_doclen(b) ==
    LET e == b \div 2 ^ MantissaBits
        mant == b % 2 ^ MantissaBits
    IN IF e = 0 THEN mant ELSE (2 ^ MantissaBits + mant) * 2 ^ (e - 1)

Quantised(len) == weave_byte_to_doclen(weave_doclen_to_byte(len))

-----------------------------------------------------------------------------
(* Collecting: the postings of each term in the order the documents came,    *)
(* and the first length seen of each document.                               *)

build_term_append(posts, e) ==
    Append(posts, IF Len(e.at) = e.tf THEN e ELSE [e EXCEPT !.at = <<>>])
add_posting(terms, t, e) ==
    IF t \in DOMAIN terms THEN [terms EXCEPT ![t] = build_term_append(@, e)]
    ELSE [u \in DOMAIN terms \cup {t} |->
            IF u = t THEN build_term_append(<<>>, e) ELSE terms[u]]

doclen_collector_add(lens, e) ==
    IF e.doc \in DOMAIN lens \/ weave_doclen_to_byte(e.dl) = 0 THEN lens
    ELSE [d \in DOMAIN lens \cup {e.doc} |->
            IF d = e.doc THEN weave_doclen_to_byte(e.dl) ELSE lens[d]]

-----------------------------------------------------------------------------
(* Writing.  A block keeps the gaps between its docids, its term             *)
(* frequencies, its lengths unless the bolt has a sidecar, the header's      *)
(* bounds over all its postings, and the ordinals as deltas when every       *)
(* posting has its tf of them and they fit the page.                         *)

cmp_posting_docid(a, b) == a.doc < b.doc

Deltas(s) == SubSeq([i \in DOMAIN s |-> IF i = 1 THEN s[1] ELSE s[i] - s[i - 1]], 1, Len(s))
PosColumn(s) ==
    LET all == FlattenSeq(Column(s, LAMBDA e : Deltas(e.at)))
    IN IF (\A i \in DOMAIN s : Len(s[i].at) = s[i].tf) /\ Len(all) <= PosRoom THEN all ELSE <<>>

WriteBlock(s, sidecar) ==
    [first |-> s[1].doc, gaps |-> Deltas(Column(s, LAMBDA e : e.doc - s[1].doc)),
     tfs |-> Column(s, LAMBDA e : e.tf),
     dls |-> IF sidecar THEN <<>> ELSE Column(s, LAMBDA e : e.dl),
     max_tf |-> Max({e.tf : e \in ToSet(s)}), min_doclen |-> Min({e.dl : e \in ToSet(s)}),
     pos |-> PosColumn(s)]

weave_write_postings(posts, sidecar) ==
    Column(Chop(SortSeq(posts, cmp_posting_docid), BlockSize), LAMBDA s : WriteBlock(s, sidecar))

(* Blocks of (docid offset, byte) in docid order, a page at a time.          *)
weave_write_doclen_sidecar(lens) ==
    LET block(docs) == [first |-> docs[1], offs |-> Column(docs, LAMBDA d : d - docs[1]),
                        bytes |-> Column(docs, LAMBDA d : lens[d])]
    IN Chop(Column(Chop(Asc(DOMAIN lens), BlockSize), block), PageBlocks)

(* weave_write_segment: the terms' blocks one after the other, pages shared, *)
(* then the sidecar.                                                         *)
NoWeft == [file |-> <<>>, dict |-> <<>>, lens |-> <<>>]
WriteTerm(weft, t, posts, sidecar) ==
    [file |-> weft.file \o weave_write_postings(posts, sidecar),
     dict |-> [u \in DOMAIN weft.dict \cup {t} |->
                 IF u # t THEN weft.dict[u]
                 ELSE [df |-> Len(posts), max_tf |-> Max({e.tf : e \in ToSet(posts)}),
                       slot |-> Len(weft.file)]],
     lens |-> FoldLeft(doclen_collector_add, weft.lens, posts)]
weave_write_segment(terms, sidecar) ==
    LET weft == FoldSet(LAMBDA t, w : WriteTerm(w, t, terms[t], sidecar), NoWeft, DOMAIN terms)
    IN [file |-> weft.file, dict |-> weft.dict,
        doclens |-> IF sidecar THEN weave_write_doclen_sidecar(weft.lens) ELSE <<>>]

-----------------------------------------------------------------------------
(* Reading a term: blocks from its slot on until df postings are read; the   *)
(* next block is another term's.  df is clamped to the documents the         *)
(* metapage counts now.                                                      *)

BlockDocs(b) == [i \in DOMAIN b.gaps |-> b.first + SumTo(b.gaps, i)]
BlockPositions(b, i) ==
    LET from == SumTo(b.tfs, i - 1)
        run == SubSeq(b.pos, from + 1, from + b.tfs[i])
    IN IF b.pos = <<>> THEN <<>> ELSE [n \in DOMAIN run |-> SumTo(run, n)]
DecodeBlock(b) ==
    LET docs == BlockDocs(b)
    IN [i \in DOMAIN docs |->
          [doc |-> docs[i], tf |-> b.tfs[i], dl |-> IF b.dls = <<>> THEN 0 ELSE b.dls[i],
           at |-> BlockPositions(b, i)]]
ClampDf(df, maxdf) == Min({df, Max({maxdf, 1})})
weave_decode_term(weft, t, maxdf) ==
    LET df == ClampDf(weft.dict[t].df, maxdf)
        slot == weft.dict[t].slot
        nblocks == (df + BlockSize - 1) \div BlockSize
        all == FlattenSeq([b \in 1..nblocks |-> DecodeBlock(weft.file[slot + b])])
    IN SubSeq(all, 1, Min({df, Len(all)}))

-----------------------------------------------------------------------------
(* Reading a length: a cursor over the sidecar keeps the page it copied and  *)
(* the block it stands in, shared by the cursors of a bolt.  A docid outside *)
(* both is found through the directory of the pages' first docids.           *)

NoResident == [page |-> 0, block |-> 0]
weave_doclendir_scan_seg(pages) == Column(pages, LAMBDA p : p[1].first)
BlockLast(b) == b.first + b.offs[Len(b.offs)]
PageLast(page) == BlockLast(page[Len(page)])
weave_doclen_resident_find_block(page, d) ==
    Max({0} \cup {b \in DOMAIN page : page[b].first <= d})

InBlock(pages, r, d) ==
    /\ r.block > 0
    /\ pages[r.page][r.block].first <= d /\ d <= BlockLast(pages[r.page][r.block])
InPage(pages, r, d) ==
    r.page > 0 /\ pages[r.page][1].first <= d /\ d <= PageLast(pages[r.page])
weave_doclen_cursor_load_page(pages, pg, d) ==
    [page |-> pg, block |-> weave_doclen_resident_find_block(pages[pg], d)]
weave_doclen_cursor_relocate(pages, r, d) == weave_doclen_cursor_load_page(pages, r.page, d)

DirPage(pages, d) ==
    LET dir == weave_doclendir_scan_seg(pages)
    IN Max({0} \cup {p \in DOMAIN dir : dir[p] <= d})
weave_doclen_walk_abs(block, d) ==
    LET hit == {i \in DOMAIN block.offs : block.first + block.offs[i] = d}
    IN IF hit = {} THEN 0 ELSE weave_byte_to_doclen(block.bytes[Min(hit)])

(* The cursor after looking d up, and the length it returns: 0 if absent.    *)
weave_doclen_cursor_lookup(pages, r, d) ==
    LET to == IF InBlock(pages, r, d) THEN r
              ELSE IF InPage(pages, r, d) THEN weave_doclen_cursor_relocate(pages, r, d)
              ELSE IF DirPage(pages, d) = 0 THEN NoResident
              ELSE weave_doclen_cursor_load_page(pages, DirPage(pages, d), d)
    IN [res |-> IF to = NoResident THEN r ELSE to,
        len |-> IF to.block = 0 THEN 0 ELSE weave_doclen_walk_abs(pages[to.page][to.block], d)]

-----------------------------------------------------------------------------
(* Merging bolts [weft, tomb]: a merge loads each sidecar whole and streams  *)
(* the terms of its inputs in order.  A posting tombstoned in its own bolt   *)
(* is dropped, a term left without postings is not written.                  *)

weave_doclens_load(pages) ==
    FlattenSeq(Column(FlattenSeq(pages), LAMBDA b :
        [i \in DOMAIN b.offs |-> [doc |-> b.first + b.offs[i], byte |-> b.bytes[i]]]))
weave_doclen_lookup(lens, d) ==
    LET hit == {i \in DOMAIN lens : lens[i].doc = d}
    IN IF hit = {} THEN 0 ELSE weave_byte_to_doclen(lens[Min(hit)].byte)

MergeTerm(src, t, maxdf) ==
    LET lens == weave_doclens_load(src.weft.doclens)
        live == SelectSeq(weave_decode_term(src.weft, t, maxdf),
                          LAMBDA e : e.doc \notin src.tomb)
    IN Column(live, LAMBDA e :
         IF src.weft.doclens = <<>> THEN e ELSE [e EXCEPT !.dl = weave_doclen_lookup(lens, e.doc)])

(* The smallest term any input stands on, from every input that stands on it. *)
MergedPosts(srcs, t, maxdf) ==
    FlattenSeq(Column(SelectSeq(srcs, LAMBDA s : t \in DOMAIN s.weft.dict),
                      LAMBDA s : MergeTerm(s, t, maxdf)))
weave_merge_segments_streaming(srcs, sidecar, maxdf) ==
    LET terms == UNION {DOMAIN srcs[i].weft.dict : i \in DOMAIN srcs}
        kept == {t \in terms : MergedPosts(srcs, t, maxdf) # <<>>}
    IN weave_write_segment([t \in kept |-> FoldLeft(build_term_append, <<>>,
                                                    MergedPosts(srcs, t, maxdf))], sidecar)
=============================================================================
