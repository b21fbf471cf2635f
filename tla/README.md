# A formal model of pg_weave

pg_weave is a PostgreSQL index access method (`weave`) for full-text, fuzzy,
regular-expression and vector search.  This directory holds TLA+ modules that
model the index and its algorithms, the TLC configurations that check them on
small instances, and TLAPS proofs of what matters most for every instance.

## 1. The system and its parts

Paths are those of the repository; `am/` is `src/am/`, and so on.

| Part | State | Operations | Hard because |
|---|---|---|---|
| Metapage (`am/am.c`, `include/weave/am.h`) | bolt directory `segs[]`, pending head/tail, `npending`, `ndocs`, `sumdoclen`, `generation` | one WAL record per change, under the exclusive buffer lock of block 0 | everyone reads a copy and goes on without the lock |
| Insert path (`am/ambuild.c` `weave_insert`, `weave_insert_oversized_as_segment`) | the pending chain; a one-document bolt for an oversized row | append, add a bolt, merge a full directory | runs beside flush, merge and VACUUM with no mutex |
| Flush (`weave_flush_pending`, `weave_flush_add_and_cut`) | the walked prefix of the chain | walk, build a bolt, add it and cut the list in one record | INSERTs append during the walk; the directory may be full |
| Merge (`weave_merge_segments`, `weave_merge_all`, `weave_merge_selected_ex`) | the chosen inputs as read | read, write the output, commit by content | the directory changes between read and commit |
| VACUUM (`am/amvacuum.c`) | a copy of the directory; livedocs blobs | tombstone bolt by bolt, reclaim, compact, truncate | writes the directory by position; line pointers are reused afterwards |
| Page allocator (`am/am.c` 700-1140, 3877-4216) | FSM, allocation scope, freed-page xids | allocate, free, recycle | a stale scan may still walk a freed page |
| Reclaim (`weave_reclaim_unreachable`) | reachability map, fence LSN | free what a crash stranded | a writer's unpublished pages look stranded too |
| Scans (`am/amscan.c`) | a metapage copy and its generation | collect, re-check the generation, restart or give up with 40001 | the pages it walks may be freed and recycled |
| Bitmap scan and its evaluation (`am/amscan.c` `weave_getbitmap`, `weave_collect_matches`, `query/match.c`) | sets of line pointers per bolt, recheck flag | dictionary walk, positions, grams, docvalues, boolean sets | many paths, one answer: that of `weave_doc_matches()` |
| Ordered scan (`weave_gettuple`, `weave_search`, `weave_fuse_search`) | width, candidates, seen set, padding | a ladder of passes, each wider than the last | rows move, appear and die between two passes |
| Count pushdown (`weave_count_*`) | metapage statistics | answer count(*) from the dictionary when gates allow | must equal the row-by-row answer |
| Top-k scorers (`weave_search_bmw`, `weave_search_maxscore`, `am/fuse.c`, `vector/vecshuttle.c`) | cursors, heap, threshold | skip what a bound says cannot matter | a bound that is not an upper bound loses a result |
| Dictionary lookups (`am/amscan.c`, `uleven.h`, `pages/trgm_page.c`) | pages of terms, block index, trigram weft | exact, prefix, fuzzy, regular expression | skips whole pages and subtrees |
| Postings and lengths (`am/ambuild.c`, `am/am.c`, `for.h`) | blocks shared by several terms | write, read, merge | lossy lengths, positions that do not fit |
| Merge policy, parallel merge (`am/ambuild.c` 4390-5445) | a copy of the directory, a skip list, groups and workers | plan, merge, publish, again | each pass changes what it plans over |
| Vector channel (`vector/`) | quantised lanes, page bounds | build, scan, re-rank | bounds and maps from lanes to documents |
| `util/sparsemap.c` | compressed bitmap: tombstones, filters, gram postings | insert, remove, look up, combine | forms change under cursors, buffers fill up |
| `am/amcheck.c` | reachability marks | `weave_check()`, `weave_page_info()` | read only |
| Pattern cache (`query/pattern_cache.c`) | 32 slots, LRU clock, pin counts | look up, pin, evict, release | walks nest, handles are addresses that malloc reuses |

How they interact.  Block 0, the metapage, is the only shared structure that
everything goes through.  An INSERT appends to the pending list or, for a row
too large for a page, publishes a bolt of its own.  A flush turns the pending
list into a bolt; a merge replaces bolts by one; VACUUM flushes, tombstones the
dead rows bolt by bolt, merges, and reclaims pages.  Flush, merge and VACUUM
exclude each other by a heavyweight lock, the maintenance mutex; INSERTs do not
take it unless the directory is full.  A second heavyweight lock, the
segment-write lock, is held in share mode by whoever writes pages that no
structure reaches yet, and taken exclusively for an instant (the barrier) by a
VACUUM about to look for stranded pages.  Scans take neither: they copy the
metapage and read on without a lock, and compare the directory generation at
the end with the one they began with.

## 2. The modules

| Module | Models | Uses |
|---|---|---|
| `WeaveDirectory` | how a merge rewrites `segs[]` (operators) | |
| `WeaveContents` | what the index promises: a set of entries | |
| `WeaveIndex` | rows, bolt directory, pending list, generation, maintenance mutex; INSERT, flush, merge, VACUUM, errors, crashes | `WeaveDirectory`, `WeaveContents` (refinement) |
| `WeaveStats` | the metapage counters on the same records | `WeaveIndex` |
| `WeaveScan` | one scan of any kind beside those writers | `WeaveIndex` |
| `WeavePages` | pages: allocation, free space map, frees, the recycle gate, reclaim, truncation, the two locks | |
| `WeaveMerge` | which bolts a merge takes, what it writes, how the loops end; the parallel merge | `WeaveDirectory` |
| `WeavePostings` | postings and document lengths as written, read and merged (operators) | |
| `WeaveTopK` | block-max WAND, MaxScore, the fused scorer, the vector block scan | `WeavePostings` |
| `WeaveDict` | the dictionary of a bolt and its lookups (operators) | |
| `WeaveQuery` | the matcher, the bitmap scan of a query, a LIKE pattern or docvalue conditions | `WeaveDict`, `WeavePostings` |
| `WeaveRank` | the ordered scan, its padding, and the two search functions | |
| `WeaveBitset` | what a bitmap promises: a set of indices | |
| `WeaveSparsemap` | the compressed bitmap that keeps the promise | `WeaveBitset` (refinement) |
| `WeaveCache` | the per-session cache of compiled patterns | |
| `WeaveDirectoryProofs` | TLAPS proofs: the directory rewrite, and counting | `WeaveDirectory` |
| `WeaveIndexProofs`, `WeaveStatsProofs`, `WeaveScanProofs`, `WeavePagesProofs`, `WeaveMergeProofs`, `WeaveRankProofs`, `WeaveCacheProofs` | TLAPS proofs | the module they are about; all but the pages' and the cache's use `WeaveDirectoryProofs`, the counters' and the scan's also `WeaveIndexProofs` |
| `MC*` | symmetry and the inputs TLC starts from; the `.cfg` files give the constants | |

Definitions carry the name of the C function they translate; `PROJECT.json`
maps each to its lines.  In front of some definitions stands a "faulty
variant": a plausible mistake in that piece of code.  No specification uses
them; `PROJECT.json` says which property notices which mistake.

The modules meet at stated seams.  `WeaveIndex` says which documents a bolt
holds, `WeavePages` whose page is whose, `WeaveMerge` which bolts are merged and
that the loops end; in `WeaveIndex` a merge may take any selection, so what
holds there holds for this policy.  `WeaveScan` checks the generation bracket of
every pass; `WeaveQuery` and `WeaveRank` rely on it and model what is inside:
the first the evaluation bolt by bolt, the second a pass as one step.  The
candidates of a pass are an exact top in `WeaveRank`; whether they are is the
subject of `WeaveTopK`.

### WeaveIndex

A document is an *entry*: the line pointer, the number of the row it carried
(`inc`), and whether the document is NULL.  A bolt is a set of entries with a
set of tombstoned line pointers and an identity (the code recognises a bolt by
its `dictstart`).  The heap side is the executor's and VACUUM's protocol with an
index: a row is inserted and then indexed (`busy`, `indexed`), becomes `live`
or `dead`, and its line pointer is `unused` again only after VACUUM's second
heap pass.  This side is external to the repository and modelled from the
callbacks the code receives.

Each WAL record is one step, and so is each read under a buffer lock.  Between
the steps anything else may happen.

| Action | Code |
|---|---|
| `weave_insert` | append to the pending list, `ambuild.c` |
| `weave_meta_add_segment`, `weave_add_segment_with_room` | an oversized row's bolt; merge and retry on a full directory |
| `weave_flush_pending`, `weave_flush_add_and_cut` | the walk, then bolt and cut in one record |
| `weave_merge_selected`, `weave_merge_commit` | inputs as read, then the commit that finds them by content |
| `weave_small_runs_merge` | the INSERT that finds many small bolts and gets the mutex without waiting |
| `weave_bulkdelete`, `weave_bulkdelete_swap` | the directory copy, then one record per bolt, by position |
| `Abandon`, `Crash` | an error in one session; a crash with WAL replay |

`WeaveContents` is the same index seen from outside: a set of entries.  An entry
enters with its row's index insert, leaves by `Remove`, which takes out entries
of dead rows only, and a line pointer is freed (`Free`) when no entry is left for
it.  `ImplementsContents` maps that set to what a scan would meet in the bolts and
on the list.  Under the map a flush, a merge, a wait, a failed statement and a
crash do nothing to the set, and a tombstone swap is a `Remove`.

### WeaveScan

A scan is a short program over a stale copy.  What a read returns through a
descriptor that is no longer in the directory is a choice: a freed page ends
the chain, so any part of what was there may be missing.  That it is never
*something else* rests on the recycle gate, which is `ScanUndisturbed` of
`WeavePages`.  A livedocs blob whose chain was freed is different: the buffer it
is read into is not initialised, so it may hold any tombstones, or fail to open.
The six passes differ in whether they read the generation before the copy or
with it, in whether the pending list comes from the same copy, in what they do
with an unreadable store, and in what a moved generation leads to.  The query is
one every non-NULL document satisfies.

### WeavePages

One page per bolt and per step of the pending list.  The free space map is a
set that may hold anything after a crash.  The recycle gate (`hold`) is the set
of scans whose snapshot is older than the page's free stamp, which is what the
comparison of the stamp with the global xmin horizon decides.  The LSN fence is
the set of pages written since the running VACUUM took it.

### WeaveMerge

A bolt is what its wefts say of its documents: which are there, which are
tombstoned, which have a vector lane of which geometry, which have grams, which
the document list names; it may be damaged, and its vector weft may not open
(geometry "torn").  A document is a pair of its bolt's identity and a number,
except one, `Reused`: a line pointer that one bolt has tombstoned and another
carries again for a later row.  A statement (`job`) is a build's
end, a leveled merge, a full merge, or a full merge with workers.  Each loop
copies the directory (`weave_merge_plan`), merges what it chose
(`weave_merge_selected`, the descriptors read again), commits
(`weave_merge_commit`), and marks what it cannot read (`SkipDamaged`); the
parallel pass hands out groups, whose workers report in any order or not at all,
and publishes in one record.  INSERTs append bolts between any two steps.

### WeavePostings, WeaveTopK

`WeavePostings` holds operators: `weave_write_posting_list` cuts a term's
postings into blocks that share pages with other terms, `weave_doclen_to_byte`
loses the low bits of a length, and `weave_merge_segments_streaming` drops each
input's tombstones.  `WeaveTopK` starts from a corpus written with them and runs
one of four scorers, a step per iteration of its loop: a block skip, a seek, a
score.  The score keeps what the bounds rest on: it grows with the term
frequency and falls with the length.  `FuseStop`, `FusePivot`, `FuseBlockSkip`
and `FuseScore` are the paths through `weave_fuse_run()`; `VecBlock` is a block
of lanes with its threshold carried from bolt to bolt.

### WeaveDict, WeaveQuery

`WeaveDict` cuts a bolt's terms into pages with a block index and models the
lookups: binary search and walk, the prefix range, the Levenshtein automaton
that skips to the next term it can accept (`weave_dictvocab_skip`,
`Successor`), and the trigram funnel with the number of grams a term within `k`
edits must share.  Strings are short sequences over two bytes and grams have two
bytes, so that the boundaries are met.  A regular expression is what it matches
and the CNF its extractor claims; the narrowing is used only where the claim may
be (`Narrows`).

In `WeaveQuery`, `weave_doc_matches` is the matcher over the postfix query.  The
bitmap scan beside it reads the metapage (`ReadMeta`), collects from each bolt
by the path the query allows (`CollectFuzzyRegex`, `CollectPhrase` with its fall
back to the boolean path, `CollectEval` with sets and De Morgan complements),
then the pending list (`CollectPending`), then checks the generation
(`Finish`, `Retry`, `weave_scan_raced_out`).  `Cgram*` is the LIKE pass,
`Gate*` the docvalue conditions.  `Merge` and `Flush` move the directory at any
step; a bolt of a directory that has moved is read whole or not at all.

### WeaveRank

`so` is the scan's opaque state: width, candidates, seen set, frontier, gate,
padding.  `OrderInit` fixes the most hits a scan can have, `weave_ord_probe`
keeps what the snapshot sees, `weave_gettuple` hands out, `Grow` makes a wider
pass or proves there is none (`weave_ord_grow`, `weave_vec_grow`,
`weave_edist_grow`, `weave_fuse_grow`), `PadBegin` and `PadNulls` deliver what
the ranking left out, `weave_rescan` keeps and forgets what the code does.
`weave_topk_visible` and `weave_fuse_search` are the function forms.  Other
sessions insert, flush, tombstone and merge between two steps.

A start is a heap, an index and the scan's keys; `RankStarts` says which there
can be: the index lists every row its predicate admits, before version 12 all
but the NULL documents, a row inserted during the scan is invisible to its
snapshot.  No kind of scan, query or channel is left out, and every scan runs beside
inserts: where the code's ladder stops too early the model's does.  `short` is a
history variable: it says that the scan's pass was cut off while more rows could rank
than `maxhits` counts.  `DictHits` is the dictionaries' share of that count.  `INF` is
a distance past every ranked one.

### WeaveSparsemap and WeaveBitset

A map is small (a few words) or a sequence of sparse and run-length chunks; the
bits of a chunk are a set, its size in words is what the form costs.  Inserting
may split, coalesce or convert chunks, promote or demote the map, or fail for
want of room; the operators bear the names of the code's helpers.
`ImplementsSet` is the refinement: with `members` as the union of the chunks'
bits, every step of `WeaveSparsemap` is a step of `WeaveBitset` -- an update
does to the set what its caller asked or changes nothing and says so, and a
trip through storage and `sm_open()` loses nothing.

### WeaveCache

Handles are addresses.  A lookup compiles first and evicts afterwards, so the
new handle's address differs from every allocated one, and only from those.
Out of memory is modelled in the two places where it leaves a trace: after
`evict_slot()` and between the pinned lookup and `PG_TRY` in
`weave_regex_terms()`.

## 3. What is checked

| Run | Instance | Shows |
|---|---|---|
| `index` | 2 line pointers, 2 sessions, 2 bolts, 2 rows per line pointer | no row lost, kept after its death, or indexed twice; merges and tombstones hit their bolts; a change of the directory or a cut of the list moves the generation; `npending` and `ndocs` are exact; the index implements a set of entries (`NoRowLost`, `NoStaleEntry`, `NoRowTwice`, `MergeInputsStay`, `SwapHitsItsBolt`, `GenerationMoves`, `PendingCounted`, `CorpusCounted`, `ImplementsContents`) |
| `index_live` | 1 line pointer carrying 3 rows in turn, 2 sessions, 2 bolts, fairness | `MutexGranted`, `DeadRowReclaimed` |
| `pages` | 3 blocks, 2 sessions, 1 scan, 2 bolts | `NoPageStolen`, `ScanUndisturbed` |
| `pages_live` | 2 blocks, every state a crash may leave, a directory of 1 bolt, fairness | `StrandedReturns`, `SessionEnds` |
| `scan` | 1 line pointer carrying 2 rows, NULL or not, 1 retry, six passes | `ScanExact`, `NonzeroCountExact`, `StoreAlarmTrue` (1.8 million states) |
| `merge` | some 200 directories of 3 and 4 bolts of ten kinds, 1 arrival, 2 workers | `DocsKept`, `WeftsCover`, `FreedOnce`, `Converged`, `RoomMade`, `MergeEnds` |
| `sparsemap` | chunks of 4 indices, 9 indices, a buffer of 6 words that fills up or grows | `ImplementsSet`, `Valid`, `AnswersExact` (reads and set operations), `CursorExact` |
| `topk` | some thirteen thousand corpora of at most 5 documents, blocks of 2 postings | `ScoresTrue`, `CompleteBelowK`, `FuseExact`, `VecExact`, `LexExact`, `AlwaysForward` |
| `query` | three hundred conditions over indexes of 2 bolts and a pending list, 2 moves, 1 retry | `QueryExact` (342,150 states) |
| `rank` | heaps of 6 rows, 3 placements, every combination of keys, 2 moves | `RankOrdered`, `RankComplete`, `HitsBounded` (1.8 million states) |
| `cache` | 2 slots, 3 patterns, 4 addresses, 3 walks, 5 cached lookups | `HandleValid`, `PinsHeld` |
| `recently_dead` | one bolt built with a recently dead row | violates `QueryExact` (section 5) |

**Short ladders.**  `RankOrdered` and `RankComplete` say what holds of every scan, those
whose ladder `maxhits` ended short included.  Such a scan still hands out each row once,
due and in order; but a row whose rank it has missed (`Overlooked`) comes with the
padding, or not at all where the scan has none.  A fused order behind a negation misses
rows in the same way when the index has no document lists (`WithoutList`, G78).
`HitsBounded` says when a ladder can be short: where `maxhits` counts what the
channels rank (`UnionCounted`), the rows that were in the index at the start never
exceed it, so it takes an insert.

**Bounds.**  Two line pointers that carry two rows each are enough for a row to
be deleted, tombstoned, freed and replaced while another stays; two bolts fill
the directory, so that flush and INSERT meet the full directory, merge and try
again (in `index_live` the third row of the one line pointer meets it); two sessions are a holder and a waiter.  `MaxBolts` stops VACUUM from
rewriting a lone bolt for ever, a step that does nothing but raise the number
that names the next bolt.  The generation counts modulo 2 in `index`, so that it
wraps; in `scan` it counts modulo 3, and `GenerationApart` says that it does not
come round to the same value under one pass, which in the code would take 2^32
changes.  `index` has no NULL documents, for with them `CorpusCounted` fails
(section 5); `scan` has them.  `scan` has one line pointer: what is lost or
misattributed is one row, and bolts and pending list are two places for it; its
`MaxBolts` is 1, so no lone bolt is rewritten beside it, which to a scan is what a
merge of two bolts is.
`pages` needs three blocks for two bolts and one being written.  `pages_live`
has a directory of one bolt, so that with two blocks it is full while another
bolt is being written: that is when an INSERT waits for the mutex with the
segment-write lock in its hand.

`merge` scales the fanout to 3, the threshold to 2 and the levels to 2; four
bolts then make a directory that is full, and three of a size a level that is.
The ten kinds are plain bolts of two sizes, one with tombstones, one that carries
the reused line pointer, two geometries and a torn one, grams, and two kinds of
damage; `KindAssumption` says what directories a run may start from: one bolt at
most has the reused line pointer alive, and what an INSERT appends has no
tombstones.
`sparsemap` scales a vector to 2 bits and a chunk to 2 vectors, so that three
chunks, runs that span them and a partial last chunk fit 9 indices.  In `topk`
blocks hold 2 postings and documents are at most 5, so a list has two blocks or
three; `MantissaBits = 0` makes lengths as lossy as they can be; in `LexExact`
`loose` is history: a scan is loose once it has skipped past a document that a lagging
cursor has in a later block, or has left out cursors that could beat the heap by
themselves (section 5).  A scan that is not is exact, over one block or several, under
block-max WAND and, from `WandCutoff` cursors on, under MaxScore.  `query` has two
kinds of byte, terms of at most four bytes, dictionary pages of 2 terms and a
position buffer of 2; indexes without trigram wefts are of one shape only, for phrases and
sets do not read them.  `rank` starts from width 1, doubles it, and stops at 4, so
the ladder has three rungs over six rows, one of them inserted late.  The starts
include a fused order with an AND and heaps most of whose documents are NULL, and rows
are inserted, flushed, merged and vacuumed between any two passes.  In `cache` two slots and
three walks reach the state where every slot is pinned; `MaxClock` bounds the
lookups.

Runs that do not check for deadlock: `cache` stops when the clock is used up;
`pages_live` can reach states where the file cannot grow and nobody can go on
but by failing, and a state where everyone waits is what `SessionEnds` itself
excludes; `query`, `recently_dead` and `rank` end when the scan has ended.

**Fairness.**  A session that can take a step takes it: weak fairness of the
session's steps, in `WeaveMerge` also of the workers'.  The lock manager queues
requests, so a waiter is not overtaken for ever: strong fairness of taking the
mutex.  Autovacuum comes back: strong fairness of starting VACUUM.  A merge loop
over a full directory finds two bolts to merge (the code has more slots than
size levels) and passes are bounded in number: strong fairness of that merge in
`WeaveIndex`, of the loop's end in `WeavePages` -- what `WeaveMerge` shows of the
loops themselves.  Scans end.  The liveness specifications of `WeaveIndex` and
`WeavePages` have no errors and no crashes; `pages_live` starts from what a crash
may leave.  That scans go forward (`AlwaysForward`) is an action property and
needs no fairness.

## 4. What is proved

All theorems hold for every value of the constants that the named assumptions of
the modules allow: any number of rows, sessions, bolts, pages, scans and slots,
any capacity, modulus, fanout and threshold.

**The index** (`WeaveIndexProofs`)

| Theorem | States |
|---|---|
| `TypeCorrect` | `Spec => []TypeOK` |
| `RowsAreKept` | `Spec => []NoRowLost` |
| `EntriesAreCurrent` | `Spec => []NoStaleEntry` |
| `RowsAreUnique` | `Spec => []NoRowTwice` |
| `TombstonesHitTheirBolt` | `Spec => []SwapHitsItsBolt` |
| `MergesFindTheirInputs` | `Spec => []MergeInputsStay` |
| `GenerationTells` | `Spec => GenerationMoves` |
| `IndexImplementsContents` | `Spec => ImplementsContents` |
| `DocumentsAreFinite` | bolts and lists are finite sets, so that they can be counted |

The inductive invariant `IInv` has three layers.  *Control*: who is where holds the
mutex, which statement a session runs, and that one VACUUM runs at a time.
*Plan*: what a session has read is still true when it uses it -- the flush's
walked prefix is a prefix of the list, the merge's inputs and bulkdelete's copy
are in the directory with their identities distinct and older than the next one
-- and, once bulkdelete has flushed, no dead row it collected is on the list.
*Rows*: every row is indexed once, in one place, and every entry stands for the
row now at its line pointer.  `NoRowLost` alone is not inductive: a flush that
cuts the list drops rows unless its bolt holds exactly the walked prefix, and
that prefix stays one only because nothing else cuts the list under the mutex.
`NoStaleEntry` needs that a collected dead row can no longer be on the pending
list when its line pointer is freed, which is why bulkdelete flushes first.

The refinement `IndexImplementsContents` is a step simulation from `IInv`: the cut
of the list takes off what the new bolt brings (`CutInv`), a merge's output has the
live documents of its inputs (`MergeLive`), a swap takes off entries of the dead
set only, whose rows are still dead (`DeadInv`), and when a line pointer is freed
neither list nor bolt has an entry for it (`PendClean`, `SegsClean`).

**The directory rewrite** (`WeaveDirectoryProofs`).  `RewrittenFacts`: for every
directory, set of positions and new bolts, `Rewritten` is a sequence in which each
bolt that stays occurs once, in the order of its position, then the new ones.  The
crux is that `KeptPos` counts a bijection between the positions that stay and an
initial segment.  Its counting lemmas serve the other proofs.

**The counters** (`WeaveStatsProofs`).  `StatsRefineIndex` (`StatsSpec => Spec`),
`PendingIsCounted` and `CorpusIsCounted` (`PendingCounted`, `CorpusCounted`), the
latter assuming `TRUE \notin NullFlags`, for with NULL documents it is false
(section 5).  `CorpusIsCovered` is what remains true then: `ndocs` is never *less*
than the documents the index holds.  The invariant adds to `IInv` that the sets counted
are finite and that a NULL-free heap makes a NULL-free list.  A tombstone swap
recomputes `ndocs` from the directory's totals; that this is the number of live
documents needs `NoRowTwice`, for a document in two bolts would be counted twice.

**Scans** (`WeaveScanProofs`), for `ScanSpec`.  `ScanRefinesIndex`: a scan changes
nothing of the index, so every invariant of the index holds beside it.
`ScansAreExact`, `CountsAreExact` and `AlarmsAreTrue` state `ScanExact`,
`NonzeroCountExact` and `StoreAlarmTrue`.  `ScanSpec` itself contains two conditions
on the writers: the rows of the scan's snapshot are not removed under it
(`SnapshotHeld`, VACUUM's horizon), and a generation that has moved does not come
back under one pass (`GenerationApart`).  The invariant says what an *unmoved*
generation is worth, place by place: the copied directory is the directory and the
copied list begins the list, the tombstones read are those of the copied bolts,
every bolt passed has given all it had, and what was collected for a line pointer
of the snapshot is the snapshot's row.  All of it is conditional on
`gen = sgen`; that a step which falsifies a part also moves the generation is
`GenerationTells`.  For counts the sum of the dictionaries of the bolts passed is
the cardinality of a union of disjoint sets, since the gates let no tombstone pass.

**Pages** (`WeavePagesProofs`).  `PagesAreNotStolen` and `ScansAreUndisturbed` state
`NoPageStolen` and `ScanUndisturbed`, with no assumption on the content of the free
space map.  The invariant: the two locks (`LockInv`); which session has an unlinked
page (`WorkInv`); that what a session has read to free is still linked, and what it
has unlinked is nobody's (`OldInv`); that past the barrier every page about to be linked is newer
than the fence, and every linked page the reachability map lacks is too
(`FenceInv`) -- which is why the fence has to be taken before the barrier waits; and
that a running scan's pages are as it found them, or freed with a stamp that its
snapshot holds back (`SnapInv`).

**Merging** (`WeaveMergeProofs`).  `DocsAreKept`, `WeftsStayComplete`,
`BoltsAreFreedOnce`, `LoopsConverge` and `RoomIsMade` state `DocsKept`, `WeftsCover`,
`FreedOnce`, `Converged` and `RoomMade`; `MergeInvariance` the invariant:

* `DirInv`: the bolts' names are distinct, older than the next and not among the
  freed; a document's name tells the bolt it came with; what is owed of each
  document is paid by a bolt, and nothing else is live; a complete list is complete;
* `LoopInv`: the plan, the selection and the inputs as read are still those of the
  directory, and the inputs agree in geometry and grams;
* `ParInv`: the same for the groups of the parallel pass, which are disjoint;
* `PaceInv`: in an undisturbed loop `guard + Len(segs) <= MaxSegments + |skip|` --
  each pass takes a bolt off the directory or remembers one more as damaged.

`LoopsConverge` is the last one read at the guard's limit: a loop whose guard ran out
would have every bolt but one marked damaged, so there is nothing left to merge.
`RoomIsMade` is a pigeonhole: when the leveled policy finds no target and the directory
is above the threshold, no level has two of its bolts.

**The pattern cache** (`WeaveCacheProofs`).  `CacheTypeCorrect`, `HandlesStayValid`
and `PinsAreHeld` (type correctness, `HandleValid`, `PinsHeld`).  The invariant adds to the
properties that two walks share a handle only while a slot holds it; otherwise the
first to end would free it under the second.

**Ordered scans** (`WeaveRankProofs`).  `RanksAreOrdered`, `RanksAreComplete` and
`HitsStayBounded` state `RankOrdered`, `RankComplete` and `HitsBounded`, for every heap,
index, set of keys, width and number of moves; `RankInvariance` the invariant.
`RankBounds` and `RankStarts` say no more than that the constants are numbers and the
starts are ones the program can be in: inserts run beside every order, and no query or
combination of channels is left out.  What the theorems say is therefore what is true of
the code as it is, short ladders included (section 3).
`RankOrdered` is not inductive: that the next row is no nearer than the last rests on
what the ladder has seen.  The invariant has a part for each stage of a scan:

* `PassInv`, `LadderInv`: the candidates are in order and eligible; what was taken
  comes before what is left of the pass, and both before what no pass has reached; and
  a ladder that may stop (`GrowProves`) has reached everything unless it is short;
* `HitsInv`: the most hits, computed once, stay at least the rows found that were there
  at the start, where the channels are counted one by one -- only rows inserted since can
  make a ladder short then;
* `GateInv`: the gate of a pass keeps no row of the WHERE clause out, lets no other
  through where rows are not rechecked, and when the padding may walk it has every row
  that is due;
* `GivenInv`, `PadInv`: a row that is due has been given, is set aside for the end, or
  is still to be visited, exactly once;
* `FuseInv`: only the last row of `weave_fuse_search()` may lie past the ranking.

The lemmas state what each kind of pass delivers (`LexPass`, `VecPass`, `EdistPass`,
`FusePass`): a front of what is eligible, and all of it when it says so.  The crux of
the first two and the last is `CutOff`: a list that is full keeps out only rows behind all it
holds, so merging pending rows into it keeps the front -- if pending rows past the
worst hit wait, which is what `weave_vec_pass` and `weave_fuse_pass` do.  `TopkAnswer`
is the same for `weave_topk_visible()`.  Sorting is proved once (`SortPositions`:
counting what lies below numbers a finite set without gaps).

**Only model-checked.**  The liveness properties `MutexGranted`, `DeadRowReclaimed`,
`StrandedReturns`, `SessionEnds` and `MergeEnds` (fairness and `ENABLED` are beyond
the prover); `WeaveSparsemap`, whose chunk operators are recursive; and
`WeaveTopK` and `WeaveQuery`, which compute with folds over sequences, where what would
have to be proved first is an induction over data.

## 5. Where the code and its comments disagree

**`recently_dead`** is a run.  `weave_decode_term()` (`am/am.c:318`) cuts a
term's document frequency to the documents the index counts, so as not to
believe a damaged dictionary; the comment above it says that no term can be in
more.  `weave_build_callback()` (`am/ambuild.c:1127`) indexes a recently dead row
and does not count it, on purpose (its comment at 1118).  So a sound frequency can be
above the cut, and then the last postings of the term, those of live rows, are
not read; a merge that reads them that way writes the loss down.

The following were found while modelling; for each, the runs are arranged so
that the shape in question does not occur, or the model has the code's behaviour
and the property is stated around it.

*Counters and counts*
* bulkdelete recomputes the corpus size as the directory's total plus `npending`
  (`am/amvacuum.c:1182`), which counts a NULL document on the list;
  `am/ambuild.c:6420` and `doc/specs/SEGMENT_FORMAT.md:575` say it is not one.
  With `NullFlags = {FALSE, TRUE}` run `index` violates `CorpusCounted`; the count
  is then too high and never too low (`CorpusIsCovered`).
* `sumdoclen` is never reduced, so after a VACUUM it is not the total of
  `doc/specs/SEGMENT_FORMAT.md:188`.
* The count fast path returns a zero sum before the generation re-check
  (`am/amscan.c:12275`) that the comment at 12204 promises; dictionaries freed
  since the copy give a zero for a term that has rows.  `NonzeroCountExact`
  leaves zero out.

*Alarms*
* `weave_tombstones_load()` reports corruption when the blob of a stale copy does
  not open (`am/amscan.c:661`); the docvalues pass asks the generation first
  (compare `am/amscan.c:1461`).  The gram pass likewise raises "corrupt cgram weft"
  without asking (`am/amscan.c:6326`).
* A walk that cannot allocate its term buffer (`am/amscan.c:2545`, before
  `PG_TRY`) leaves its slot pinned for the session, which is why `PinsHeld` is an
  inequality.

*Ranking*.  The first three end a ladder short: in `rank` without `Overlooked`,
`RankOrdered` fails by each.  Without `~loose`, `LexExact` fails by the last two.

* The most hits a lexical or fused scan can have is computed once
  (`am/amscan.c:4714`) and ends the widening (9337, 11871), though the passes read
  the index anew; rows inserted meanwhile fill the places of others.  The comment
  at 9306 argues from a fixed corpus.
* For a fused order over lexical terms only, with an AND key, that number is the
  minimum of the terms' (4628) though the channels rank the union.
* For two vector channels it is `2 * N` (4631) with `N` leaving NULL documents
  out, which the vector channels rank; with more NULL documents than others the
  ladder stops too early.
* Block-max WAND sums the bounds of the blocks its cursors stand in
  (`am/amscan.c:8281`).  A cursor that lags stands in an earlier block than the
  pivot's, whose bound may be lower; then the pivot is skipped.  The comment at
  8306 takes the blocks to be the pivot's.
* MaxScore decides which cursors are essential from `suffix[first_essential + 1]`
  (`am/amscan.c:8494`), the sum of the cursors *after* the boundary, where the
  comment at 8488 says the sum of the prefix before it.  That sum falls as the boundary
  moves, so when the test holds once it holds for all, and the scan ends.

*Queries*
* A positional phrase pass that does *not* go back to the boolean path frees `ptids`
  when it has copied its rows (`am/amscan.c:5676`) and keeps the pointer; when the pass
  turns out to be raced, the cleanup frees it again (5787).  A pass that does go back
  sets the pointer to NULL (5615).  The model lets a scan that frees twice end without
  an answer (`phase = "crash"`), and `QueryExact` says that no other scan does.
* `phrase_step` in `query/match.c`: a prefix that is not the last of three or more
  terms of a phrase never matches.  Scan and matcher agree on it.
* `weave_universe_bounded()` leaves empty documents out of a negation, as the
  repository's gap list says (G78).

*sparsemap*
* `__sm_map_unset()` (`util/sparsemap.c:4981`): removing the only bit of a sparse
  chunk drops the chunk and then coalesces at its place with the old start,
  which spoils the neighbour.  No caller in the index removes single bits;
  `sm_remove` has the guard `~LoneBit(i)`.

Comments at `am/amscan.c:11779` and `12063` still describe a flush of two
records; it is one.

## 6. What is not modelled

* The parser, the analysis of text by the server's parsers and dictionaries, the
  images of documents: characters and bytes, not states.
* `query/regex_grammar.c` is a generated parser, and `query/re_match.c` drives a
  vendored engine; a pattern is what it matches.
* Planner paths, custom scans, costing: they choose among the scans that are
  modelled.
* The SuRF trie: only the statistics function consults it (`am/amsize.c:318`).
* Floating point: quantisation, vector kernels, BM25 itself; scores are integers
  that keep the monotonicity the bounds rest on.
* The bit packing of postings and docvalues (lossless), `sm_split()`, `sm_span()`
  and `sm_scan()`.
* The pages of tombstone blobs in `WeavePages`; `weave_vacuum()`, which runs
  under AccessExclusiveLock and recycles without the gate; the reads of freed
  weft pages by the channel-description functions.
* The parallel heap scan of CREATE INDEX, which runs alone on its index; upcasts
  of older metapage versions.
* The reporting of `am/amcheck.c` and the statistics functions, which change
  nothing; benchmarks, tests, SQL scripts.

## 7. Plan

Done: the modules of section 2, the runs of section 3, and proofs of every safety
property of the index, its counters, its scans, its pages, merging, ordered scans and
the pattern cache.  Left:

1. Proofs about the scorers of `WeaveTopK` (`CompleteBelowK`, `FuseExact`): invariants
   of one scan over a fixed corpus -- what has been skipped cannot be in the result --
   over the folds that sum the bounds; with induction on sets instead of on an
   operator for the sums.
2. The resident cache of SuRF images, once a scan consults it.
