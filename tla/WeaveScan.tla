----------------------------- MODULE WeaveScan -----------------------------
(***************************************************************************)
(* One index scan beside the writers of WeaveIndex.  A scan copies the     *)
(* metapage and then reads bolts, tombstone blobs and the pending list     *)
(* with no lock that would stop a flush, a merge or a VACUUM from          *)
(* replacing them; what it relies on is the directory generation, read at  *)
(* the start and again at the end, and on the horizon that keeps a freed   *)
(* page from being reused under it (WeavePages, ScanUndisturbed).          *)
(*                                                                         *)
(* The query is one every document with a document value satisfies, so     *)
(* what a scan owes is every row its snapshot sees.  A read through a      *)
(* descriptor whose pages were freed stops anywhere in the chain: it may   *)
(* return any part of what was there.                                      *)
(***************************************************************************)
EXTENDS WeaveIndex

CONSTANTS
    Passes,        \* the kinds of scan to run
    MaxRetries     \* pg_weave.scan_race_retries

ASSUME PassAssumption ==
    Passes \subseteq {"lexical", "docvals", "ranked", "vector", "cgram", "count"}
ASSUME RetryAssumption == MaxRetries \in Nat

VARIABLES
    spc,      \* where the scan is
    pass,     \* the kind of scan
    seen,     \* the rows its snapshot sees
    sgen,     \* gen0
    mdir,     \* segs[] of its metapage copy
    mpend,    \* the pending list as of its metapage copy
    tomb,     \* the tombstones it loaded, one set per bolt of the copy
    spos,     \* the next bolt to read
    got,      \* the entries collected so far
    sumdf,    \* the count fast path's sum of document frequencies
    sretry    \* gen_retries

scanVars == <<spc, pass, seen, sgen, mdir, mpend, tomb, spos, got, sumdf, sretry>>
copyVars == <<sgen, mdir, mpend>>
readVars == <<tomb, spos, got, sumdf>>
allVars == <<vars, scanVars>>

-----------------------------------------------------------------------------
\* The entries of D the scan looks for: a NULL document matches no text query, but
\* it has a docvalue, a vector lane and grams.
Hits(D) == IF pass \in {"lexical", "ranked", "count"} THEN {e \in D : ~e.nul} ELSE D

\* The passes that read the generation before they copy the metapage.
GenerationFirst == {"ranked", "vector", "cgram"}

FirstStep(p) == IF p \in GenerationFirst THEN "generation" ELSE "meta"

\* The pages of the copied bolt i are still the bolt's.
BoltKept(i) == \E j \in DOMAIN segs : segs[j].id = mdir[i].id

\* So is its tombstone blob: every swap writes a new one and frees the old.
BlobKept(i) == gen = sgen /\ \E j \in DOMAIN segs : segs[j] = mdir[i]

\* The copied pendinghead still heads the list: nothing was cut since.
ListKept == Len(mpend) <= Len(pend) /\ SubSeq(pend, 1, Len(mpend)) = mpend

Items(s) == {s[i] : i \in DOMAIN s}

-----------------------------------------------------------------------------
ScanInit ==
    /\ Init
    /\ spc = "none" /\ pass = "lexical" /\ seen = {}
    /\ sgen = 0 /\ mdir = << >> /\ mpend = << >>
    /\ tomb = << >> /\ spos = 1 /\ got = {} /\ sumdf = 0
    /\ sretry = 0

\* The scan and its snapshot are gone.
ScanReset ==
    /\ spc' = "none" /\ pass' = "lexical" /\ seen' = {}
    /\ sgen' = 0 /\ mdir' = << >> /\ mpend' = << >>
    /\ tomb' = << >> /\ spos' = 1 /\ got' = {} /\ sumdf' = 0
    /\ sretry' = 0

\* weave_beginscan(), under a snapshot that sees every committed row.
weave_beginscan(p) ==
    /\ spc = "none"
    /\ spc' = FirstStep(p)
    /\ pass' = p
    /\ seen' = {EntryOf(t) : t \in {u \in Tids : st[u] = "live"}}
    /\ UNCHANGED <<copyVars, readVars, sretry>>

\* weave_endscan(): after its answer or its error, or on a cancel.
weave_endscan ==
    /\ spc # "none"
    /\ ScanReset

weave_read_meta_generation ==
    /\ spc = "generation"
    /\ sgen' = gen
    /\ spc' = "meta"
    /\ UNCHANGED <<pass, seen, mdir, mpend, readVars, sretry>>

\* The copy of the metapage, under its share lock.
weave_read_meta ==
    /\ spc = "meta"
    /\ pass # "count"
    /\ mdir' = segs
    /\ mpend' = pend
    /\ sgen' = IF pass \in GenerationFirst THEN sgen ELSE gen
    /\ tomb' = << >>
    /\ spos' = 1
    /\ got' = {}
    /\ spc' = "tombstones"
    /\ UNCHANGED <<pass, seen, sumdf, sretry>>

\* A faulty variant of the next definition: the blobs are not read.
tombstones_ignored ==
    /\ spc = "tombstones"
    /\ tomb' = [i \in DOMAIN mdir |-> {}]
    /\ spc' = "bolts"
    /\ UNCHANGED <<pass, seen, copyVars, spos, got, sumdf, sretry>>

\* Each bolt's livedocs blob.  A blob whose chain was freed is read short, and the
\* rest of the buffer is uninitialized: if the map opens, it holds anything.
weave_tombstones_load ==
    /\ spc = "tombstones"
    /\ tomb' \in [DOMAIN mdir -> SUBSET Tids]
    /\ \A i \in DOMAIN mdir :
         (BlobKept(i) \/ mdir[i].dead = {}) => tomb'[i] = mdir[i].dead
    /\ spc' = "bolts"
    /\ UNCHANGED <<pass, seen, copyVars, spos, got, sumdf, sretry>>

\* weave_sm_open_checked() does not ask whether the generation moved.
weave_sm_open_checked ==
    /\ spc = "tombstones"
    /\ \E i \in DOMAIN mdir :
         mdir[i].dead # {} /\ \A j \in DOMAIN segs : segs[j] # mdir[i]
    /\ spc' = "corrupt_bitmap"
    /\ UNCHANGED <<pass, seen, copyVars, readVars, sretry>>

\* The pass starts again from a fresh copy, or gives up: weave_scan_raced_out().
Retry ==
    IF sretry >= MaxRetries
    THEN spc' = "raced" /\ UNCHANGED sretry
    ELSE spc' = FirstStep(pass) /\ sretry' = sretry + 1

\* One bolt of the copy, filtered by its own tombstones.
weave_collect_bolt ==
    /\ spc = "bolts"
    /\ spos <= Len(mdir)
    /\ \E X \in SUBSET Hits(mdir[spos].docs) :
         /\ BoltKept(spos) => X = Hits(mdir[spos].docs)
         /\ got' = got \cup {e \in X : e.tid \notin tomb[spos]}
    /\ spos' = spos + 1
    /\ UNCHANGED <<spc, pass, seen, copyVars, tomb, sumdf, sretry>>

\* A faulty variant of the next definition: an unreadable store is reported at once.
store_unreadable_reported ==
    /\ spc = "bolts"
    /\ pass \in {"lexical", "docvals"}
    /\ spos <= Len(mdir)
    /\ ~BoltKept(spos)
    /\ spc' = "corrupt_store"
    /\ UNCHANGED <<pass, seen, copyVars, readVars, sretry>>

\* The bolt's document list (lexical, for a NOT) or docvalues store does not read.
\* Corruption if the generation stands; else the document list counts as empty and
\* the docvalues pass starts again.
weave_store_unreadable ==
    /\ spc = "bolts"
    /\ pass \in {"lexical", "docvals"}
    /\ spos <= Len(mdir)
    /\ ~BoltKept(spos)
    /\ IF gen = sgen
       THEN spc' = "corrupt_store" /\ UNCHANGED <<sretry, spos>>
       ELSE IF pass = "lexical"
            THEN spos' = spos + 1 /\ UNCHANGED <<spc, sretry>>
            ELSE Retry /\ UNCHANGED spos
    /\ UNCHANGED <<pass, seen, copyVars, tomb, got, sumdf>>

\* After the last bolt the pending list, from the metapage copy; the ranked pass
\* copies the metapage again for it.
weave_pending_head ==
    /\ spc = "bolts"
    /\ spos > Len(mdir)
    /\ mpend' = IF pass = "ranked" THEN pend ELSE mpend
    /\ spc' = "pending"
    /\ UNCHANGED <<pass, seen, sgen, mdir, readVars, sretry>>

\* The walk of the pending pages: with an unmoved head it meets everything appended
\* so far, else it ends at the first page that is no live pending page.
weave_collect_pending ==
    /\ spc = "pending"
    /\ \E X \in SUBSET Hits(Items(mpend) \cup Items(pend)) :
         /\ mpend = << >> => X = {}
         /\ mpend # << >> /\ ListKept => X = Hits(Items(pend))
         /\ got' = got \cup X
    /\ spc' = "check"
    /\ UNCHANGED <<pass, seen, copyVars, tomb, spos, sumdf, sretry>>

\* A faulty variant of the next definition: the answer of a raced pass is kept.
check_ignored ==
    /\ spc = "check"
    /\ spc' = "answered"
    /\ UNCHANGED <<pass, seen, copyVars, readVars, sretry>>

\* The generation again.  The gram pass rechecks its candidates against the heap,
\* and on a moved generation reads the heap instead of trying again.
weave_recheck_generation ==
    /\ spc = "check"
    /\ IF pass = "cgram"
       THEN /\ spc' = "answered"
            /\ got' = IF gen = sgen THEN {e \in seen : e.tid \in TidsOf(got)} ELSE seen
            /\ UNCHANGED sretry
       ELSE /\ IF gen = sgen THEN spc' = "answered" /\ UNCHANGED sretry ELSE Retry
            /\ UNCHANGED got
    /\ UNCHANGED <<pass, seen, copyVars, tomb, spos, sumdf>>

-----------------------------------------------------------------------------
(* The count of a single term from the dictionaries alone.                 *)

\* The fast path returns -1: the lexical pass follows.
TakeFullPath == pass' = "lexical" /\ spc' = "meta"

\* Gates (2) and (3): no tombstones, no pending documents.
weave_count_gates ==
    /\ spc = "meta"
    /\ pass = "count"
    /\ IF pend = << >> /\ \A i \in DOMAIN segs : segs[i].dead = {}
       THEN spc' = "dict" /\ UNCHANGED pass
       ELSE TakeFullPath
    /\ sgen' = gen
    /\ mdir' = segs
    /\ mpend' = pend
    /\ spos' = 1
    /\ UNCHANGED <<seen, tomb, got, sumdf, sretry>>

\* weave_lookup_dict() for one bolt; a freed dictionary may end before the term.
weave_count_lookup_dict ==
    /\ spc = "dict"
    /\ spos <= Len(mdir)
    /\ LET df == Cardinality(Hits(mdir[spos].docs))
       IN  \E found \in IF BoltKept(spos) THEN {df} ELSE {0, df} : sumdf' = sumdf + found
    /\ spos' = spos + 1
    /\ UNCHANGED <<spc, pass, seen, copyVars, tomb, got, sretry>>

\* A sum of zero is returned as it is.
weave_count_zero ==
    /\ spc = "dict"
    /\ spos > Len(mdir)
    /\ sumdf = 0
    /\ spc' = "counted"
    /\ UNCHANGED <<pass, seen, copyVars, readVars, sretry>>

\* Every heap page can be marked all-visible: no row is unknown to the snapshot.
AllVisible == \A t \in Tids : st[t] = "unused" \/ (st[t] = "live" /\ EntryOf(t) \in seen)

\* A faulty variant of the next definition: the visibility map is not asked.
count_visible_assumed ==
    /\ spc = "dict"
    /\ spos > Len(mdir)
    /\ sumdf # 0
    /\ spc' = "count_check"
    /\ UNCHANGED <<pass, seen, copyVars, readVars, sretry>>

\* Gate (4): the visibility map, whose bits VACUUM may or may not have set.
weave_count_visibility ==
    /\ spc = "dict"
    /\ spos > Len(mdir)
    /\ sumdf # 0
    /\ \/ AllVisible /\ spc' = "count_check" /\ UNCHANGED <<pass, sumdf>>
       \/ TakeFullPath /\ sumdf' = 0
    /\ UNCHANGED <<seen, copyVars, tomb, spos, got, sretry>>

weave_count_check ==
    /\ spc = "count_check"
    /\ IF gen = sgen
       THEN spc' = "counted" /\ UNCHANGED <<pass, sumdf>>
       ELSE TakeFullPath /\ sumdf' = 0
    /\ UNCHANGED <<seen, copyVars, tomb, spos, got, sretry>>

-----------------------------------------------------------------------------
ScanStep ==
    \/ \E p \in Passes : weave_beginscan(p)
    \/ weave_endscan
    \/ weave_read_meta_generation
    \/ weave_read_meta
    \/ weave_tombstones_load
    \/ weave_sm_open_checked
    \/ weave_collect_bolt
    \/ weave_store_unreadable
    \/ weave_pending_head
    \/ weave_collect_pending
    \/ weave_recheck_generation
    \/ weave_count_gates
    \/ weave_count_lookup_dict
    \/ weave_count_zero
    \/ weave_count_visibility
    \/ weave_count_check

\* A row the scan's snapshot sees is not dead to everyone while the scan runs.
SnapshotHeld == \A e \in seen : st'[e.tid] = "live"

\* Bound: the directory changes fewer than GenMod times under one pass, so that a
\* moved generation has not come back to what it was.
GenerationApart == spc # "none" /\ gen # sgen => gen' # sgen

WriterStep == UndisturbedNext \/ \E b \in Backends : Abandon(b)

ScanNext ==
    \/ ScanStep /\ UNCHANGED vars
    \/ WriterStep /\ SnapshotHeld /\ GenerationApart /\ UNCHANGED scanVars
    \/ Crash /\ ScanReset

ScanSpec == ScanInit /\ [][ScanNext]_allVars

-----------------------------------------------------------------------------
(* Properties *)

\* A scan that answers has every row its snapshot sees, and gives none of those line
\* pointers the document of a row that was there before: whatever flushes, merges
\* and VACUUMs did to the bolts and the list while it read them.
ScanExact ==
    spc = "answered" => {e \in got : e.tid \in TidsOf(seen)} = Hits(seen)

\* A count the fast path returns, if not zero, is the number of matching rows the
\* snapshot sees.
NonzeroCountExact ==
    spc = "counted" /\ sumdf # 0 => sumdf = Cardinality(Hits(seen))

\* "A list that fails to read is a RACE until the generation says otherwise": no scan
\* reports a sound document list or docvalues store as corrupt.
StoreAlarmTrue == spc # "corrupt_store"

=============================================================================
