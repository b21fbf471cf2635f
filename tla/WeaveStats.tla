----------------------------- MODULE WeaveStats -----------------------------
(***************************************************************************)
(* The corpus counters of the metapage: npending, ndocs (BM25's N) and     *)
(* sumdoclen.  They ride on the records WeaveIndex describes: an INSERT, a *)
(* bolt's add, the flush's add-and-cut and a tombstone swap write them in  *)
(* the same record; no other step touches them.                            *)
(*                                                                         *)
(* A bolt's own ndocs and ndeleted are functions of its documents and its  *)
(* tombstones.  Every document has length 1, so sumdoclen counts the       *)
(* documents whose length was added and never taken off.                   *)
(***************************************************************************)
EXTENDS WeaveIndex

VARIABLES
    npending,   \* metapage npending
    ndocs,      \* metapage ndocs
    sumdoclen   \* metapage sumdoclen

statVars == <<npending, ndocs, sumdoclen>>

-----------------------------------------------------------------------------
\* seg->ndocs: a NULL document is on the bolt's document list, not in its count.
BoltDocs(g) == {e \in g.docs : ~e.nul}

BoltNdocs(g) == Cardinality(BoltDocs(g))

\* What segs[s].ndeleted counts as bulkdelete writes it: ndead - ndeadnull.
BoltDeleted(g) == {e \in BoltDocs(g) : e.tid \in g.dead}

\* The sum of ndocs - ndeleted that bulkdelete takes over the directory it has just
\* written: every bolt counts its own, so a document counts with its position.
DirectoryNdocs(d) ==
    Cardinality(UNION {{i} \X BoltDocs(d[i]) : i \in DOMAIN d})
      - Cardinality(UNION {{i} \X BoltDeleted(d[i]) : i \in DOMAIN d})

StatsInit ==
    /\ Init
    /\ npending = 0
    /\ ndocs = 0
    /\ sumdoclen = 0

\* weave_insert(): the counters in the append's record; a NULL document is an
\* item of the list and not a document of the corpus.
CountInsert(t) ==
    /\ npending' = npending + 1
    /\ ndocs' = ndocs + (IF nul[t] THEN 0 ELSE 1)
    /\ sumdoclen' = sumdoclen + (IF nul[t] THEN 0 ELSE 1)

\* Faulty variants of two definitions below: the counter is reset as if the list
\* were empty; N is left to a later record.
CountCut_reset(b) ==
    /\ npending' = 0
    /\ UNCHANGED <<ndocs, sumdoclen>>

CountSwap_later(b) == UNCHANGED statVars

\* weave_meta_add_segment(): the bolt's totals join the corpus totals.
CountAddSegment(b) ==
    /\ ndocs' = ndocs + BoltNdocs(NewBolt(built[b]))
    /\ sumdoclen' = sumdoclen + BoltNdocs(NewBolt(built[b]))
    /\ UNCHANGED npending

\* weave_flush_add_and_cut(): the folded documents were counted when they were
\* appended, so only the number of items left on the list changes.
CountCut(b) ==
    /\ npending' = IF pend' = << >> THEN 0
                   ELSE IF npending > cut[b] THEN npending - cut[b] ELSE 1
    /\ UNCHANGED <<ndocs, sumdoclen>>

\* The tombstone swap of weave_bulkdelete(): N is recomputed in its record.
CountSwap(b) ==
    /\ ndocs' = IF slot[b] <= Len(segs) THEN DirectoryNdocs(segs') + npending ELSE ndocs
    /\ UNCHANGED <<npending, sumdoclen>>

StatsNext ==
    \/ \E t \in Tids : weave_insert(t) /\ CountInsert(t)
    \/ \E b \in Backends :
        \/ weave_meta_add_segment(b) /\ CountAddSegment(b)
        \/ weave_flush_add_and_cut(b) /\ CountCut(b)
        \/ weave_bulkdelete_swap(b) /\ CountSwap(b)
        \/ (SessionStart(b) \/ UncountedStep(b) \/ Abandon(b)) /\ UNCHANGED statVars
    \/ (HeapStep \/ Crash) /\ UNCHANGED statVars

StatsSpec == StatsInit /\ [][StatsNext]_<<vars, statVars>>

-----------------------------------------------------------------------------
(* Properties *)

\* The documents of the corpus: what is not tombstoned and not NULL.
CorpusDocs == {e \in Contents : ~e.nul}

\* npending is the number of items on the list, whatever INSERTs append while a
\* flush walks, retries a full directory and cuts; the clamp to 1 never decides.
PendingCounted == npending = Len(pend)

\* ndocs is the number of documents of the corpus, after every record of every
\* flush, merge and VACUUM, also one that an error or a crash cut short.
CorpusCounted == ndocs = Cardinality(CorpusDocs)

=============================================================================
