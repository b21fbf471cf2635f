--------------------------- MODULE WeaveScanProofs ---------------------------
(***************************************************************************)
(* Proofs about WeaveScan: what a scan answers beside running writers, for *)
(* every kind of pass, every number of line pointers and sessions, every   *)
(* directory capacity, generation width and retry limit.                   *)
(***************************************************************************)
EXTENDS WeaveScan, WeaveIndexProofs

-----------------------------------------------------------------------------
(* The inductive invariant *)

SLabels ==
    {"none", "generation", "meta", "tombstones", "bolts", "pending", "check", "answered",
     "corrupt_bitmap", "corrupt_store", "raced", "dict", "counted", "count_check"}

\* A full pass between its copy of the metapage and its answer; a count likewise.
Reading == spc \in {"tombstones", "bolts", "pending", "check"}
Counting == spc \in {"dict", "count_check"}

\* The type invariant of the scan.  tomb is an array over the copied directory only
\* once it is loaded.
ScanTypeOK ==
    /\ spc \in SLabels
    /\ pass \in {"lexical", "docvals", "ranked", "vector", "cgram", "count"}
    /\ seen \in SUBSET Entry
    /\ sgen \in Nat
    /\ mdir \in Seq(Bolt)
    /\ mpend \in Seq(Entry)
    /\ spos \in Nat \ {0}
    /\ got \in SUBSET Entry
    /\ sumdf \in Nat
    /\ sretry \in Nat

\* Which pass is where; a count starts from zero.
PassInv ==
    /\ Reading => pass # "count"
    /\ Counting \/ spc = "counted" => pass = "count"
    /\ spc = "none" \/ (spc \in {"generation", "meta"} /\ pass = "count") => sumdf = 0

\* The rows of the snapshot are still the rows at their line pointers.
SnapInv == \A e \in seen : e.tid \in Tids /\ st[e.tid] = "live" /\ e = EntryOf(e.tid)

\* What an unmoved generation says: the copied directory is the directory, and the
\* copied list begins the list.
CopyInv == (Reading \/ Counting) /\ gen = sgen => mdir = segs /\ ListKept

\* The row of e was in the index when the metapage was copied.
InCopy(e) ==
    \/ \E i \in DOMAIN mdir : e \in LiveDocs(mdir[i])
    \/ \E i \in DOMAIN mpend : mpend[i] = e

\* If the generation stands, the copy has every row of the snapshot.
SeenInv == (Reading \/ Counting) /\ gen = sgen => \A e \in seen : InCopy(e)

\* ... the tombstones are those of the copied bolts, ...
TombInv == spc = "bolts" /\ gen = sgen => \A i \in DOMAIN mdir : tomb[i] = mdir[i].dead

\* A document of e that this kind of pass looks for.
Wanted(e) == pass \in {"lexical", "ranked", "count"} => ~e.nul

\* ... every bolt passed, and then the list, has given all it had, ...
GotAll ==
    gen = sgen =>
        /\ \A i \in DOMAIN mdir :
             spc \in {"pending", "check"} \/ (spc \in {"tombstones", "bolts"} /\ i < spos) =>
                \A e \in LiveDocs(mdir[i]) : Wanted(e) => e \in got
        /\ spc = "check" => \A i \in DOMAIN mpend : Wanted(mpend[i]) => mpend[i] \in got

\* What was collected for a line pointer of the snapshot is the snapshot's row.
OnlySeen == \A e \in got, s \in seen : e.tid = s.tid => e = s /\ Wanted(e)

GotTrue == Reading /\ gen = sgen => OnlySeen

\* An answer is just that, and complete.
AnswerInv == spc = "answered" => OnlySeen /\ \A s \in seen : Wanted(s) => s \in got

\* A count goes on only over a directory without tombstones and without a list.
GateInv ==
    Counting =>
        /\ mpend = << >>
        /\ \A i \in DOMAIN mdir : mdir[i].dead = {} /\ IsFiniteSet(mdir[i].docs)
        /\ \A i, j \in DOMAIN mdir : i # j => mdir[i].docs \cap mdir[j].docs = {}
        /\ spos <= Len(mdir) + 1

\* The documents in D that are not NULL, and those of the first k copied bolts.
Matching(D) == {e \in D : ~e.nul}
Counted(k) == UNION {Matching(mdir[j].docs) : j \in 1..k}

\* If the generation stands, the sum counts each of them once, and in the end they are
\* the matching rows of the snapshot.
SumInv ==
    /\ spc = "dict" /\ gen = sgen => sumdf = Cardinality(Counted(spos - 1))
    /\ spc = "count_check" /\ gen = sgen => sumdf = Cardinality(Matching(seen))
    /\ spc = "counted" /\ sumdf # 0 => sumdf = Cardinality(Matching(seen))

Copy == PassInv /\ SnapInv /\ CopyInv /\ SeenInv
Collect == TombInv /\ GotAll /\ GotTrue /\ AnswerInv /\ StoreAlarmTrue
Count == GateInv /\ SumInv

SInv == ScanTypeOK /\ Copy /\ Collect /\ Count

-----------------------------------------------------------------------------
(* The writers beside the scan *)

\* Every step of the writers and the scan is a step of the index, or leaves it alone.
LEMMA ScanStepMaps == [ScanNext]_allVars => [Next]_vars
<1>1. ASSUME WriterStep PROVE Next
  BY <1>1 DEF WriterStep, UndisturbedNext, Next
<1>2. ASSUME Crash PROVE Next
  BY <1>2 DEF Next
<1>3. ASSUME UNCHANGED allVars PROVE UNCHANGED vars
  BY <1>3 DEF allVars
<1> QED
  BY <1>1, <1>2, <1>3 DEF ScanNext

\* The index beside a scan is the index of WeaveIndex, with every invariant it has.
THEOREM ScanRefinesIndex == ScanSpec => Spec
<1>1. ScanInit => Init
  BY DEF ScanInit
<1> QED
  BY <1>1, ScanStepMaps, PTL DEF ScanSpec, Spec

\* Only an insert into a free line pointer changes which row is there.
LEMMA RowsStay ==
    ASSUME TypeOK, [Next]_vars
    PROVE  \A t \in Tids : st[t] # "unused" => inc'[t] = inc[t] /\ nul'[t] = nul[t]
<1> DEFINE Goal == \A t \in Tids : st[t] # "unused" => inc'[t] = inc[t] /\ nul'[t] = nul[t]
<1> USE DEF TypeOK
<1>1. ASSUME NEW t \in Tids, NEW isnull \in NullFlags, heap_insert(t, isnull) PROVE Goal
  BY <1>1 DEF heap_insert
<1>2. ASSUME NEW t \in Tids, heap_commit(t) PROVE Goal
  BY <1>2 DEF heap_commit, Rest, heapVars
<1>3. ASSUME NEW t \in Tids, heap_kill(t) PROVE Goal
  BY <1>3 DEF heap_kill, Rest, heapVars
<1>4. ASSUME NEW t \in Tids, weave_insert(t) PROVE Goal
  BY <1>4 DEF weave_insert, Rest, heapVars
<1>5. ASSUME NEW b \in Backends, weave_maintenance_lock(b) PROVE Goal
  BY <1>5 DEF weave_maintenance_lock, Rest, heapVars
<1>6. ASSUME NEW b \in Backends, Abandon(b) PROVE Goal
  BY <1>6 DEF Abandon, Rest, heapVars
<1>7. ASSUME Crash PROVE Goal
  BY <1>7 DEF Crash, Rest, heapVars
<1>8. ASSUME NEW b \in Backends, NEW S \in SUBSET DOMAIN segs, weave_merge_selected(b, S) PROVE Goal
  BY <1>8 DEF weave_merge_selected, Rest, heapVars
<1>9. ASSUME NEW b \in Backends, weave_merge_commit(b) PROVE Goal
  BY <1>9 DEF weave_merge_commit, Rest, heapVars
<1>10. ASSUME NEW b \in Backends, weave_merge_stop(b) PROVE Goal
  BY <1>10 DEF weave_merge_stop, Rest, heapVars
<1>11. ASSUME NEW b \in Backends, weave_flush_pending(b) PROVE Goal
  BY <1>11 DEF weave_flush_pending, Rest, heapVars
<1>12. ASSUME NEW b \in Backends, weave_flush_add_and_cut(b) PROVE Goal
  BY <1>12 DEF weave_flush_add_and_cut, Rest, heapVars
<1>13. ASSUME NEW b \in Backends, weave_add_segment_with_room(b) PROVE Goal
  BY <1>13 DEF weave_add_segment_with_room, Rest, heapVars
<1>14. ASSUME NEW b \in Backends, weave_directory_full(b) PROVE Goal
  BY <1>14 DEF weave_directory_full, Rest, heapVars
<1>15. ASSUME NEW b \in Backends, NEW t \in Tids, weave_insert_oversized_as_segment(b, t) PROVE Goal
  BY <1>15 DEF weave_insert_oversized_as_segment, Rest, heapVars
<1>16. ASSUME NEW b \in Backends, weave_meta_add_segment(b) PROVE Goal
  BY <1>16 DEF weave_meta_add_segment, Rest, heapVars
<1>17. ASSUME NEW b \in Backends, weave_small_runs_merge(b) PROVE Goal
  BY <1>17 DEF weave_small_runs_merge, Rest, heapVars
<1>18. ASSUME NEW b \in Backends, weave_small_runs_skip(b) PROVE Goal
  BY <1>18 DEF weave_small_runs_skip, Rest, heapVars
<1>19. ASSUME NEW b \in Backends, weave_merge(b) PROVE Goal
  BY <1>19 DEF weave_merge, Rest, heapVars
<1>20. ASSUME NEW b \in Backends, vacuum_heap_scan(b) PROVE Goal
  BY <1>20 DEF vacuum_heap_scan, Rest, heapVars
<1>21. ASSUME NEW b \in Backends, weave_bulkdelete(b) PROVE Goal
  BY <1>21 DEF weave_bulkdelete, Rest, heapVars
<1>22. ASSUME NEW b \in Backends, weave_bulkdelete_swap(b) PROVE Goal
  BY <1>22 DEF weave_bulkdelete_swap, Rest, heapVars
<1>23. ASSUME NEW b \in Backends, weave_bulkdelete_end(b) PROVE Goal
  BY <1>23 DEF weave_bulkdelete_end, Rest, heapVars
<1>24. ASSUME NEW b \in Backends, vacuum_heap(b) PROVE Goal
  BY <1>24 DEF vacuum_heap, Rest, heapVars
<1>25. CASE UNCHANGED vars
  BY <1>25 DEF vars
<1> QED
  BY <1>1, <1>2, <1>3, <1>4, <1>5, <1>6, <1>7, <1>8, <1>9, <1>10,
     <1>11, <1>12, <1>13, <1>14, <1>15, <1>16, <1>17, <1>18, <1>19,
     <1>20, <1>21, <1>22, <1>23, <1>24, <1>25
  DEF Next, HeapStep, SessionStart, SessionStep, CountedStep, UncountedStep

\* One list begins another.
LEMMA PrefixItems ==
    ASSUME NEW p \in Seq(Entry), NEW q \in Seq(Entry)
    PROVE  Len(q) <= Len(p) /\ SubSeq(p, 1, Len(q)) = q
             <=> Len(q) <= Len(p) /\ \A i \in DOMAIN q : q[i] = p[i]
OBVIOUS

\* What a writer's step leaves alone, if the generation stands after it.
LEMMA WriterStands ==
    ASSUME IInv, IInv', ScanTypeOK, [Next]_vars, GenerationApart, spc # "none", gen' = sgen
    PROVE  /\ gen = sgen /\ segs' = segs
           /\ ListKept => Len(mpend) <= Len(pend') /\ SubSeq(pend', 1, Len(mpend)) = mpend
<1>0. pend \in Seq(Entry) /\ pend' \in Seq(Entry) /\ mpend \in Seq(Entry) /\ TypeOK
  BY DEF IInv, Control, TypeOK, ScanTypeOK
<1>1. gen = sgen
  BY DEF GenerationApart
<1>2. segs' = segs /\ SubSeq(pend', 1, Len(pend)) = pend
  BY <1>0, <1>1, GenerationStep DEF PendGrows
<1>3. Len(pend) <= Len(pend')
  BY <1>0, <1>1, GenerationStep DEF PendGrows
<1>4. \A i \in DOMAIN pend : pend[i] = pend'[i]
  BY <1>0, <1>2, <1>3, PrefixItems
<1>5. ASSUME ListKept
      PROVE  Len(mpend) <= Len(pend') /\ SubSeq(pend', 1, Len(mpend)) = mpend
  <2>1. Len(mpend) <= Len(pend) /\ \A i \in DOMAIN mpend : mpend[i] = pend[i]
    BY <1>0, <1>5, PrefixItems DEF ListKept
  <2>2. Len(mpend) <= Len(pend') /\ \A i \in DOMAIN mpend : mpend[i] = pend'[i]
    BY <1>0, <1>3, <1>4, <2>1
  <2> QED
    BY <1>0, <2>2, PrefixItems
<1> QED
  BY <1>1, <1>2, <1>5

\* A writer's step beside the scan keeps the scan's invariant: it does not take the
\* snapshot's rows away, and what it does to directory or list moves the generation.
LEMMA WriterKeeps ==
    ASSUME IInv, IInv', SInv, [Next]_vars, SnapshotHeld, GenerationApart, UNCHANGED scanVars
    PROVE  SInv'
<1> USE DEF scanVars
<1>0. ScanTypeOK /\ Copy /\ Collect /\ Count /\ TypeOK
  BY DEF SInv, IInv, Control
<1>1. ScanTypeOK' /\ PassInv' /\ GateInv'
  BY <1>0 DEF ScanTypeOK, Copy, PassInv, Count, GateInv, Counting, Reading
<1>2. SnapInv'
  <2> SUFFICES ASSUME NEW e \in seen
               PROVE  /\ e.tid \in Tids /\ st'[e.tid] = "live"
                      /\ e = [tid |-> e.tid, inc |-> inc'[e.tid], nul |-> nul'[e.tid]]
    BY DEF SnapInv, EntryOf
  <2>1. e.tid \in Tids /\ st[e.tid] = "live" /\ e = EntryOf(e.tid)
    BY <1>0 DEF Copy, SnapInv
  <2>2. inc'[e.tid] = inc[e.tid] /\ nul'[e.tid] = nul[e.tid]
    BY <1>0, <2>1, RowsStay
  <2>3. st'[e.tid] = "live"
    BY DEF SnapshotHeld
  <2> QED
    BY <2>1, <2>2, <2>3 DEF EntryOf
<1>3. spc # "none" /\ gen' = sgen =>
        /\ gen = sgen /\ segs' = segs
        /\ ListKept => Len(mpend) <= Len(pend') /\ SubSeq(pend', 1, Len(mpend)) = mpend
  BY <1>0, WriterStands
<1>4. CopyInv' /\ SeenInv'
  BY <1>0, <1>3 DEF Copy, CopyInv, SeenInv, ListKept, InCopy, Reading, Counting
<1>5. TombInv' /\ GotAll' /\ GotTrue' /\ AnswerInv' /\ StoreAlarmTrue'
  BY <1>0, <1>3
  DEF Collect, TombInv, GotAll, GotTrue, AnswerInv, StoreAlarmTrue, OnlySeen, Wanted, Reading
<1>6. SumInv'
  BY <1>0, <1>3 DEF Count, SumInv, Counted
<1> QED
  BY <1>1, <1>2, <1>4, <1>5, <1>6 DEF SInv, Copy, Collect, Count

-----------------------------------------------------------------------------
(* The scan's own steps *)

\* Every step of the scan keeps the scan's types.
LEMMA ScanTypeStep ==
    ASSUME TypeOK, ScanTypeOK, GateInv, ScanStep, UNCHANGED vars
    PROVE  ScanTypeOK'
<1> DEFINE Goal == ScanTypeOK'
<1> USE PassAssumption, GenAssumption DEF ScanTypeOK, SLabels
<1>0. /\ segs \in Seq(Bolt) /\ pend \in Seq(Entry) /\ gen \in Nat
      /\ inc \in [Tids -> Nat] /\ nul \in [Tids -> BOOLEAN]
  BY DEF TypeOK
<1> USE <1>0
<1>1. ASSUME NEW p \in Passes, weave_beginscan(p) PROVE Goal
  <2>1. seen' \in SUBSET Entry
    BY <1>1 DEF weave_beginscan, EntryOf, Entry
  <2> QED
    BY <2>1, <1>1 DEF weave_beginscan, FirstStep, GenerationFirst, copyVars, readVars
<1>2. ASSUME weave_endscan PROVE Goal
  BY <1>2 DEF weave_endscan, ScanReset, copyVars, readVars
<1>3. ASSUME weave_read_meta_generation PROVE Goal
  BY <1>3 DEF weave_read_meta_generation, copyVars, readVars
<1>4. ASSUME weave_read_meta PROVE Goal
  BY <1>4 DEF weave_read_meta, GenerationFirst, copyVars, readVars
<1>5. ASSUME weave_tombstones_load PROVE Goal
  BY <1>5 DEF weave_tombstones_load, copyVars, readVars
<1>6. ASSUME weave_sm_open_checked PROVE Goal
  BY <1>6 DEF weave_sm_open_checked, copyVars, readVars
<1>7. ASSUME weave_collect_bolt PROVE Goal
  <2>1. mdir[spos] \in Bolt
    BY <1>7 DEF weave_collect_bolt
  <2>2. Hits(mdir[spos].docs) \in SUBSET Entry
    BY <2>1 DEF Hits, Bolt
  <2>3. got' \in SUBSET Entry
    BY <2>2, <1>7 DEF weave_collect_bolt
  <2> QED
    BY <2>3, <1>7 DEF weave_collect_bolt, copyVars, readVars
<1>8. ASSUME weave_store_unreadable PROVE Goal
  BY <1>8 DEF weave_store_unreadable, Retry, FirstStep, GenerationFirst, copyVars, readVars
<1>9. ASSUME weave_pending_head PROVE Goal
  BY <1>9 DEF weave_pending_head, copyVars, readVars
<1>10. ASSUME weave_collect_pending PROVE Goal
  <2>1. Hits(Items(mpend) \cup Items(pend)) \in SUBSET Entry
    BY DEF Hits, Items
  <2>2. got' \in SUBSET Entry
    BY <2>1, <1>10 DEF weave_collect_pending
  <2> QED
    BY <2>2, <1>10 DEF weave_collect_pending, copyVars, readVars
<1>11. ASSUME weave_recheck_generation PROVE Goal
  <2>1. got' \in SUBSET Entry
    BY <1>11 DEF weave_recheck_generation
  <2> QED
    BY <2>1, <1>11 DEF weave_recheck_generation, Retry, FirstStep, GenerationFirst, copyVars, readVars
<1>12. ASSUME weave_count_gates PROVE Goal
  BY <1>12 DEF weave_count_gates, TakeFullPath, copyVars, readVars
<1>13. ASSUME weave_count_lookup_dict PROVE Goal
  <2>1. mdir[spos] \in Bolt
    BY <1>13 DEF weave_count_lookup_dict
  <2>2. IsFiniteSet(mdir[spos].docs)
    BY <1>13 DEF weave_count_lookup_dict, GateInv, Counting
  <2>4. IsFiniteSet(Hits(mdir[spos].docs))
    BY <2>2, FS_Subset DEF Hits
  <2>5. Cardinality(Hits(mdir[spos].docs)) \in Nat
    BY <2>4, FS_CardinalityType
  <2>3. sumdf' \in Nat
    BY <2>5, <1>13 DEF weave_count_lookup_dict
  <2> QED
    BY <2>3, <1>13 DEF weave_count_lookup_dict, copyVars, readVars
<1>14. ASSUME weave_count_zero PROVE Goal
  BY <1>14 DEF weave_count_zero, copyVars, readVars
<1>15. ASSUME weave_count_visibility PROVE Goal
  BY <1>15 DEF weave_count_visibility, TakeFullPath, copyVars, readVars
<1>16. ASSUME weave_count_check PROVE Goal
  BY <1>16 DEF weave_count_check, TakeFullPath, copyVars, readVars
<1> QED
  BY <1>1, <1>2, <1>3, <1>4, <1>5, <1>6, <1>7, <1>8, <1>9, <1>10,
     <1>11, <1>12, <1>13, <1>14, <1>15, <1>16 DEF ScanStep

\* Every step of the scan keeps what is known of its copy: a copy taken under the
\* generation it is compared with is exact, and holds every row of the snapshot.
LEMMA CopyStep ==
    ASSUME TypeOK, NoRowLost, ScanTypeOK, Copy, ScanStep, UNCHANGED vars
    PROVE  Copy'
<1> DEFINE Goal == Copy'
<1>0. /\ segs \in Seq(Bolt) /\ pend \in Seq(Entry)
      /\ segs' = segs /\ pend' = pend /\ gen' = gen
      /\ st' = st /\ inc' = inc /\ nul' = nul
      /\ mpend \in Seq(Entry) /\ mdir \in Seq(Bolt)
      /\ PassInv /\ SnapInv /\ CopyInv /\ SeenInv
  BY DEF TypeOK, ScanTypeOK, Copy, vars
<1> USE <1>0
        DEF Copy, PassInv, SnapInv, CopyInv, SeenInv, InCopy, Reading, Counting, ListKept, EntryOf
<1>whole. Len(pend) <= Len(pend) /\ SubSeq(pend, 1, Len(pend)) = pend
  OBVIOUS
<1>all. \A e \in seen : \/ \E i \in DOMAIN segs : e \in LiveDocs(segs[i])
                        \/ \E i \in DOMAIN pend : pend[i] = e
  BY DEF NoRowLost, Indexed
<1>1. ASSUME NEW p \in Passes, weave_beginscan(p) PROVE Goal
  BY <1>1 DEF weave_beginscan, FirstStep, GenerationFirst, copyVars, readVars
<1>2. ASSUME weave_endscan PROVE Goal
  BY <1>2 DEF weave_endscan, ScanReset, copyVars, readVars
<1>3. ASSUME weave_read_meta_generation PROVE Goal
  BY <1>3 DEF weave_read_meta_generation, copyVars, readVars
<1>4. ASSUME weave_read_meta PROVE Goal
  BY <1>4, <1>whole, <1>all DEF weave_read_meta, GenerationFirst, copyVars, readVars
<1>5. ASSUME weave_tombstones_load PROVE Goal
  BY <1>5 DEF weave_tombstones_load, copyVars, readVars
<1>6. ASSUME weave_sm_open_checked PROVE Goal
  BY <1>6 DEF weave_sm_open_checked, copyVars, readVars
<1>7. ASSUME weave_collect_bolt PROVE Goal
  BY <1>7 DEF weave_collect_bolt, copyVars, readVars
<1>8. ASSUME weave_store_unreadable PROVE Goal
  BY <1>8 DEF weave_store_unreadable, Retry, FirstStep, GenerationFirst, copyVars, readVars
<1>9. ASSUME weave_pending_head PROVE Goal
  BY <1>9, <1>whole, <1>all DEF weave_pending_head, copyVars, readVars
<1>10. ASSUME weave_collect_pending PROVE Goal
  BY <1>10 DEF weave_collect_pending, copyVars, readVars
<1>11. ASSUME weave_recheck_generation PROVE Goal
  BY <1>11 DEF weave_recheck_generation, Retry, FirstStep, GenerationFirst, copyVars, readVars
<1>12. ASSUME weave_count_gates PROVE Goal
  BY <1>12, <1>whole, <1>all DEF weave_count_gates, TakeFullPath, copyVars, readVars
<1>13. ASSUME weave_count_lookup_dict PROVE Goal
  BY <1>13 DEF weave_count_lookup_dict, copyVars, readVars
<1>14. ASSUME weave_count_zero PROVE Goal
  BY <1>14 DEF weave_count_zero, copyVars, readVars
<1>15. ASSUME weave_count_visibility PROVE Goal
  BY <1>15 DEF weave_count_visibility, TakeFullPath, copyVars, readVars
<1>16. ASSUME weave_count_check PROVE Goal
  BY <1>16 DEF weave_count_check, TakeFullPath, copyVars, readVars
<1> QED
  BY <1>1, <1>2, <1>3, <1>4, <1>5, <1>6, <1>7, <1>8, <1>9, <1>10,
     <1>11, <1>12, <1>13, <1>14, <1>15, <1>16 DEF ScanStep

\* The hits of D, one by one.
LEMMA HitsWanted == \A D : \A e : e \in Hits(D) <=> e \in D /\ Wanted(e)
BY DEF Hits, Wanted

\* An entry that a scan meets in the index now, for a line pointer of its snapshot, is
\* the snapshot's.
LEMMA CurrentIsSeen ==
    ASSUME SnapInv, NEW e \in CurrentEntries, NEW s \in seen, e.tid = s.tid
    PROVE  e = s
BY DEF CurrentEntries, SnapInv, EntryOf

\* Every step of the scan keeps what is known of the entries it collected.
LEMMA CollectStep ==
    ASSUME TypeOK, NoStaleEntry, ScanTypeOK, Copy, Collect, ScanStep, UNCHANGED vars
    PROVE  Collect'
<1> DEFINE Goal == Collect'
<1>0. /\ segs \in Seq(Bolt) /\ pend \in Seq(Entry)
      /\ segs' = segs /\ pend' = pend /\ gen' = gen
      /\ mpend \in Seq(Entry) /\ mdir \in Seq(Bolt) /\ spos \in Nat \ {0}
      /\ PassInv /\ SnapInv /\ CopyInv /\ SeenInv
      /\ TombInv /\ GotAll /\ GotTrue /\ AnswerInv /\ StoreAlarmTrue
  BY DEF TypeOK, ScanTypeOK, Copy, Collect, vars
<1> USE <1>0
        DEF Collect, TombInv, GotAll, GotTrue, OnlySeen, AnswerInv, StoreAlarmTrue, Wanted, Reading
<1>1. ASSUME NEW p \in Passes, weave_beginscan(p) PROVE Goal
  BY <1>1 DEF weave_beginscan, FirstStep, GenerationFirst, copyVars, readVars
<1>2. ASSUME weave_endscan PROVE Goal
  BY <1>2 DEF weave_endscan, ScanReset, copyVars, readVars
<1>3. ASSUME weave_read_meta_generation PROVE Goal
  BY <1>3 DEF weave_read_meta_generation, copyVars, readVars
<1>4. ASSUME weave_read_meta PROVE Goal
  BY <1>4 DEF weave_read_meta, GenerationFirst, copyVars, readVars
<1>5. ASSUME weave_tombstones_load PROVE Goal
  <2>1. gen = sgen => \A i \in DOMAIN mdir : tomb'[i] = mdir[i].dead
    BY <1>5 DEF weave_tombstones_load, CopyInv, BlobKept
  <2> QED
    BY <1>5, <2>1 DEF weave_tombstones_load, copyVars, readVars
<1>6. ASSUME weave_sm_open_checked PROVE Goal
  BY <1>6 DEF weave_sm_open_checked, copyVars, readVars
<1>7. ASSUME weave_collect_bolt PROVE Goal
  <2>1. /\ spc = "bolts" /\ spos \in DOMAIN mdir /\ spos' = spos + 1
        /\ UNCHANGED <<spc, pass, seen, sgen, mdir, mpend, tomb>>
    BY <1>7 DEF weave_collect_bolt, copyVars
  <2>2. PICK X \in SUBSET Hits(mdir[spos].docs) :
           /\ BoltKept(spos) => X = Hits(mdir[spos].docs)
           /\ got' = got \cup {e \in X : e.tid \notin tomb[spos]}
    BY <1>7 DEF weave_collect_bolt
  <2>3. ASSUME gen = sgen
        PROVE  \A e : e \in got' <=> e \in got \/ (e \in LiveDocs(mdir[spos]) /\ Wanted(e))
    <3>1. mdir = segs /\ BoltKept(spos) /\ tomb[spos] = mdir[spos].dead
      BY <2>1, <2>3 DEF CopyInv, BoltKept
    <3> QED
      BY <2>2, <3>1, HitsWanted DEF LiveDocs
  <2>4. ASSUME gen = sgen, NEW e \in LiveDocs(mdir[spos]) PROVE e \in CurrentEntries
    BY <2>1, <2>4 DEF CopyInv, NoStaleEntry
  <2>5. GotAll'
    BY <2>1, <2>3
  <2>6. GotTrue'
    BY <2>1, <2>3, <2>4, CurrentIsSeen
  <2> QED
    BY <2>1, <2>5, <2>6
<1>8. ASSUME weave_store_unreadable PROVE Goal
  <2>1. spc = "bolts" /\ spos \in DOMAIN mdir /\ ~BoltKept(spos)
    BY <1>8 DEF weave_store_unreadable
  <2>2. gen # sgen
    BY <2>1 DEF CopyInv, BoltKept
  <2> QED
    BY <1>8, <2>2 DEF weave_store_unreadable, Retry, FirstStep, GenerationFirst, copyVars
<1>9. ASSUME weave_pending_head PROVE Goal
  BY <1>9 DEF weave_pending_head, copyVars, readVars
<1>10. ASSUME weave_collect_pending PROVE Goal
  <2>1. /\ spc = "pending" /\ spc' = "check"
        /\ UNCHANGED <<pass, seen, sgen, mdir, mpend, tomb, spos>>
    BY <1>10 DEF weave_collect_pending, copyVars
  <2>2. PICK X \in SUBSET Hits(Items(mpend) \cup Items(pend)) :
           /\ mpend = << >> => X = {}
           /\ mpend # << >> /\ ListKept => X = Hits(Items(pend))
           /\ got' = got \cup X
    BY <1>10 DEF weave_collect_pending
  <2>3. ASSUME gen = sgen
        PROVE  /\ \A i \in DOMAIN mpend : Wanted(mpend[i]) => mpend[i] \in X
               /\ \A e \in X : e \in CurrentEntries /\ Wanted(e)
    <3>1. ListKept
      BY <2>1, <2>3 DEF CopyInv
    <3>2. Len(mpend) <= Len(pend) /\ \A i \in DOMAIN mpend : mpend[i] = pend[i]
      BY <3>1, PrefixItems DEF ListKept
    <3>3. \A i \in DOMAIN mpend : mpend[i] \in Items(pend)
      BY <3>2 DEF Items
    <3>4. \A e \in Items(pend) : e \in CurrentEntries
      BY DEF NoStaleEntry, Items
    <3>5. CASE mpend = << >>
      BY <2>2, <3>5
    <3>6. CASE mpend # << >>
      BY <2>2, <3>1, <3>3, <3>4, <3>6, HitsWanted
    <3> QED
      BY <3>5, <3>6
  <2>5. GotAll'
    BY <2>1, <2>2, <2>3
  <2>6. GotTrue'
    BY <2>1, <2>2, <2>3, CurrentIsSeen
  <2> QED
    BY <2>1, <2>5, <2>6
<1>11. ASSUME weave_recheck_generation PROVE Goal
  <2>1. /\ spc = "check" /\ UNCHANGED <<pass, seen, sgen, mdir, mpend, tomb, spos>>
        /\ spc' \in {"answered", "raced", "generation", "meta"}
    BY <1>11 DEF weave_recheck_generation, Retry, FirstStep, GenerationFirst, copyVars
  <2>2. ASSUME gen = sgen
        PROVE  OnlySeen /\ \A s \in seen : Wanted(s) => s \in got
    BY <2>1, <2>2 DEF SeenInv, InCopy
  <2>3. CASE pass = "cgram"
    <3>1. got' = seen
      <4>1. CASE gen = sgen
        <5>1. \A s \in seen : s.tid \in TidsOf(got)
          BY <2>2, <2>3, <4>1 DEF TidsOf
        <5> QED
          BY <1>11, <2>3, <4>1, <5>1 DEF weave_recheck_generation
      <4>2. CASE gen # sgen
        BY <1>11, <2>3, <4>2 DEF weave_recheck_generation
      <4> QED
        BY <4>1, <4>2
    <3>2. \A e, s \in seen : e.tid = s.tid => e = s
      BY DEF SnapInv
    <3> QED
      BY <2>1, <2>3, <3>1, <3>2
  <2>4. CASE pass # "cgram"
    BY <1>11, <2>1, <2>2, <2>4 DEF weave_recheck_generation, Retry, FirstStep, GenerationFirst
  <2> QED
    BY <2>3, <2>4
<1>12. ASSUME weave_count_gates PROVE Goal
  BY <1>12 DEF weave_count_gates, TakeFullPath, copyVars, readVars
<1>13. ASSUME weave_count_lookup_dict PROVE Goal
  BY <1>13 DEF weave_count_lookup_dict, copyVars, readVars
<1>14. ASSUME weave_count_zero PROVE Goal
  BY <1>14 DEF weave_count_zero, copyVars, readVars
<1>15. ASSUME weave_count_visibility PROVE Goal
  BY <1>15 DEF weave_count_visibility, TakeFullPath, copyVars, readVars
<1>16. ASSUME weave_count_check PROVE Goal
  BY <1>16 DEF weave_count_check, TakeFullPath, copyVars, readVars
<1> QED
  BY <1>1, <1>2, <1>3, <1>4, <1>5, <1>6, <1>7, <1>8, <1>9, <1>10,
     <1>11, <1>12, <1>13, <1>14, <1>15, <1>16 DEF ScanStep

\* A bolt more: its matching documents are added to those counted, which it shares none
\* with.
LEMMA CountedNext ==
    ASSUME ScanTypeOK, GateInv, Counting, NEW k \in DOMAIN mdir, IsFiniteSet(Counted(k - 1))
    PROVE  /\ IsFiniteSet(Counted(k)) /\ IsFiniteSet(Matching(mdir[k].docs))
           /\ Cardinality(Counted(k)) =
                Cardinality(Counted(k - 1)) + Cardinality(Matching(mdir[k].docs))
<1> DEFINE A == Counted(k - 1)
           B == Matching(mdir[k].docs)
<1>1. k \in Nat \ {0} /\ DOMAIN mdir = 1..Len(mdir) /\ Len(mdir) \in Nat
  BY DEF ScanTypeOK
<1>2. Counted(k) = A \cup B
  <2>1. 1..k = (1..(k - 1)) \cup {k}
    BY <1>1
  <2> QED
    BY <2>1 DEF Counted
<1>3. A \cap B = {}
  <2>1. SUFFICES ASSUME NEW e \in A, e \in B PROVE FALSE
    OBVIOUS
  <2>2. PICK j \in 1..(k - 1) : e \in mdir[j].docs
    BY <2>1 DEF Counted, Matching
  <2>3. j \in DOMAIN mdir /\ j # k /\ e \in mdir[k].docs
    BY <1>1, <2>1, <2>2 DEF Matching
  <2> QED
    BY <2>2, <2>3 DEF GateInv
<1>4. IsFiniteSet(B)
  <2>1. IsFiniteSet(mdir[k].docs)
    BY DEF GateInv
  <2> QED
    BY <2>1, FS_Subset DEF Matching
<1> HIDE DEF A, B
<1>5. /\ IsFiniteSet(A \cup B)
      /\ Cardinality(A \cup B) = Cardinality(A) + Cardinality(B) - Cardinality(A \cap B)
  BY <1>4, FS_Union DEF A
<1>6. Cardinality(A) \in Nat /\ Cardinality(B) \in Nat /\ Cardinality(A \cap B) = 0
  BY <1>3, <1>4, FS_CardinalityType, FS_EmptySet DEF A
<1> QED
  BY <1>2, <1>4, <1>5, <1>6 DEF A, B

\* What has been counted is finite, however far the count is.
LEMMA CountedFinite ==
    ASSUME ScanTypeOK, GateInv, Counting, NEW k \in Nat, k <= Len(mdir)
    PROVE  IsFiniteSet(Counted(k))
<1> DEFINE T == {Matching(mdir[j].docs) : j \in 1..k}
           f == [j \in 1..k |-> Matching(mdir[j].docs)]
<1>1. IsFiniteSet(1..k)
  BY FS_Interval
<1>2. f \in Surjection(1..k, T)
  BY DEF Surjection
<1>3. IsFiniteSet(T)
  <2> HIDE DEF f, T
  <2> QED
    BY <1>1, <1>2, FS_Surjection
<1>4. ASSUME NEW D \in T PROVE IsFiniteSet(D)
  <2>1. PICK j \in 1..k : D = Matching(mdir[j].docs)
    OBVIOUS
  <2>2. j \in DOMAIN mdir
    BY DEF ScanTypeOK
  <2>3. IsFiniteSet(mdir[j].docs) /\ D \in SUBSET mdir[j].docs
    BY <2>1, <2>2 DEF GateInv, Matching
  <2> QED
    BY <2>3, FS_Subset
<1> QED
  BY <1>3, <1>4, FS_UNION DEF Counted

\* The counted documents of all the bolts are the matching rows of the snapshot, if the
\* heap has no row that the snapshot does not see.
LEMMA AllCounted ==
    ASSUME TypeOK, NoStaleEntry, ScanTypeOK, Copy, GateInv, spc = "dict", gen = sgen, AllVisible
    PROVE  Counted(Len(mdir)) = Matching(seen)
<1>1. mdir = segs /\ \A i \in DOMAIN mdir : LiveDocs(mdir[i]) = mdir[i].docs
  <2>1. \A i \in DOMAIN mdir : mdir[i].dead = {}
    BY DEF GateInv, Counting
  <2>2. mdir = segs
    BY DEF Copy, CopyInv, Counting
  <2> QED
    BY <2>1, <2>2 DEF LiveDocs
<1>2. DOMAIN mdir = 1..Len(mdir)
  BY DEF ScanTypeOK
<1>3. ASSUME NEW e \in Counted(Len(mdir)) PROVE e \in Matching(seen)
  <2>1. PICK i \in DOMAIN mdir : e \in mdir[i].docs /\ ~e.nul
    BY <1>2, <1>3 DEF Counted, Matching
  <2>2. e \in CurrentEntries
    BY <1>1, <2>1 DEF NoStaleEntry
  <2>3. PICK t \in Tids : e = EntryOf(t) /\ st[t] \in {"indexed", "live", "dead"}
    BY <2>2 DEF CurrentEntries
  <2>4. EntryOf(t) \in seen
    BY <2>3 DEF AllVisible
  <2> QED
    BY <2>1, <2>3, <2>4 DEF Matching
<1>4. ASSUME NEW e \in Matching(seen) PROVE e \in Counted(Len(mdir))
  <2>1. e \in seen /\ ~e.nul
    BY <1>4 DEF Matching
  <2>2. InCopy(e) /\ mpend = << >>
    BY <2>1 DEF Copy, SeenInv, GateInv, Counting
  <2>3. PICK i \in DOMAIN mdir : e \in mdir[i].docs
    BY <1>1, <2>2 DEF InCopy
  <2> QED
    BY <1>2, <2>1, <2>3 DEF Counted, Matching
<1> QED
  BY <1>3, <1>4

\* Every step of the scan keeps what is known of the count.
LEMMA CountStep ==
    ASSUME TypeOK, FiniteInv, NoStaleEntry, NoRowTwice, ScanTypeOK, Copy, Count, ScanStep,
           UNCHANGED vars
    PROVE  Count'
<1> DEFINE Goal == Count'
<1>0. /\ segs \in Seq(Bolt) /\ pend \in Seq(Entry)
      /\ segs' = segs /\ pend' = pend /\ gen' = gen
      /\ mpend \in Seq(Entry) /\ mdir \in Seq(Bolt) /\ spos \in Nat \ {0} /\ sumdf \in Nat
      /\ PassInv /\ GateInv /\ SumInv
  BY DEF TypeOK, ScanTypeOK, Copy, Count, vars
<1> USE <1>0 DEF Count, GateInv, SumInv, Counting
<1>1. ASSUME NEW p \in Passes, weave_beginscan(p) PROVE Goal
  BY <1>1 DEF weave_beginscan, FirstStep, GenerationFirst, copyVars, readVars
<1>2. ASSUME weave_endscan PROVE Goal
  BY <1>2 DEF weave_endscan, ScanReset, copyVars, readVars
<1>3. ASSUME weave_read_meta_generation PROVE Goal
  BY <1>3 DEF weave_read_meta_generation, copyVars, readVars
<1>4. ASSUME weave_read_meta PROVE Goal
  BY <1>4 DEF weave_read_meta, GenerationFirst, copyVars, readVars
<1>5. ASSUME weave_tombstones_load PROVE Goal
  BY <1>5 DEF weave_tombstones_load, copyVars, readVars
<1>6. ASSUME weave_sm_open_checked PROVE Goal
  BY <1>6 DEF weave_sm_open_checked, copyVars, readVars
<1>7. ASSUME weave_collect_bolt PROVE Goal
  BY <1>7 DEF weave_collect_bolt, copyVars, readVars
<1>8. ASSUME weave_store_unreadable PROVE Goal
  BY <1>8 DEF weave_store_unreadable, Retry, FirstStep, GenerationFirst, copyVars, readVars
<1>9. ASSUME weave_pending_head PROVE Goal
  BY <1>9 DEF weave_pending_head, copyVars, readVars
<1>10. ASSUME weave_collect_pending PROVE Goal
  BY <1>10 DEF weave_collect_pending, copyVars, readVars
<1>11. ASSUME weave_recheck_generation PROVE Goal
  BY <1>11 DEF weave_recheck_generation, Retry, FirstStep, GenerationFirst, copyVars, readVars
<1>12. ASSUME weave_count_gates PROVE Goal
  <2>1. /\ mdir' = segs /\ mpend' = pend /\ spos' = 1 /\ sumdf' = sumdf
        /\ pass = "count" /\ spc = "meta"
        /\ spc' \in {"dict", "meta"}
        /\ spc' = "dict" => pend = << >> /\ \A i \in DOMAIN segs : segs[i].dead = {}
    BY <1>12 DEF weave_count_gates, TakeFullPath
  <2>2. sumdf' = 0
    BY <2>1 DEF PassInv
  <2>3. ASSUME spc' = "dict"
        PROVE  /\ \A i \in DOMAIN segs : IsFiniteSet(segs[i].docs)
               /\ \A i, j \in DOMAIN segs : i # j => segs[i].docs \cap segs[j].docs = {}
    <3>1. \A i \in DOMAIN segs : LiveDocs(segs[i]) = segs[i].docs
      BY <2>1, <2>3 DEF LiveDocs
    <3> QED
      BY <3>1 DEF FiniteInv, NoRowTwice
  <2>4. GateInv'
    BY <2>1, <2>3
  <2>5. Cardinality(Counted(spos - 1)') = 0
    <3>1. Counted(spos - 1)' = {}
      BY <2>1 DEF Counted
    <3> QED
      BY <3>1, FS_EmptySet
  <2> QED
    BY <2>1, <2>2, <2>4, <2>5
<1>13. ASSUME weave_count_lookup_dict PROVE Goal
  <2>1. /\ spc = "dict" /\ spos \in DOMAIN mdir /\ spos' = spos + 1
        /\ UNCHANGED <<spc, pass, seen, sgen, mdir, mpend>>
    BY <1>13 DEF weave_count_lookup_dict, copyVars
  <2>2. GateInv'
    BY <2>1
  <2>3. ASSUME gen = sgen PROVE sumdf' = Cardinality(Counted(spos))
    <3>1. BoltKept(spos)
      BY <2>1, <2>3 DEF Copy, CopyInv, BoltKept
    <3>2. sumdf' = sumdf + Cardinality(Hits(mdir[spos].docs))
      BY <1>13, <3>1 DEF weave_count_lookup_dict
    <3>3. Hits(mdir[spos].docs) = Matching(mdir[spos].docs)
      BY <2>1 DEF PassInv, Hits, Matching
    <3>4. IsFiniteSet(Counted(spos - 1))
      BY <2>1, CountedFinite
    <3>5. Cardinality(Counted(spos)) =
             Cardinality(Counted(spos - 1)) + Cardinality(Matching(mdir[spos].docs))
      BY <2>1, <3>4, CountedNext
    <3> QED
      BY <2>1, <2>3, <3>2, <3>3, <3>5
  <2>4. SumInv'
    <3>1. spos' - 1 = spos /\ mdir' = mdir
      BY <2>1
    <3>2. Counted(spos - 1)' = Counted(spos)
      BY <3>1 DEF Counted
    <3> QED
      BY <2>1, <2>3, <3>2
  <2> QED
    BY <2>2, <2>4
<1>14. ASSUME weave_count_zero PROVE Goal
  BY <1>14 DEF weave_count_zero, copyVars, readVars
<1>15. ASSUME weave_count_visibility PROVE Goal
  <2>1. /\ spc = "dict" /\ spos > Len(mdir)
        /\ UNCHANGED <<seen, sgen, mdir, mpend, spos>>
        /\ \/ AllVisible /\ spc' = "count_check" /\ sumdf' = sumdf
           \/ spc' = "meta"
    BY <1>15 DEF weave_count_visibility, TakeFullPath, copyVars
  <2>2. ASSUME gen = sgen, AllVisible PROVE sumdf = Cardinality(Matching(seen))
    <3>1. spos - 1 = Len(mdir)
      BY <2>1
    <3>2. Counted(Len(mdir)) = Matching(seen)
      BY <2>1, <2>2, AllCounted
    <3> QED
      BY <2>1, <2>2, <3>1, <3>2
  <2> QED
    BY <2>1, <2>2
<1>16. ASSUME weave_count_check PROVE Goal
  BY <1>16 DEF weave_count_check, TakeFullPath, copyVars, readVars
<1> QED
  BY <1>1, <1>2, <1>3, <1>4, <1>5, <1>6, <1>7, <1>8, <1>9, <1>10,
     <1>11, <1>12, <1>13, <1>14, <1>15, <1>16 DEF ScanStep

-----------------------------------------------------------------------------
(* The theorems *)

\* Every step, of the scan, of a writer or of the server that crashes, keeps the
\* scan's invariant.
LEMMA ScanStepInv == IInv /\ IInv' /\ FiniteInv /\ SInv /\ [ScanNext]_allVars => SInv'
<1> SUFFICES ASSUME IInv, IInv', FiniteInv, SInv, [ScanNext]_allVars PROVE SInv'
  OBVIOUS
<1>0. TypeOK /\ NoStaleEntry /\ NoRowTwice /\ NoRowLost
  BY DEF IInv, Control, Rows
<1>1. ASSUME ScanStep, UNCHANGED vars PROVE SInv'
  <2>1. ScanTypeOK'
    BY <1>0, <1>1, ScanTypeStep DEF SInv, Count
  <2>2. Copy'
    BY <1>0, <1>1, CopyStep DEF SInv
  <2>3. Collect'
    BY <1>0, <1>1, CollectStep DEF SInv
  <2>4. Count'
    BY <1>0, <1>1, CountStep DEF SInv
  <2> QED
    BY <2>1, <2>2, <2>3, <2>4 DEF SInv
<1>2. ASSUME WriterStep, SnapshotHeld, GenerationApart, UNCHANGED scanVars PROVE SInv'
  <2>1. [Next]_vars
    BY ScanStepMaps
  <2> QED
    BY <1>2, <2>1, WriterKeeps
<1>3. ASSUME ScanReset PROVE SInv'
  BY <1>3 DEF ScanReset, SInv, ScanTypeOK, SLabels, Copy, Collect, Count, PassInv, SnapInv,
     CopyInv, SeenInv, TombInv, GotAll, GotTrue, AnswerInv, StoreAlarmTrue, GateInv, SumInv,
     Reading, Counting
<1>4. ASSUME UNCHANGED allVars PROVE SInv'
  <2>1. SnapshotHeld
    BY <1>0, <1>4 DEF allVars, vars, SnapshotHeld, SInv, Copy, SnapInv
  <2>2. GenerationApart
    BY <1>4 DEF allVars, vars, GenerationApart
  <2>3. [Next]_vars
    BY ScanStepMaps
  <2> QED
    BY <1>4, <2>1, <2>2, <2>3, WriterKeeps DEF allVars
<1> QED
  BY <1>1, <1>2, <1>3, <1>4 DEF ScanNext

\* The scan's invariant holds in every reachable state.
THEOREM ScanInvariance == ScanSpec => []SInv
<1>1. ScanInit => SInv
  BY DEF ScanInit, SInv, ScanTypeOK, SLabels, Copy, Collect, Count, PassInv, SnapInv,
     CopyInv, SeenInv, TombInv, GotAll, GotTrue, AnswerInv, StoreAlarmTrue, GateInv, SumInv,
     Reading, Counting
<1> QED
  BY <1>1, ScanStepInv, ScanRefinesIndex, Invariance, DocumentsAreFinite, PTL DEF ScanSpec

\* A scan that answers has every row its snapshot sees and nothing else for their line
\* pointers: the generation bracket makes an unlocked walk over bolts, tombstones and
\* pending list exact, whatever flushes, merges and VACUUMs do meanwhile.
THEOREM ScansAreExact == ScanSpec => []ScanExact
<1>1. SInv => ScanExact
  <2> SUFFICES ASSUME SInv, spc = "answered"
               PROVE  {e \in got : e.tid \in TidsOf(seen)} = Hits(seen)
    BY DEF ScanExact
  <2>1. OnlySeen /\ \A s \in seen : Wanted(s) => s \in got
    BY DEF SInv, Collect, AnswerInv
  <2>2. \A e : e \in got /\ e.tid \in TidsOf(seen) <=> e \in seen /\ Wanted(e)
    BY <2>1 DEF OnlySeen, TidsOf
  <2> QED
    BY <2>2, HitsWanted
<1> QED
  BY <1>1, ScanInvariance, PTL

\* A count the dictionaries give, if not zero, is the number of matching rows the
\* snapshot sees: its gates and the generation re-check leave no other.
THEOREM CountsAreExact == ScanSpec => []NonzeroCountExact
<1>1. SInv => NonzeroCountExact
  <2> SUFFICES ASSUME SInv, spc = "counted", sumdf # 0
               PROVE  sumdf = Cardinality(Hits(seen))
    BY DEF NonzeroCountExact
  <2>1. sumdf = Cardinality(Matching(seen)) /\ pass = "count"
    BY DEF SInv, Copy, Count, PassInv, SumInv
  <2>2. Hits(seen) = Matching(seen)
    BY <2>1 DEF Hits, Matching
  <2> QED
    BY <2>1, <2>2
<1> QED
  BY <1>1, ScanInvariance, PTL

\* No scan calls a sound document list or docvalues store corrupt.
THEOREM AlarmsAreTrue == ScanSpec => []StoreAlarmTrue
<1>1. SInv => StoreAlarmTrue
  BY DEF SInv, Collect
<1> QED
  BY <1>1, ScanInvariance, PTL


=============================================================================
