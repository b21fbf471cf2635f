-------------------------- MODULE WeaveIndexProofs --------------------------
(***************************************************************************)
(* Proofs about WeaveIndex, for every set of line pointers and sessions,   *)
(* every directory capacity and every generation width.                    *)
(***************************************************************************)
EXTENDS WeaveIndex, WeaveDirectoryProofs

-----------------------------------------------------------------------------
(* The inductive invariant *)

Merging(b) == pc[b] \in {"merge", "merge_commit", "merge_stop"}

\* An oversized INSERT whose bolt is not in the directory yet.
Unpublished(b) ==
    /\ job[b] = "insert"
    /\ pc[b] \in {"add_segment", "lock"} \/ (Merging(b) /\ ret[b] = "add_segment")

\* A flush between its walk and its cut.
Walked(b) == pc[b] = "add_and_cut" \/ (Merging(b) /\ ret[b] = "add_and_cut")

\* A bulkdelete that has folded the pending list.
Flushed(b) ==
    \/ pc[b] \in {"bulkdelete", "swap", "heap_vacuum"}
    \/ Merging(b) /\ ret[b] = "bulkdelete"

\* The mutex is held by exactly the session whose position says so.
MutexInv == \A b \in Backends : HoldsMutex(b) <=> mutex = b

\* How a session's position, its statement and its row go together.
JobInv ==
    \A b \in Backends :
        /\ pc[b] = "idle" => job[b] = "none"
        /\ (job[b] = "insert") <=> (row[b] # NoTid)
        /\ job[b] = "insert" =>
             \/ pc[b] \in {"add_segment", "small_runs"}
             \/ pc[b] = "lock" /\ ret[b] = "add_segment"
             \/ Merging(b) /\ ret[b] \in {"add_segment", "done"}
        /\ pc[b] \in {"add_segment", "small_runs"} => job[b] = "insert"
        /\ Merging(b) /\ ret[b] = "add_segment" => job[b] = "insert"
        /\ Flushed(b) => job[b] = "bulkdelete"

\* VACUUM's lock on the table.
OneVacuum ==
    \A b, c \in Backends :
        /\ job[b] \in {"bulkdelete", "vacuumcleanup"}
        /\ job[c] \in {"bulkdelete", "vacuumcleanup"}
        => b = c

\* A row has one writer; it is not in the index until its bolt is published.
OwnInv ==
    /\ \A b, c \in Backends : row[b] # NoTid /\ row[b] = row[c] => b = c
    /\ \A b \in Backends : row[b] # NoTid =>
        /\ Unpublished(b) => st[row[b]] = "busy" /\ built[b] = {EntryOf(row[b])}
        /\ ~Unpublished(b) => st[row[b]] = "indexed"

\* Bolts have different names.
IdInv ==
    /\ \A i \in DOMAIN segs : segs[i].id <= nbolt
    /\ \A i, j \in DOMAIN segs : segs[i].id = segs[j].id => i = j

\* The flush's bolt holds a prefix of the pending list.
CutInv ==
    \A b \in Backends : Walked(b) =>
        /\ cut[b] <= Len(pend)
        /\ built[b] = {pend[i] : i \in 1..cut[b]}

\* The inputs of a merge are where it read them.
SelInv ==
    \A b \in Backends : pc[b] = "merge_commit" =>
        \A i \in DOMAIN sel[b] : i \in DOMAIN segs /\ segs[i] = sel[b][i]

\* The rows of a bulkdelete's dead set stay dead.
DeadInv ==
    \A b \in Backends : job[b] = "bulkdelete" => \A t \in vdead[b] : st[t] = "dead"

\* What bulkdelete's flush leaves on the list, or finds there later, is not of its
\* dead set.
PendClean ==
    \A b \in Backends : job[b] = "bulkdelete" =>
        /\ Walked(b) => \A i \in DOMAIN pend : i > cut[b] => pend[i].tid \notin vdead[b]
        /\ Flushed(b) => \A i \in DOMAIN pend : pend[i].tid \notin vdead[b]

\* Nor is anything live in a bolt it has passed, or that came after its copy.
SegsClean ==
    \A b \in Backends : job[b] = "bulkdelete" =>
        /\ pc[b] = "swap" =>
             \A i \in DOMAIN segs : i < slot[b] \/ i > Len(dir[b]) =>
                \A e \in LiveDocs(segs[i]) : e.tid \notin vdead[b]
        /\ pc[b] = "heap_vacuum" =>
             \A i \in DOMAIN segs : \A e \in LiveDocs(segs[i]) : e.tid \notin vdead[b]

Control == TypeOK /\ MutexInv /\ JobInv /\ OneVacuum

Plan ==
    /\ OwnInv /\ IdInv /\ CutInv /\ SelInv /\ SwapHitsItsBolt
    /\ DeadInv /\ PendClean /\ SegsClean

Rows == NoStaleEntry /\ NoRowTwice /\ NoRowLost

IInv == Control /\ Plan /\ Rows

-----------------------------------------------------------------------------
(* Removing positions from the directory *)

\* r is segs[] after a merge: the bolts that stay, each once and in new positions,
\* and the merged bolt g last.
Replaced(S, g, r) ==
    /\ r \in Seq(Bolt) /\ Len(r) \in Nat \ {0} /\ r[Len(r)] = g
    /\ Len(r) \in DOMAIN r
    /\ \A k \in DOMAIN r : k \in 1..(Len(r) - 1) \/ k = Len(r)
    /\ \A k \in 1..(Len(r) - 1) :
         k \in DOMAIN r /\ OldPos(segs, S, k) \in (DOMAIN segs) \ S
         /\ r[k] = segs[OldPos(segs, S, k)]
    /\ \A k, l \in 1..(Len(r) - 1) : OldPos(segs, S, k) = OldPos(segs, S, l) => k = l
    /\ \A i \in (DOMAIN segs) \ S : \E k \in 1..(Len(r) - 1) : OldPos(segs, S, k) = i

\* What the directory rewrite of a merge computes.
LEMMA ReplaceBoltsFacts ==
    ASSUME segs \in Seq(Bolt), NEW S \in SUBSET DOMAIN segs, NEW g \in Bolt
    PROVE  Replaced(S, g, ReplaceBolts(S, g))
<1> DEFINE r == ReplaceBolts(S, g)
           m == KeptLen(segs, S)
<1>1. <<g>> \in Seq(Bolt) /\ Len(<<g>>) = 1 /\ <<g>>[1] = g /\ DOMAIN <<g>> = {1}
  OBVIOUS
<1>2. Rewrites(segs, S, <<g>>, r, Bolt)
  BY <1>1, RewrittenFacts DEF ReplaceBolts
<1> HIDE DEF r, m
<1>3. /\ r \in Seq(Bolt) /\ m \in Nat /\ Len(r) = m + 1
      /\ m + 1 \in DOMAIN r /\ r[m + 1] = g
      /\ \A k \in DOMAIN r : k \in 1..m \/ k - m = 1
  BY <1>1, <1>2 DEF Rewrites, m
<1>4. Len(r) - 1 = m /\ Len(r) \in Nat \ {0}
  BY <1>3
<1>5. \A k \in DOMAIN r : k \in 1..m \/ k = Len(r)
  <2>1. \A k \in DOMAIN r : k \in Int
    BY <1>3
  <2> QED
    BY <1>3, <2>1
<1>6. /\ \A k \in 1..m : k \in DOMAIN r /\ OldPos(segs, S, k) \in (DOMAIN segs) \ S
                           /\ r[k] = segs[OldPos(segs, S, k)]
      /\ \A k, l \in 1..m : OldPos(segs, S, k) = OldPos(segs, S, l) => k = l
      /\ \A i \in (DOMAIN segs) \ S : \E k \in 1..m : OldPos(segs, S, k) = i
  BY <1>2 DEF Rewrites, m
<1> QED
  BY <1>3, <1>4, <1>5, <1>6 DEF Replaced, r

-----------------------------------------------------------------------------
(* Type correctness *)

\* The generation stays within its width.
LEMMA GenerationType ==
    ASSUME gen \in 0..(GenMod - 1), BumpGeneration
    PROVE  gen' \in 0..(GenMod - 1)
BY GenAssumption DEF BumpGeneration

\* Every step preserves the type invariant.
LEMMA TypeInductive == TypeOK /\ [Next]_vars => TypeOK'
<1> USE SessionAssumption, NullAssumption, CapacityAssumption, GenAssumption, BoundAssumption
<1> SUFFICES ASSUME TypeOK, [Next]_vars PROVE TypeOK'
  OBVIOUS
<1> USE DEF TypeOK, Labels, Jobs
<1>1. ASSUME NEW t \in Tids, NEW isnull \in NullFlags, heap_insert(t, isnull) PROVE TypeOK'
  BY <1>1 DEF heap_insert, metaVars, mergeVars, flushVars, vacVars
<1>2. ASSUME NEW t \in Tids, heap_commit(t) PROVE TypeOK'
  BY <1>2 DEF heap_commit, metaVars, mergeVars, flushVars, vacVars
<1>3. ASSUME NEW t \in Tids, heap_kill(t) PROVE TypeOK'
  BY <1>3 DEF heap_kill, metaVars, mergeVars, flushVars, vacVars
<1>4. ASSUME NEW t \in Tids, weave_insert(t) PROVE TypeOK'
  <2>1. EntryOf(t) \in Entry
    BY DEF EntryOf, Entry
  <2>2. pend' \in Seq(Entry)
    BY <1>4, <2>1 DEF weave_insert
  <2> QED
    BY <1>4, <2>2 DEF weave_insert, mergeVars, flushVars, vacVars
<1>5. ASSUME NEW b \in Backends, weave_maintenance_lock(b) PROVE TypeOK'
  BY <1>5 DEF weave_maintenance_lock, Goto, heapVars, metaVars, mergeVars, flushVars, vacVars
<1>6. ASSUME NEW b \in Backends, Abandon(b) PROVE TypeOK'
  <2>1. st' \in [Tids -> {"unused", "busy", "indexed", "live", "dead"}]
    BY <1>6 DEF Abandon
  <2>2. Rest(b) /\ UNCHANGED <<inc, nul, metaVars>>
    BY <1>6 DEF Abandon
  <2> QED
    BY <2>1, <2>2 DEF Rest, Goto, metaVars
<1>7. ASSUME Crash PROVE TypeOK'
  BY <1>7 DEF Crash, metaVars
<1>8. ASSUME NEW b \in Backends, NEW S \in SUBSET DOMAIN segs, weave_merge_selected(b, S)
      PROVE  TypeOK'
  <2>1. sel' = [sel EXCEPT ![b] = [i \in S |-> segs[i]]] /\ \A i \in S : segs[i] \in Bolt
    BY <1>8 DEF weave_merge_selected
  <2>2. DOMAIN sel' = Backends /\ \A c \in Backends : \A i \in DOMAIN sel'[c] : sel'[c][i] \in Bolt
    BY <2>1
  <2>3. pc' \in [Backends -> Labels]
    BY <1>8 DEF weave_merge_selected, Goto
  <2> QED
    BY <1>8, <2>2, <2>3 DEF weave_merge_selected, heapVars, metaVars, flushVars, vacVars
<1>9. ASSUME NEW b \in Backends, weave_merge_commit(b) PROVE TypeOK'
  <2>1. Consumed(b) \in SUBSET DOMAIN segs
    BY DEF Consumed
  <2>2. MergedDocs(sel[b]) \in SUBSET Entry
    BY DEF MergedDocs, LiveDocs, Bolt
  <2>3. NewBolt(MergedDocs(sel[b])) \in Bolt
    BY <2>2 DEF NewBolt, Bolt
  <2>4. ReplaceBolts(Consumed(b), NewBolt(MergedDocs(sel[b]))) \in Seq(Bolt)
    BY <2>1, <2>3, ReplaceBoltsFacts DEF Replaced
  <2>5. \/ /\ segs' = ReplaceBolts(Consumed(b), NewBolt(MergedDocs(sel[b])))
           /\ nbolt' = nbolt + 1 /\ BumpGeneration /\ Goto(b, "merge")
        \/ UNCHANGED <<segs, nbolt, gen>> /\ Goto(b, "merge_stop")
    BY <1>9 DEF weave_merge_commit
  <2>6. segs' \in Seq(Bolt) /\ nbolt' \in Nat
    BY <2>4, <2>5
  <2>7. gen' \in 0..(GenMod - 1)
    BY <2>5, GenerationType
  <2>8. pc' \in [Backends -> Labels]
    BY <2>5 DEF Goto
  <2>9. sel' = [sel EXCEPT ![b] = << >>]
        /\ UNCHANGED <<heapVars, pend, mutex, job, row, tries, ret, flushVars, vacVars>>
    BY <1>9 DEF weave_merge_commit
  <2>10. DOMAIN sel' = Backends /\ \A c \in Backends : \A i \in DOMAIN sel'[c] : sel'[c][i] \in Bolt
    BY <2>9
  <2> QED
    BY <2>6, <2>7, <2>8, <2>9, <2>10 DEF heapVars, flushVars, vacVars
<1>10. ASSUME NEW b \in Backends, weave_merge_stop(b) PROVE TypeOK'
  <2>1. CASE Rest(b)
    <3>1. UNCHANGED <<heapVars, metaVars>>
      BY <1>10 DEF weave_merge_stop
    <3> QED
      BY <2>1, <3>1 DEF Rest, Goto, heapVars, metaVars
  <2>2. CASE ~Rest(b)
    <3>1. /\ Goto(b, ret[b])
          /\ mutex' = IF ret[b] = "add_segment" THEN NoBackend ELSE mutex
          /\ UNCHANGED <<job, row, mergeVars, flushVars, vacVars>>
          /\ UNCHANGED <<heapVars, metaVars>>
          /\ ret[b] # "done"
      BY <1>10, <2>2 DEF weave_merge_stop
    <3> QED
      BY <3>1 DEF Goto, heapVars, metaVars, mergeVars, flushVars, vacVars
  <2> QED
    BY <2>1, <2>2
<1>11. ASSUME NEW b \in Backends, weave_flush_pending(b) PROVE TypeOK'
  <2>1. {pend[i] : i \in DOMAIN pend} \in SUBSET Entry /\ Len(pend) \in Nat
    OBVIOUS
  <2>2. built' \in [Backends -> SUBSET Entry] /\ cut' \in [Backends -> Nat]
    <3>1. \/ UNCHANGED <<built, cut>>
          \/ /\ built' = [built EXCEPT ![b] = {pend[i] : i \in DOMAIN pend}]
             /\ cut' = [cut EXCEPT ![b] = Len(pend)]
      BY <1>11 DEF weave_flush_pending, flushVars
    <3>2. CASE UNCHANGED <<built, cut>>
      BY <3>2
    <3>3. CASE built' = [built EXCEPT ![b] = {pend[i] : i \in DOMAIN pend}]
               /\ cut' = [cut EXCEPT ![b] = Len(pend)]
      <4>1. built' \in [Backends -> SUBSET Entry]
        BY <2>1, <3>3
      <4>2. cut' \in [Backends -> Nat]
        BY <2>1, <3>3
      <4> QED
        BY <4>1, <4>2
    <3> QED
      BY <3>1, <3>2, <3>3
  <2>3. tries' \in [Backends -> Nat] /\ ret' \in [Backends -> {"done", "bulkdelete", "add_and_cut", "add_segment"}]
    BY <1>11 DEF weave_flush_pending, AfterFlush
  <2>4. pc' \in [Backends -> Labels]
    <3>1. PICK l \in {"bulkdelete", "merge", "add_and_cut"} : pc' = [pc EXCEPT ![b] = l]
      BY <1>11 DEF weave_flush_pending, Goto
    <3> QED
      BY <3>1
  <2> QED
    BY <1>11, <2>2, <2>3, <2>4 DEF weave_flush_pending, heapVars, metaVars, vacVars
<1>12. ASSUME NEW b \in Backends, weave_flush_add_and_cut(b) PROVE TypeOK'
  <2>1. NewBolt(built[b]) \in Bolt
    BY DEF NewBolt, Bolt
  <2>2. segs' \in Seq(Bolt) /\ nbolt' \in Nat
    BY <1>12, <2>1 DEF weave_flush_add_and_cut
  <2>3. pend' \in Seq(Entry)
    <3>1. pend' = SubSeq(pend, cut[b] + 1, Len(pend))
      BY <1>12 DEF weave_flush_add_and_cut, KeptPending
    <3>2. cut[b] + 1 \in 1..(Len(pend) + 1) \/ cut[b] + 1 > Len(pend)
      OBVIOUS
    <3> QED
      BY <3>1, <3>2
  <2>4. gen' \in 0..(GenMod - 1)
    BY <1>12, GenerationType DEF weave_flush_add_and_cut
  <2>5. pc' \in [Backends -> Labels] /\ ret' \in [Backends -> {"done", "bulkdelete", "add_and_cut", "add_segment"}]
        /\ built' \in [Backends -> SUBSET Entry] /\ cut' \in [Backends -> Nat]
    BY <1>12 DEF weave_flush_add_and_cut, AfterFlush, Goto
  <2> QED
    BY <1>12, <2>2, <2>3, <2>4, <2>5 DEF weave_flush_add_and_cut, heapVars, vacVars
<1>13. ASSUME NEW b \in Backends, weave_add_segment_with_room(b) PROVE TypeOK'
  <2>1. tries' \in [Backends -> Nat]
    BY <1>13 DEF weave_add_segment_with_room
  <2>2. ret' \in [Backends -> {"done", "bulkdelete", "add_and_cut", "add_segment"}]
        /\ pc' \in [Backends -> Labels]
    BY <1>13 DEF weave_add_segment_with_room, Goto
  <2> QED
    BY <1>13, <2>1, <2>2 DEF weave_add_segment_with_room, heapVars, metaVars, flushVars, vacVars
<1>14. ASSUME NEW b \in Backends, weave_directory_full(b) PROVE TypeOK'
  <2>1. st' \in [Tids -> {"unused", "busy", "indexed", "live", "dead"}]
    BY <1>14 DEF weave_directory_full
  <2>2. Rest(b) /\ UNCHANGED <<inc, nul, metaVars>>
    BY <1>14 DEF weave_directory_full
  <2> QED
    BY <2>1, <2>2 DEF Rest, Goto, metaVars
<1>15. ASSUME NEW b \in Backends, NEW t \in Tids, weave_insert_oversized_as_segment(b, t)
       PROVE  TypeOK'
  <2>1. EntryOf(t) \in Entry
    BY DEF EntryOf, Entry
  <2>2. pc' \in [Backends -> Labels] /\ job' \in [Backends -> Jobs]
    BY <1>15 DEF weave_insert_oversized_as_segment, Goto
  <2>3. built' \in [Backends -> SUBSET Entry]
    BY <1>15, <2>1 DEF weave_insert_oversized_as_segment
  <2>4. row' \in [Backends -> Tids \cup {NoTid}]
    BY <1>15 DEF weave_insert_oversized_as_segment
  <2> QED
    BY <1>15, <2>2, <2>3, <2>4 DEF weave_insert_oversized_as_segment, heapVars, metaVars, vacVars
<1>16. ASSUME NEW b \in Backends, weave_meta_add_segment(b) PROVE TypeOK'
  <2>1. NewBolt(built[b]) \in Bolt
    BY DEF NewBolt, Bolt
  <2>2. segs' \in Seq(Bolt) /\ nbolt' \in Nat
    BY <1>16, <2>1 DEF weave_meta_add_segment
  <2>3. gen' \in 0..(GenMod - 1)
    BY <1>16, GenerationType DEF weave_meta_add_segment
  <2>4. st' \in [Tids -> {"unused", "busy", "indexed", "live", "dead"}]
    BY <1>16 DEF weave_meta_add_segment
  <2>5. pc' \in [Backends -> Labels]
    BY <1>16 DEF weave_meta_add_segment, Goto
  <2> QED
    BY <1>16, <2>2, <2>3, <2>4, <2>5 DEF weave_meta_add_segment, mergeVars, vacVars
<1>17. ASSUME NEW b \in Backends, weave_small_runs_merge(b) PROVE TypeOK'
  BY <1>17 DEF weave_small_runs_merge, Goto, heapVars, metaVars, flushVars, vacVars
<1>18. ASSUME NEW b \in Backends, weave_small_runs_skip(b) PROVE TypeOK'
  BY <1>18 DEF weave_small_runs_skip, Rest, Goto, heapVars, metaVars
<1>19. ASSUME NEW b \in Backends, weave_merge(b) PROVE TypeOK'
  BY <1>19 DEF weave_merge, Goto, heapVars, metaVars, mergeVars, flushVars, vacVars
<1>20. ASSUME NEW b \in Backends, vacuum_heap_scan(b) PROVE TypeOK'
  BY <1>20 DEF vacuum_heap_scan, Goto, heapVars, metaVars, mergeVars, flushVars
<1>21. ASSUME NEW b \in Backends, weave_bulkdelete(b) PROVE TypeOK'
  BY <1>21 DEF weave_bulkdelete, Goto, heapVars, metaVars, mergeVars, flushVars
<1>22. ASSUME NEW b \in Backends, weave_bulkdelete_swap(b) PROVE TypeOK'
  <2>1. slot[b] \in DOMAIN dir[b] /\ dir[b][slot[b]] \in Bolt
    BY <1>22 DEF weave_bulkdelete_swap
  <2>2. NewDead(b, dir[b][slot[b]]) \in SUBSET Tids
    BY <2>1 DEF NewDead, Bolt
  <2>3. \/ /\ slot[b] <= Len(segs)
           /\ segs' = [segs EXCEPT ![slot[b]].dead = NewDead(b, dir[b][slot[b]])]
           /\ BumpGeneration
        \/ UNCHANGED <<segs, gen>>
    BY <1>22 DEF weave_bulkdelete_swap
  <2>4. segs' \in Seq(Bolt)
    <3>1. CASE slot[b] <= Len(segs)
               /\ segs' = [segs EXCEPT ![slot[b]].dead = NewDead(b, dir[b][slot[b]])]
      <4>1. slot[b] \in DOMAIN segs /\ segs[slot[b]] \in Bolt
        BY <3>1
      <4>2. [segs[slot[b]] EXCEPT !.dead = NewDead(b, dir[b][slot[b]])] \in Bolt
        BY <2>2, <4>1 DEF Bolt
      <4>3. segs' = [segs EXCEPT ![slot[b]] = [segs[slot[b]] EXCEPT !.dead = NewDead(b, dir[b][slot[b]])]]
        BY <3>1
      <4> QED
        BY <4>1, <4>2, <4>3, SMTT(30)
    <3> QED
      BY <2>3, <3>1
  <2>5. gen' \in 0..(GenMod - 1)
    BY <2>3, GenerationType
  <2>6. /\ slot' = [slot EXCEPT ![b] = slot[b] + 1]
        /\ UNCHANGED <<heapVars, pend, nbolt, mutex, pc, job, row, mergeVars, flushVars, dir, vdead>>
    BY <1>22 DEF weave_bulkdelete_swap
  <2>7. slot' \in [Backends -> Nat \ {0}]
    <3>1. slot[b] + 1 \in Nat \ {0}
      OBVIOUS
    <3> QED
      BY <2>6, <3>1
  <2> QED
    BY <2>4, <2>5, <2>6, <2>7 DEF heapVars, mergeVars, flushVars
<1>23. ASSUME NEW b \in Backends, weave_bulkdelete_end(b) PROVE TypeOK'
  BY <1>23 DEF weave_bulkdelete_end, Goto, heapVars, metaVars, mergeVars, flushVars
<1>24. ASSUME NEW b \in Backends, vacuum_heap(b) PROVE TypeOK'
  BY <1>24 DEF vacuum_heap, Goto, metaVars, mergeVars, flushVars
<1>25. CASE UNCHANGED vars
  BY <1>25 DEF vars
<1> QED
  BY <1>1, <1>2, <1>3, <1>4, <1>5, <1>6, <1>7, <1>8, <1>9, <1>10, <1>11, <1>12, <1>13, <1>14,
     <1>15, <1>16, <1>17, <1>18, <1>19, <1>20, <1>21, <1>22, <1>23, <1>24, <1>25
  DEF Next, HeapStep, SessionStart, SessionStep, CountedStep, UncountedStep
-----------------------------------------------------------------------------
(* Positions, statements and the mutex *)

\* Every step preserves the control part of the invariant.
LEMMA ControlInductive ==
    Control /\ [Next]_vars => MutexInv' /\ JobInv' /\ OneVacuum'
<1> USE SessionAssumption
<1> DEFINE Goal == MutexInv' /\ JobInv' /\ OneVacuum'
<1> SUFFICES ASSUME Control, [Next]_vars PROVE Goal
  OBVIOUS
<1>0. /\ mutex \in Backends \cup {NoBackend}
      /\ pc \in [Backends -> Labels]
      /\ job \in [Backends -> Jobs]
      /\ row \in [Backends -> Tids \cup {NoTid}]
      /\ ret \in [Backends -> {"done", "bulkdelete", "add_and_cut", "add_segment"}]
      /\ MutexInv /\ JobInv /\ OneVacuum
  BY DEF Control, TypeOK
<1> USE <1>0 DEF MutexInv, JobInv, OneVacuum, HoldsMutex, Merging, Flushed
<1>1. ASSUME NEW t \in Tids, NEW isnull \in NullFlags, heap_insert(t, isnull) PROVE Goal
  BY <1>1 DEF heap_insert, mergeVars, Labels, Jobs
<1>2. ASSUME NEW t \in Tids, heap_commit(t) PROVE Goal
  BY <1>2 DEF heap_commit, mergeVars, Labels, Jobs
<1>3. ASSUME NEW t \in Tids, heap_kill(t) PROVE Goal
  BY <1>3 DEF heap_kill, mergeVars, Labels, Jobs
<1>4. ASSUME NEW t \in Tids, weave_insert(t) PROVE Goal
  BY <1>4 DEF weave_insert, mergeVars, Labels, Jobs
<1>5. ASSUME NEW b \in Backends, weave_maintenance_lock(b) PROVE Goal
  BY <1>5 DEF weave_maintenance_lock, Goto, mergeVars, Labels, Jobs
<1>6. ASSUME NEW b \in Backends, Abandon(b) PROVE Goal
  BY <1>6 DEF Abandon, Goto, Rest, mergeVars, Labels, Jobs
<1>7. ASSUME Crash PROVE Goal
  BY <1>7 DEF Crash, mergeVars, Labels, Jobs
<1>8. ASSUME NEW b \in Backends, NEW S \in SUBSET DOMAIN segs, weave_merge_selected(b, S) PROVE Goal
  BY <1>8 DEF weave_merge_selected, Goto, mergeVars, Labels, Jobs
<1>9. ASSUME NEW b \in Backends, weave_merge_commit(b) PROVE Goal
  BY <1>9 DEF weave_merge_commit, Goto, mergeVars, Labels, Jobs
<1>10. ASSUME NEW b \in Backends, weave_merge_stop(b) PROVE Goal
  BY <1>10 DEF weave_merge_stop, Goto, Rest, mergeVars, Labels, Jobs
<1>11. ASSUME NEW b \in Backends, weave_flush_pending(b) PROVE Goal
  BY <1>11 DEF weave_flush_pending, Goto, AfterFlush, mergeVars, Labels, Jobs
<1>12. ASSUME NEW b \in Backends, weave_flush_add_and_cut(b) PROVE Goal
  BY <1>12 DEF weave_flush_add_and_cut, Goto, AfterFlush, mergeVars, Labels, Jobs
<1>13. ASSUME NEW b \in Backends, weave_add_segment_with_room(b) PROVE Goal
  BY <1>13 DEF weave_add_segment_with_room, Goto, mergeVars, Labels, Jobs
<1>14. ASSUME NEW b \in Backends, weave_directory_full(b) PROVE Goal
  BY <1>14 DEF weave_directory_full, Goto, Rest, mergeVars, Labels, Jobs
<1>15. ASSUME NEW b \in Backends, NEW t \in Tids, weave_insert_oversized_as_segment(b, t) PROVE Goal
  BY <1>15 DEF weave_insert_oversized_as_segment, Goto, mergeVars, Labels, Jobs
<1>16. ASSUME NEW b \in Backends, weave_meta_add_segment(b) PROVE Goal
  BY <1>16 DEF weave_meta_add_segment, Goto, mergeVars, Labels, Jobs
<1>17. ASSUME NEW b \in Backends, weave_small_runs_merge(b) PROVE Goal
  BY <1>17 DEF weave_small_runs_merge, Goto, mergeVars, Labels, Jobs
<1>18. ASSUME NEW b \in Backends, weave_small_runs_skip(b) PROVE Goal
  BY <1>18 DEF weave_small_runs_skip, Goto, Rest, mergeVars, Labels, Jobs
<1>19. ASSUME NEW b \in Backends, weave_merge(b) PROVE Goal
  BY <1>19 DEF weave_merge, Goto, mergeVars, Labels, Jobs
<1>20. ASSUME NEW b \in Backends, vacuum_heap_scan(b) PROVE Goal
  BY <1>20 DEF vacuum_heap_scan, Goto, Vacuuming, mergeVars, Labels, Jobs
<1>21. ASSUME NEW b \in Backends, weave_bulkdelete(b) PROVE Goal
  BY <1>21 DEF weave_bulkdelete, Goto, mergeVars, Labels, Jobs
<1>22. ASSUME NEW b \in Backends, weave_bulkdelete_swap(b) PROVE Goal
  BY <1>22 DEF weave_bulkdelete_swap, mergeVars, Labels, Jobs
<1>23. ASSUME NEW b \in Backends, weave_bulkdelete_end(b) PROVE Goal
  BY <1>23 DEF weave_bulkdelete_end, Goto, mergeVars, Labels, Jobs
<1>24. ASSUME NEW b \in Backends, vacuum_heap(b) PROVE Goal
  BY <1>24 DEF vacuum_heap, Goto, mergeVars, Labels, Jobs
<1>25. CASE UNCHANGED vars
  BY <1>25 DEF vars
<1> QED
  BY <1>1, <1>2, <1>3, <1>4, <1>5, <1>6, <1>7, <1>8, <1>9, <1>10, <1>11, <1>12, <1>13,
     <1>14, <1>15, <1>16, <1>17, <1>18, <1>19, <1>20, <1>21, <1>22, <1>23, <1>24, <1>25
  DEF Next, HeapStep, SessionStart, SessionStep, CountedStep, UncountedStep

-----------------------------------------------------------------------------
(* Rows, bolts and what the sessions know of them *)

\* Every step preserves the ownership of rows.
LEMMA OwnInductive == IInv /\ [Next]_vars => OwnInv'
<1> USE SessionAssumption
<1> DEFINE Goal == OwnInv'
<1> SUFFICES ASSUME IInv, [Next]_vars PROVE Goal
  OBVIOUS
<1>0. /\ st \in [Tids -> {"unused", "busy", "indexed", "live", "dead"}]
      /\ inc \in [Tids -> Nat]
      /\ nul \in [Tids -> BOOLEAN]
      /\ pc \in [Backends -> Labels]
      /\ job \in [Backends -> Jobs]
      /\ row \in [Backends -> Tids \cup {NoTid}]
      /\ ret \in [Backends -> {"done", "bulkdelete", "add_and_cut", "add_segment"}]
      /\ built \in [Backends -> SUBSET Entry]
      /\ JobInv /\ OwnInv
  BY DEF IInv, Control, Plan, TypeOK
<1> USE <1>0 DEF JobInv, OwnInv, Unpublished, Merging, EntryOf
<1>1. ASSUME NEW t \in Tids, NEW isnull \in NullFlags, heap_insert(t, isnull) PROVE Goal
  BY <1>1 DEF heap_insert, Owned, heapVars, mergeVars, flushVars
<1>2. ASSUME NEW t \in Tids, heap_commit(t) PROVE Goal
  BY <1>2 DEF heap_commit, Owned, heapVars, mergeVars, flushVars
<1>3. ASSUME NEW t \in Tids, heap_kill(t) PROVE Goal
  BY <1>3 DEF heap_kill, Owned, heapVars, mergeVars, flushVars
<1>4. ASSUME NEW t \in Tids, weave_insert(t) PROVE Goal
  BY <1>4 DEF weave_insert, Owned, heapVars, mergeVars, flushVars
<1>5. ASSUME NEW b \in Backends, weave_maintenance_lock(b) PROVE Goal
  BY <1>5 DEF weave_maintenance_lock, Goto, Owned, heapVars, mergeVars, flushVars
<1>6. ASSUME NEW b \in Backends, Abandon(b) PROVE Goal
  BY <1>6 DEF Abandon, Goto, Rest, Owned, heapVars, mergeVars, flushVars
<1>7. ASSUME Crash PROVE Goal
  BY <1>7 DEF Crash, Owned, heapVars, mergeVars, flushVars
<1>8. ASSUME NEW b \in Backends, NEW S \in SUBSET DOMAIN segs, weave_merge_selected(b, S) PROVE Goal
  BY <1>8 DEF weave_merge_selected, Goto, Owned, heapVars, mergeVars, flushVars
<1>9. ASSUME NEW b \in Backends, weave_merge_commit(b) PROVE Goal
  <2>1. /\ UNCHANGED <<st, inc, nul, job, row, ret, built>>
        /\ pc[b] = "merge_commit" /\ (Goto(b, "merge") \/ Goto(b, "merge_stop"))
    BY <1>9 DEF weave_merge_commit, heapVars, flushVars
  <2> QED
    BY <2>1 DEF Goto
<1>10. ASSUME NEW b \in Backends, weave_merge_stop(b) PROVE Goal
  <2>1. UNCHANGED <<heapVars, metaVars>>
    BY <1>10 DEF weave_merge_stop
  <2>2. CASE Rest(b)
    BY <1>10, <2>1, <2>2 DEF Rest, Goto, heapVars
  <2>3. CASE /\ ret[b] # "done" /\ Goto(b, ret[b])
             /\ UNCHANGED <<job, row, mergeVars, flushVars, vacVars>>
    BY <1>10, <2>1, <2>3 DEF weave_merge_stop, Goto, heapVars, mergeVars, flushVars
  <2> QED
    BY <1>10, <2>2, <2>3 DEF weave_merge_stop
<1>11. ASSUME NEW b \in Backends, weave_flush_pending(b) PROVE Goal
  BY <1>11 DEF weave_flush_pending, Goto, AfterFlush, Owned, heapVars, mergeVars, flushVars
<1>12. ASSUME NEW b \in Backends, weave_flush_add_and_cut(b) PROVE Goal
  BY <1>12 DEF weave_flush_add_and_cut, Goto, AfterFlush, Owned, heapVars, mergeVars, flushVars
<1>13. ASSUME NEW b \in Backends, weave_add_segment_with_room(b) PROVE Goal
  BY <1>13 DEF weave_add_segment_with_room, Goto, Owned, heapVars, mergeVars, flushVars
<1>14. ASSUME NEW b \in Backends, weave_directory_full(b) PROVE Goal
  BY <1>14 DEF weave_directory_full, Goto, Rest, Owned, heapVars, mergeVars, flushVars
<1>15. ASSUME NEW b \in Backends, NEW t \in Tids, weave_insert_oversized_as_segment(b, t) PROVE Goal
  BY <1>15 DEF weave_insert_oversized_as_segment, Goto, Owned, heapVars, mergeVars, flushVars
<1>16. ASSUME NEW b \in Backends, weave_meta_add_segment(b) PROVE Goal
  BY <1>16 DEF weave_meta_add_segment, Goto, Owned, heapVars, mergeVars, flushVars
<1>17. ASSUME NEW b \in Backends, weave_small_runs_merge(b) PROVE Goal
  BY <1>17 DEF weave_small_runs_merge, Goto, Owned, heapVars, mergeVars, flushVars
<1>18. ASSUME NEW b \in Backends, weave_small_runs_skip(b) PROVE Goal
  BY <1>18 DEF weave_small_runs_skip, Goto, Rest, Owned, heapVars, mergeVars, flushVars
<1>19. ASSUME NEW b \in Backends, weave_merge(b) PROVE Goal
  BY <1>19 DEF weave_merge, Goto, Owned, heapVars, mergeVars, flushVars
<1>20. ASSUME NEW b \in Backends, vacuum_heap_scan(b) PROVE Goal
  BY <1>20 DEF vacuum_heap_scan, Goto, Vacuuming, Owned, heapVars, mergeVars, flushVars
<1>21. ASSUME NEW b \in Backends, weave_bulkdelete(b) PROVE Goal
  BY <1>21 DEF weave_bulkdelete, Goto, Owned, heapVars, mergeVars, flushVars
<1>22. ASSUME NEW b \in Backends, weave_bulkdelete_swap(b) PROVE Goal
  BY <1>22 DEF weave_bulkdelete_swap, Owned, heapVars, mergeVars, flushVars
<1>23. ASSUME NEW b \in Backends, weave_bulkdelete_end(b) PROVE Goal
  BY <1>23 DEF weave_bulkdelete_end, Goto, Owned, heapVars, mergeVars, flushVars
<1>24. ASSUME NEW b \in Backends, vacuum_heap(b) PROVE Goal
  <2>1. \A t \in vdead[b] : st[t] = "dead"
    BY <1>24 DEF vacuum_heap, IInv, Plan, DeadInv, Control, JobInv, Flushed
  <2> QED
    BY <1>24, <2>1 DEF vacuum_heap, Goto, mergeVars, flushVars
<1>25. CASE UNCHANGED vars
  BY <1>25 DEF vars
<1> QED
  BY <1>1, <1>2, <1>3, <1>4, <1>5, <1>6, <1>7, <1>8, <1>9, <1>10, <1>11, <1>12, <1>13,
     <1>14, <1>15, <1>16, <1>17, <1>18, <1>19, <1>20, <1>21, <1>22, <1>23, <1>24, <1>25
  DEF Next, HeapStep, SessionStart, SessionStep, CountedStep, UncountedStep

\* The parts of a bolt.
LEMMA BoltParts ==
    ASSUME NEW q \in Seq(Bolt), NEW i \in DOMAIN q
    PROVE  /\ q[i] \in Bolt /\ q[i].id \in Nat
           /\ q[i].docs \in SUBSET Entry /\ q[i].dead \in SUBSET Tids
<1>1. q[i] \in Bolt
  OBVIOUS
<1> QED
  BY <1>1 DEF Bolt

\* A tombstone swap writes the next bolt's dead set, and nothing else of the directory.
LEMMA SwapStep ==
    ASSUME IInv, NEW b \in Backends, weave_bulkdelete_swap(b)
    PROVE  /\ pc[b] = "swap" /\ slot[b] \in DOMAIN segs /\ slot[b] \in DOMAIN dir[b]
           /\ DOMAIN segs' = DOMAIN segs /\ Len(segs') = Len(segs)
           /\ \A i \in DOMAIN segs : i # slot[b] => segs'[i] = segs[i]
           /\ segs'[slot[b]] =
                [segs[slot[b]] EXCEPT !.dead = NewDead(b, segs[slot[b]])]
           /\ slot' = [slot EXCEPT ![b] = slot[b] + 1]
<1>1. segs \in Seq(Bolt) /\ dir \in [Backends -> Seq(Bolt)] /\ slot \in [Backends -> Nat \ {0}]
  BY DEF IInv, Control, TypeOK
<1>2. pc[b] = "swap" /\ slot[b] <= Len(dir[b]) /\ slot' = [slot EXCEPT ![b] = slot[b] + 1]
  BY DEF weave_bulkdelete_swap
<1>3. slot[b] \in slot[b]..Len(dir[b]) /\ slot[b] \in DOMAIN dir[b]
  BY <1>1, <1>2
<1>4. slot[b] <= Len(segs) /\ segs[slot[b]] = dir[b][slot[b]]
  BY <1>2, <1>3 DEF IInv, Plan, SwapHitsItsBolt
<1>5. segs' = [segs EXCEPT ![slot[b]].dead = NewDead(b, segs[slot[b]])]
  BY <1>4 DEF weave_bulkdelete_swap
<1>6. slot[b] \in DOMAIN segs
  BY <1>1, <1>4
<1>7. segs' = [segs EXCEPT ![slot[b]] = [segs[slot[b]] EXCEPT !.dead = NewDead(b, segs[slot[b]])]]
  BY <1>5, <1>6
<1>8. DOMAIN segs' = DOMAIN segs /\ Len(segs') = Len(segs)
  BY <1>1, <1>7
<1> QED
  BY <1>2, <1>3, <1>6, <1>7, <1>8

\* The commit of a merge finds all of its inputs, where it read them.
LEMMA MergeStep ==
    ASSUME IInv, NEW b \in Backends, weave_merge_commit(b)
    PROVE  /\ DOMAIN sel[b] \in SUBSET DOMAIN segs
           /\ NewBolt(MergedDocs(sel[b])) \in Bolt
           /\ MergedDocs(sel[b]) = UNION {LiveDocs(segs[i]) : i \in DOMAIN sel[b]}
           /\ segs' = ReplaceBolts(DOMAIN sel[b], NewBolt(MergedDocs(sel[b])))
           /\ nbolt' = nbolt + 1
           /\ BumpGeneration
           /\ Goto(b, "merge")
<1>1. TypeOK /\ SelInv /\ IdInv
  BY DEF IInv, Control, Plan
<1>2. pc[b] = "merge_commit"
  BY DEF weave_merge_commit
<1>3. \A i \in DOMAIN sel[b] : i \in DOMAIN segs /\ segs[i] = sel[b][i]
  BY <1>1, <1>2 DEF SelInv
<1>4. Consumed(b) = DOMAIN sel[b]
  <2>1. ASSUME NEW i \in DOMAIN segs, NEW j \in DOMAIN sel[b], segs[i] = sel[b][j] PROVE i = j
    BY <1>1, <1>3, <2>1 DEF IdInv
  <2> QED
    BY <1>3, <2>1 DEF Consumed
<1>5. MergedDocs(sel[b]) = UNION {LiveDocs(segs[i]) : i \in DOMAIN sel[b]}
  BY <1>3, Zenon DEF MergedDocs
<1>6. MergedDocs(sel[b]) \in SUBSET Entry
  BY <1>1 DEF TypeOK, MergedDocs, LiveDocs, Bolt
<1>7. NewBolt(MergedDocs(sel[b])) \in Bolt
  BY <1>1, <1>6 DEF TypeOK, NewBolt, Bolt
<1> QED
  BY <1>3, <1>4, <1>5, <1>7 DEF weave_merge_commit

\* Every step keeps the bolts' names apart.
LEMMA IdInductive == IInv /\ [Next]_vars => IdInv'
<1> DEFINE Goal == IdInv'
<1> SUFFICES ASSUME IInv, [Next]_vars PROVE Goal
  OBVIOUS
<1>0. segs \in Seq(Bolt) /\ nbolt \in Nat /\ IdInv
  BY DEF IInv, Control, Plan, TypeOK
<1> USE <1>0 DEF IdInv
<1>1. ASSUME NEW t \in Tids, NEW isnull \in NullFlags, heap_insert(t, isnull) PROVE Goal
  BY <1>1 DEF heap_insert, metaVars
<1>2. ASSUME NEW t \in Tids, heap_commit(t) PROVE Goal
  BY <1>2 DEF heap_commit, metaVars
<1>3. ASSUME NEW t \in Tids, heap_kill(t) PROVE Goal
  BY <1>3 DEF heap_kill, metaVars
<1>4. ASSUME NEW t \in Tids, weave_insert(t) PROVE Goal
  BY <1>4 DEF weave_insert, metaVars
<1>5. ASSUME NEW b \in Backends, weave_maintenance_lock(b) PROVE Goal
  BY <1>5 DEF weave_maintenance_lock, Goto, metaVars
<1>6. ASSUME NEW b \in Backends, Abandon(b) PROVE Goal
  BY <1>6 DEF Abandon, Goto, Rest, metaVars
<1>7. ASSUME Crash PROVE Goal
  BY <1>7 DEF Crash, metaVars
<1>8. ASSUME NEW b \in Backends, NEW S \in SUBSET DOMAIN segs, weave_merge_selected(b, S) PROVE Goal
  BY <1>8 DEF weave_merge_selected, Goto, metaVars
<1>9. ASSUME NEW b \in Backends, weave_merge_commit(b) PROVE Goal
  <2> DEFINE g == NewBolt(MergedDocs(sel[b]))
             S == DOMAIN sel[b]
  <2>1. S \in SUBSET DOMAIN segs /\ g \in Bolt /\ segs' = ReplaceBolts(S, g) /\ nbolt' = nbolt + 1
    BY <1>9, MergeStep
  <2>2. g.id = nbolt + 1
    BY DEF NewBolt
  <2> HIDE DEF g, S
  <2>3. /\ Len(segs') \in Nat \ {0} /\ segs'[Len(segs')] = g
        /\ \A k \in DOMAIN segs' : k \in 1..(Len(segs') - 1) \/ k = Len(segs')
        /\ \A k \in 1..(Len(segs') - 1) :
             OldPos(segs, S, k) \in DOMAIN segs /\ segs'[k] = segs[OldPos(segs, S, k)]
        /\ \A k, l \in 1..(Len(segs') - 1) : OldPos(segs, S, k) = OldPos(segs, S, l) => k = l
    <3>1. Replaced(S, g, segs')
      BY <2>1, ReplaceBoltsFacts
    <3> QED
      BY <3>1 DEF Replaced
  <2>4. \A i \in DOMAIN segs : segs[i].id \in Nat
    BY BoltParts
  <2>5. \A k \in 1..(Len(segs') - 1) : segs'[k].id <= nbolt + 1 /\ segs'[k].id # nbolt + 1
    BY <2>3, <2>4
  <2>6. \A k \in DOMAIN segs' : segs'[k].id <= nbolt + 1
    BY <2>2, <2>3, <2>5
  <2>7. \A k, l \in 1..(Len(segs') - 1) : segs'[k].id = segs'[l].id => k = l
    BY <2>3
  <2>8. \A k, l \in DOMAIN segs' : segs'[k].id = segs'[l].id => k = l
    BY <2>2, <2>3, <2>5, <2>7
  <2> QED
    BY <2>1, <2>6, <2>8
<1>10. ASSUME NEW b \in Backends, weave_merge_stop(b) PROVE Goal
  BY <1>10 DEF weave_merge_stop, Goto, Rest, metaVars
<1>11. ASSUME NEW b \in Backends, weave_flush_pending(b) PROVE Goal
  BY <1>11 DEF weave_flush_pending, Goto, AfterFlush, metaVars
<1>12. ASSUME NEW b \in Backends, weave_flush_add_and_cut(b) PROVE Goal
  <2>1. segs' = Append(segs, NewBolt(built[b])) /\ nbolt' = nbolt + 1
    BY <1>12 DEF weave_flush_add_and_cut
  <2>2. NewBolt(built[b]).id = nbolt + 1 /\ \A i \in DOMAIN segs : segs[i].id \in Nat
    BY BoltParts DEF NewBolt
  <2> QED
    BY <2>1, <2>2
<1>13. ASSUME NEW b \in Backends, weave_add_segment_with_room(b) PROVE Goal
  BY <1>13 DEF weave_add_segment_with_room, Goto, metaVars
<1>14. ASSUME NEW b \in Backends, weave_directory_full(b) PROVE Goal
  BY <1>14 DEF weave_directory_full, Goto, Rest, metaVars
<1>15. ASSUME NEW b \in Backends, NEW t \in Tids, weave_insert_oversized_as_segment(b, t) PROVE Goal
  BY <1>15 DEF weave_insert_oversized_as_segment, Goto, metaVars
<1>16. ASSUME NEW b \in Backends, weave_meta_add_segment(b) PROVE Goal
  <2>1. segs' = Append(segs, NewBolt(built[b])) /\ nbolt' = nbolt + 1
    BY <1>16 DEF weave_meta_add_segment
  <2>2. NewBolt(built[b]).id = nbolt + 1 /\ \A i \in DOMAIN segs : segs[i].id \in Nat
    BY BoltParts DEF NewBolt
  <2> QED
    BY <2>1, <2>2
<1>17. ASSUME NEW b \in Backends, weave_small_runs_merge(b) PROVE Goal
  BY <1>17 DEF weave_small_runs_merge, Goto, metaVars
<1>18. ASSUME NEW b \in Backends, weave_small_runs_skip(b) PROVE Goal
  BY <1>18 DEF weave_small_runs_skip, Goto, Rest, metaVars
<1>19. ASSUME NEW b \in Backends, weave_merge(b) PROVE Goal
  BY <1>19 DEF weave_merge, Goto, metaVars
<1>20. ASSUME NEW b \in Backends, vacuum_heap_scan(b) PROVE Goal
  BY <1>20 DEF vacuum_heap_scan, Goto, Vacuuming, metaVars
<1>21. ASSUME NEW b \in Backends, weave_bulkdelete(b) PROVE Goal
  BY <1>21 DEF weave_bulkdelete, Goto, metaVars
<1>22. ASSUME NEW b \in Backends, weave_bulkdelete_swap(b) PROVE Goal
  <2>1. DOMAIN segs' = DOMAIN segs /\ \A i \in DOMAIN segs : segs'[i].id = segs[i].id
    <3>0. \A i \in DOMAIN segs : i # slot[b] => segs'[i] = segs[i]
      BY <1>22, SwapStep
    <3>1. \A i \in DOMAIN segs : i # slot[b] => segs'[i].id = segs[i].id
      BY <3>0, Zenon
    <3>2. segs'[slot[b]] = [segs[slot[b]] EXCEPT !.dead = NewDead(b, segs[slot[b]])]
          /\ slot[b] \in DOMAIN segs /\ DOMAIN segs' = DOMAIN segs
      BY <1>22, SwapStep
    <3>3. segs'[slot[b]].id = segs[slot[b]].id
      BY <3>2, BoltParts DEF Bolt
    <3> QED
      BY <3>1, <3>2, <3>3
  <2>2. nbolt' = nbolt
    BY <1>22 DEF weave_bulkdelete_swap
  <2> QED
    BY <2>1, <2>2
<1>23. ASSUME NEW b \in Backends, weave_bulkdelete_end(b) PROVE Goal
  BY <1>23 DEF weave_bulkdelete_end, Goto, metaVars
<1>24. ASSUME NEW b \in Backends, vacuum_heap(b) PROVE Goal
  BY <1>24 DEF vacuum_heap, Goto, metaVars
<1>25. CASE UNCHANGED vars
  BY <1>25 DEF vars
<1> QED
  BY <1>1, <1>2, <1>3, <1>4, <1>5, <1>6, <1>7, <1>8, <1>9, <1>10, <1>11, <1>12, <1>13,
     <1>14, <1>15, <1>16, <1>17, <1>18, <1>19, <1>20, <1>21, <1>22, <1>23, <1>24, <1>25
  DEF Next, HeapStep, SessionStart, SessionStep, CountedStep, UncountedStep

\* A session that has walked the list is not affected by a step that changes neither
\* the list nor what the session wrote down.
LEMMA CutSame ==
    ASSUME CutInv, pend' = pend,
           \A c \in Backends :
              Walked(c)' => Walked(c) /\ cut'[c] = cut[c] /\ built'[c] = built[c]
    PROVE  CutInv'
<1>1. SUFFICES ASSUME NEW c \in Backends, Walked(c)'
      PROVE  cut'[c] <= Len(pend') /\ built'[c] = {pend'[i] : i \in 1..cut'[c]}
  BY Zenon DEF CutInv
<1>2. Walked(c) /\ cut'[c] = cut[c] /\ built'[c] = built[c]
  BY <1>1
<1>3. cut[c] <= Len(pend) /\ built[c] = {pend[i] : i \in 1..cut[c]}
  BY <1>2 DEF CutInv
<1>4. {pend'[i] : i \in 1..cut'[c]} = {pend[i] : i \in 1..cut[c]}
  BY <1>2, Zenon
<1> QED
  BY <1>2, <1>3, <1>4

\* Every step preserves the flush's hold on its prefix of the list.
LEMMA CutInductive == IInv /\ [Next]_vars => CutInv'
<1> USE SessionAssumption
<1> DEFINE Goal == CutInv'
<1> SUFFICES ASSUME IInv, [Next]_vars PROVE Goal
  OBVIOUS
<1>0. /\ mutex \in Backends \cup {NoBackend}
      /\ pc \in [Backends -> Labels]
      /\ job \in [Backends -> Jobs]
      /\ ret \in [Backends -> {"done", "bulkdelete", "add_and_cut", "add_segment"}]
      /\ pend \in Seq(Entry)
      /\ cut \in [Backends -> Nat]
      /\ built \in [Backends -> SUBSET Entry]
      /\ MutexInv /\ JobInv /\ CutInv
  BY DEF IInv, Control, Plan, TypeOK
<1> USE <1>0 DEF MutexInv, HoldsMutex, JobInv, CutInv, Walked, Merging
<1>1. ASSUME NEW t \in Tids, NEW isnull \in NullFlags, heap_insert(t, isnull) PROVE Goal
  BY <1>1 DEF heap_insert, metaVars, mergeVars, flushVars
<1>2. ASSUME NEW t \in Tids, heap_commit(t) PROVE Goal
  BY <1>2 DEF heap_commit, metaVars, mergeVars, flushVars
<1>3. ASSUME NEW t \in Tids, heap_kill(t) PROVE Goal
  BY <1>3 DEF heap_kill, metaVars, mergeVars, flushVars
<1>4. ASSUME NEW t \in Tids, weave_insert(t) PROVE Goal
  BY <1>4 DEF weave_insert, metaVars, mergeVars, flushVars
<1>5. ASSUME NEW b \in Backends, weave_maintenance_lock(b) PROVE Goal
  BY <1>5 DEF weave_maintenance_lock, Goto, metaVars, mergeVars, flushVars
<1>6. ASSUME NEW b \in Backends, Abandon(b) PROVE Goal
  BY <1>6 DEF Abandon, Goto, Rest, metaVars, mergeVars, flushVars
<1>7. ASSUME Crash PROVE Goal
  BY <1>7 DEF Crash, metaVars, mergeVars, flushVars
<1>8. ASSUME NEW b \in Backends, NEW S \in SUBSET DOMAIN segs, weave_merge_selected(b, S) PROVE Goal
  <2>1. pend' = pend /\ \A c \in Backends :
            Walked(c)' => Walked(c) /\ cut'[c] = cut[c] /\ built'[c] = built[c]
    BY <1>8 DEF weave_merge_selected, Goto, metaVars, flushVars
  <2> QED
    BY <2>1, CutSame
<1>9. ASSUME NEW b \in Backends, weave_merge_commit(b) PROVE Goal
  BY <1>9 DEF weave_merge_commit, Goto, metaVars, mergeVars, flushVars
<1>10. ASSUME NEW b \in Backends, weave_merge_stop(b) PROVE Goal
  BY <1>10 DEF weave_merge_stop, Goto, Rest, metaVars, mergeVars, flushVars
<1>11. ASSUME NEW b \in Backends, weave_flush_pending(b) PROVE Goal
  BY <1>11 DEF weave_flush_pending, Goto, AfterFlush, metaVars, mergeVars, flushVars
<1>12. ASSUME NEW b \in Backends, weave_flush_add_and_cut(b) PROVE Goal
  BY <1>12 DEF weave_flush_add_and_cut, Goto, AfterFlush, metaVars, mergeVars, flushVars
<1>13. ASSUME NEW b \in Backends, weave_add_segment_with_room(b) PROVE Goal
  BY <1>13 DEF weave_add_segment_with_room, Goto, metaVars, mergeVars, flushVars
<1>14. ASSUME NEW b \in Backends, weave_directory_full(b) PROVE Goal
  BY <1>14 DEF weave_directory_full, Goto, Rest, metaVars, mergeVars, flushVars
<1>15. ASSUME NEW b \in Backends, NEW t \in Tids, weave_insert_oversized_as_segment(b, t) PROVE Goal
  BY <1>15 DEF weave_insert_oversized_as_segment, Goto, metaVars, mergeVars, flushVars
<1>16. ASSUME NEW b \in Backends, weave_meta_add_segment(b) PROVE Goal
  BY <1>16 DEF weave_meta_add_segment, Goto, metaVars, mergeVars, flushVars
<1>17. ASSUME NEW b \in Backends, weave_small_runs_merge(b) PROVE Goal
  BY <1>17 DEF weave_small_runs_merge, Goto, metaVars, mergeVars, flushVars
<1>18. ASSUME NEW b \in Backends, weave_small_runs_skip(b) PROVE Goal
  <2>1. pend' = pend /\ \A c \in Backends :
            Walked(c)' => Walked(c) /\ cut'[c] = cut[c] /\ built'[c] = built[c]
    BY <1>18 DEF weave_small_runs_skip, Rest, Goto, metaVars, mergeVars, flushVars
  <2> QED
    BY <2>1, CutSame
<1>19. ASSUME NEW b \in Backends, weave_merge(b) PROVE Goal
  <2>1. pend' = pend /\ \A c \in Backends :
            Walked(c)' => Walked(c) /\ cut'[c] = cut[c] /\ built'[c] = built[c]
    BY <1>19 DEF weave_merge, Goto, metaVars, mergeVars, flushVars
  <2> QED
    BY <2>1, CutSame
<1>20. ASSUME NEW b \in Backends, vacuum_heap_scan(b) PROVE Goal
  <2>1. pend' = pend /\ \A c \in Backends :
            Walked(c)' => Walked(c) /\ cut'[c] = cut[c] /\ built'[c] = built[c]
    BY <1>20 DEF vacuum_heap_scan, Goto, metaVars, mergeVars, flushVars
  <2> QED
    BY <2>1, CutSame
<1>21. ASSUME NEW b \in Backends, weave_bulkdelete(b) PROVE Goal
  BY <1>21 DEF weave_bulkdelete, Goto, metaVars, mergeVars, flushVars
<1>22. ASSUME NEW b \in Backends, weave_bulkdelete_swap(b) PROVE Goal
  BY <1>22 DEF weave_bulkdelete_swap, metaVars, mergeVars, flushVars
<1>23. ASSUME NEW b \in Backends, weave_bulkdelete_end(b) PROVE Goal
  BY <1>23 DEF weave_bulkdelete_end, Goto, metaVars, mergeVars, flushVars
<1>24. ASSUME NEW b \in Backends, vacuum_heap(b) PROVE Goal
  BY <1>24 DEF vacuum_heap, Goto, metaVars, mergeVars, flushVars
<1>25. CASE UNCHANGED vars
  BY <1>25 DEF vars
<1> QED
  BY <1>1, <1>2, <1>3, <1>4, <1>5, <1>6, <1>7, <1>8, <1>9, <1>10, <1>11, <1>12, <1>13,
     <1>14, <1>15, <1>16, <1>17, <1>18, <1>19, <1>20, <1>21, <1>22, <1>23, <1>24, <1>25
  DEF Next, HeapStep, SessionStart, SessionStep, CountedStep, UncountedStep

\* Every step leaves the inputs of a running merge where they are.
LEMMA SelInductive == IInv /\ [Next]_vars => SelInv'
<1> USE SessionAssumption
<1> DEFINE Goal == SelInv'
<1> SUFFICES ASSUME IInv, [Next]_vars PROVE Goal
  OBVIOUS
<1>0. /\ mutex \in Backends \cup {NoBackend}
      /\ pc \in [Backends -> Labels]
      /\ job \in [Backends -> Jobs]
      /\ ret \in [Backends -> {"done", "bulkdelete", "add_and_cut", "add_segment"}]
      /\ segs \in Seq(Bolt)
      /\ DOMAIN sel = Backends
      /\ MutexInv /\ JobInv /\ SelInv
  BY DEF IInv, Control, Plan, TypeOK
<1> USE <1>0 DEF MutexInv, HoldsMutex, SelInv
<1>1. ASSUME NEW t \in Tids, NEW isnull \in NullFlags, heap_insert(t, isnull) PROVE Goal
  BY <1>1 DEF heap_insert, metaVars, mergeVars
<1>2. ASSUME NEW t \in Tids, heap_commit(t) PROVE Goal
  BY <1>2 DEF heap_commit, metaVars, mergeVars
<1>3. ASSUME NEW t \in Tids, heap_kill(t) PROVE Goal
  BY <1>3 DEF heap_kill, metaVars, mergeVars
<1>4. ASSUME NEW t \in Tids, weave_insert(t) PROVE Goal
  BY <1>4 DEF weave_insert, metaVars, mergeVars
<1>5. ASSUME NEW b \in Backends, weave_maintenance_lock(b) PROVE Goal
  BY <1>5 DEF weave_maintenance_lock, Goto, metaVars, mergeVars
<1>6. ASSUME NEW b \in Backends, Abandon(b) PROVE Goal
  BY <1>6 DEF Abandon, Goto, Rest, metaVars, mergeVars
<1>7. ASSUME Crash PROVE Goal
  BY <1>7 DEF Crash, metaVars, mergeVars
<1>8. ASSUME NEW b \in Backends, NEW S \in SUBSET DOMAIN segs, weave_merge_selected(b, S) PROVE Goal
  BY <1>8 DEF weave_merge_selected, Goto, metaVars, mergeVars
<1>9. ASSUME NEW b \in Backends, weave_merge_commit(b) PROVE Goal
  BY <1>9 DEF weave_merge_commit, Goto, metaVars, mergeVars
<1>10. ASSUME NEW b \in Backends, weave_merge_stop(b) PROVE Goal
  BY <1>10 DEF weave_merge_stop, Goto, Rest, metaVars, mergeVars
<1>11. ASSUME NEW b \in Backends, weave_flush_pending(b) PROVE Goal
  BY <1>11 DEF weave_flush_pending, Goto, AfterFlush, metaVars, mergeVars
<1>12. ASSUME NEW b \in Backends, weave_flush_add_and_cut(b) PROVE Goal
  BY <1>12 DEF weave_flush_add_and_cut, Goto, AfterFlush, metaVars, mergeVars
<1>13. ASSUME NEW b \in Backends, weave_add_segment_with_room(b) PROVE Goal
  BY <1>13 DEF weave_add_segment_with_room, Goto, metaVars, mergeVars
<1>14. ASSUME NEW b \in Backends, weave_directory_full(b) PROVE Goal
  BY <1>14 DEF weave_directory_full, Goto, Rest, metaVars, mergeVars
<1>15. ASSUME NEW b \in Backends, NEW t \in Tids, weave_insert_oversized_as_segment(b, t) PROVE Goal
  BY <1>15 DEF weave_insert_oversized_as_segment, Goto, metaVars, mergeVars
<1>16. ASSUME NEW b \in Backends, weave_meta_add_segment(b) PROVE Goal
  BY <1>16 DEF weave_meta_add_segment, Goto, metaVars, mergeVars
<1>17. ASSUME NEW b \in Backends, weave_small_runs_merge(b) PROVE Goal
  BY <1>17 DEF weave_small_runs_merge, Goto, metaVars, mergeVars
<1>18. ASSUME NEW b \in Backends, weave_small_runs_skip(b) PROVE Goal
  BY <1>18 DEF weave_small_runs_skip, Goto, Rest, metaVars, mergeVars
<1>19. ASSUME NEW b \in Backends, weave_merge(b) PROVE Goal
  BY <1>19 DEF weave_merge, Goto, metaVars, mergeVars
<1>20. ASSUME NEW b \in Backends, vacuum_heap_scan(b) PROVE Goal
  BY <1>20 DEF vacuum_heap_scan, Goto, Vacuuming, metaVars, mergeVars
<1>21. ASSUME NEW b \in Backends, weave_bulkdelete(b) PROVE Goal
  BY <1>21 DEF weave_bulkdelete, Goto, metaVars, mergeVars
<1>22. ASSUME NEW b \in Backends, weave_bulkdelete_swap(b) PROVE Goal
  BY <1>22 DEF weave_bulkdelete_swap, metaVars, mergeVars
<1>23. ASSUME NEW b \in Backends, weave_bulkdelete_end(b) PROVE Goal
  BY <1>23 DEF weave_bulkdelete_end, Goto, metaVars, mergeVars
<1>24. ASSUME NEW b \in Backends, vacuum_heap(b) PROVE Goal
  BY <1>24 DEF vacuum_heap, Goto, metaVars, mergeVars
<1>25. CASE UNCHANGED vars
  BY <1>25 DEF vars
<1> QED
  BY <1>1, <1>2, <1>3, <1>4, <1>5, <1>6, <1>7, <1>8, <1>9, <1>10, <1>11, <1>12, <1>13,
     <1>14, <1>15, <1>16, <1>17, <1>18, <1>19, <1>20, <1>21, <1>22, <1>23, <1>24, <1>25
  DEF Next, HeapStep, SessionStart, SessionStep, CountedStep, UncountedStep

\* Every step leaves the bolts bulkdelete has still to write where they are.
LEMMA SwapInductive == IInv /\ [Next]_vars => SwapHitsItsBolt'
<1> USE SessionAssumption
<1> DEFINE Goal == SwapHitsItsBolt'
<1> SUFFICES ASSUME IInv, [Next]_vars PROVE Goal
  OBVIOUS
<1>0. /\ mutex \in Backends \cup {NoBackend}
      /\ pc \in [Backends -> Labels]
      /\ job \in [Backends -> Jobs]
      /\ ret \in [Backends -> {"done", "bulkdelete", "add_and_cut", "add_segment"}]
      /\ segs \in Seq(Bolt)
      /\ dir \in [Backends -> Seq(Bolt)]
      /\ slot \in [Backends -> Nat \ {0}]
      /\ MutexInv /\ JobInv /\ SwapHitsItsBolt
  BY DEF IInv, Control, Plan, TypeOK
<1> USE <1>0 DEF MutexInv, HoldsMutex, SwapHitsItsBolt
<1>1. ASSUME NEW t \in Tids, NEW isnull \in NullFlags, heap_insert(t, isnull) PROVE Goal
  BY <1>1 DEF heap_insert, metaVars, vacVars
<1>2. ASSUME NEW t \in Tids, heap_commit(t) PROVE Goal
  BY <1>2 DEF heap_commit, metaVars, vacVars
<1>3. ASSUME NEW t \in Tids, heap_kill(t) PROVE Goal
  BY <1>3 DEF heap_kill, metaVars, vacVars
<1>4. ASSUME NEW t \in Tids, weave_insert(t) PROVE Goal
  BY <1>4 DEF weave_insert, metaVars, vacVars
<1>5. ASSUME NEW b \in Backends, weave_maintenance_lock(b) PROVE Goal
  BY <1>5 DEF weave_maintenance_lock, Goto, metaVars, vacVars
<1>6. ASSUME NEW b \in Backends, Abandon(b) PROVE Goal
  BY <1>6 DEF Abandon, Goto, Rest, metaVars, vacVars
<1>7. ASSUME Crash PROVE Goal
  BY <1>7 DEF Crash, metaVars, vacVars
<1>8. ASSUME NEW b \in Backends, NEW S \in SUBSET DOMAIN segs, weave_merge_selected(b, S) PROVE Goal
  <2>1. UNCHANGED <<segs, dir, slot>> /\ pc[b] = "merge" /\ Goto(b, "merge_commit")
    BY <1>8 DEF weave_merge_selected, metaVars, vacVars
  <2> QED
    BY <2>1 DEF Goto
<1>9. ASSUME NEW b \in Backends, weave_merge_commit(b) PROVE Goal
  <2>1. /\ UNCHANGED <<dir, slot>> /\ pc[b] = "merge_commit"
        /\ Goto(b, "merge") \/ Goto(b, "merge_stop")
    BY <1>9 DEF weave_merge_commit, vacVars
  <2>2. \A c \in Backends : pc'[c] # "swap"
    BY <2>1 DEF Goto
  <2> QED
    BY <2>2
<1>10. ASSUME NEW b \in Backends, weave_merge_stop(b) PROVE Goal
  <2>1. UNCHANGED segs /\ pc[b] \in {"merge", "merge_stop"}
    BY <1>10 DEF weave_merge_stop, metaVars
  <2>2. \A c \in Backends : pc'[c] # "swap"
    BY <1>10, <2>1 DEF weave_merge_stop, Goto, Rest
  <2> QED
    BY <2>2
<1>11. ASSUME NEW b \in Backends, weave_flush_pending(b) PROVE Goal
  <2>1. UNCHANGED <<segs, dir, slot>> /\ pc[b] = "flush"
    BY <1>11 DEF weave_flush_pending, metaVars, vacVars
  <2>2. \A c \in Backends : pc'[c] # "swap"
    BY <1>11, <2>1 DEF weave_flush_pending, Goto
  <2> QED
    BY <2>2
<1>12. ASSUME NEW b \in Backends, weave_flush_add_and_cut(b) PROVE Goal
  BY <1>12 DEF weave_flush_add_and_cut, Goto, AfterFlush, metaVars, vacVars
<1>13. ASSUME NEW b \in Backends, weave_add_segment_with_room(b) PROVE Goal
  BY <1>13 DEF weave_add_segment_with_room, Goto, metaVars, vacVars
<1>14. ASSUME NEW b \in Backends, weave_directory_full(b) PROVE Goal
  BY <1>14 DEF weave_directory_full, Goto, Rest, metaVars, vacVars
<1>15. ASSUME NEW b \in Backends, NEW t \in Tids, weave_insert_oversized_as_segment(b, t) PROVE Goal
  BY <1>15 DEF weave_insert_oversized_as_segment, Goto, metaVars, vacVars
<1>16. ASSUME NEW b \in Backends, weave_meta_add_segment(b) PROVE Goal
  BY <1>16 DEF weave_meta_add_segment, Goto, metaVars, vacVars
<1>17. ASSUME NEW b \in Backends, weave_small_runs_merge(b) PROVE Goal
  BY <1>17 DEF weave_small_runs_merge, Goto, metaVars, vacVars
<1>18. ASSUME NEW b \in Backends, weave_small_runs_skip(b) PROVE Goal
  BY <1>18 DEF weave_small_runs_skip, Goto, Rest, metaVars, vacVars
<1>19. ASSUME NEW b \in Backends, weave_merge(b) PROVE Goal
  BY <1>19 DEF weave_merge, Goto, metaVars, vacVars
<1>20. ASSUME NEW b \in Backends, vacuum_heap_scan(b) PROVE Goal
  BY <1>20 DEF vacuum_heap_scan, Goto, Vacuuming, metaVars, vacVars
<1>21. ASSUME NEW b \in Backends, weave_bulkdelete(b) PROVE Goal
  BY <1>21 DEF weave_bulkdelete, Goto, metaVars, vacVars
<1>22. ASSUME NEW b \in Backends, weave_bulkdelete_swap(b) PROVE Goal
  BY <1>22 DEF weave_bulkdelete_swap, metaVars, vacVars
<1>23. ASSUME NEW b \in Backends, weave_bulkdelete_end(b) PROVE Goal
  BY <1>23 DEF weave_bulkdelete_end, Goto, metaVars, vacVars
<1>24. ASSUME NEW b \in Backends, vacuum_heap(b) PROVE Goal
  BY <1>24 DEF vacuum_heap, Goto, metaVars, vacVars
<1>25. CASE UNCHANGED vars
  BY <1>25 DEF vars
<1> QED
  BY <1>1, <1>2, <1>3, <1>4, <1>5, <1>6, <1>7, <1>8, <1>9, <1>10, <1>11, <1>12, <1>13,
     <1>14, <1>15, <1>16, <1>17, <1>18, <1>19, <1>20, <1>21, <1>22, <1>23, <1>24, <1>25
  DEF Next, HeapStep, SessionStart, SessionStep, CountedStep, UncountedStep

\* Every step leaves the rows of a bulkdelete's dead set dead.
LEMMA DeadInductive == IInv /\ [Next]_vars => DeadInv'
<1> USE SessionAssumption
<1> DEFINE Goal == DeadInv'
<1> SUFFICES ASSUME IInv, [Next]_vars PROVE Goal
  OBVIOUS
<1>0. /\ mutex \in Backends \cup {NoBackend}
      /\ pc \in [Backends -> Labels]
      /\ job \in [Backends -> Jobs]
      /\ ret \in [Backends -> {"done", "bulkdelete", "add_and_cut", "add_segment"}]
      /\ st \in [Tids -> {"unused", "busy", "indexed", "live", "dead"}]
      /\ row \in [Backends -> Tids \cup {NoTid}]
      /\ vdead \in [Backends -> SUBSET Tids]
      /\ MutexInv /\ JobInv /\ OneVacuum /\ OwnInv /\ DeadInv
  BY DEF IInv, Control, Plan, TypeOK
<1> USE <1>0 DEF JobInv, OneVacuum, DeadInv, Flushed, Merging
<1>1. ASSUME NEW t \in Tids, NEW isnull \in NullFlags, heap_insert(t, isnull) PROVE Goal
  BY <1>1 DEF heap_insert, heapVars, vacVars
<1>2. ASSUME NEW t \in Tids, heap_commit(t) PROVE Goal
  BY <1>2 DEF heap_commit, heapVars, vacVars
<1>3. ASSUME NEW t \in Tids, heap_kill(t) PROVE Goal
  BY <1>3 DEF heap_kill, heapVars, vacVars
<1>4. ASSUME NEW t \in Tids, weave_insert(t) PROVE Goal
  BY <1>4 DEF weave_insert, heapVars, vacVars
<1>5. ASSUME NEW b \in Backends, weave_maintenance_lock(b) PROVE Goal
  BY <1>5 DEF weave_maintenance_lock, Goto, heapVars, vacVars
<1>6. ASSUME NEW b \in Backends, Abandon(b) PROVE Goal
  BY <1>6 DEF Abandon, Goto, Rest, heapVars, vacVars
<1>7. ASSUME Crash PROVE Goal
  BY <1>7 DEF Crash, heapVars, vacVars
<1>8. ASSUME NEW b \in Backends, NEW S \in SUBSET DOMAIN segs, weave_merge_selected(b, S) PROVE Goal
  BY <1>8 DEF weave_merge_selected, Goto, heapVars, vacVars
<1>9. ASSUME NEW b \in Backends, weave_merge_commit(b) PROVE Goal
  BY <1>9 DEF weave_merge_commit, Goto, heapVars, vacVars
<1>10. ASSUME NEW b \in Backends, weave_merge_stop(b) PROVE Goal
  BY <1>10 DEF weave_merge_stop, Goto, Rest, heapVars, vacVars
<1>11. ASSUME NEW b \in Backends, weave_flush_pending(b) PROVE Goal
  BY <1>11 DEF weave_flush_pending, Goto, AfterFlush, heapVars, vacVars
<1>12. ASSUME NEW b \in Backends, weave_flush_add_and_cut(b) PROVE Goal
  BY <1>12 DEF weave_flush_add_and_cut, Goto, AfterFlush, heapVars, vacVars
<1>13. ASSUME NEW b \in Backends, weave_add_segment_with_room(b) PROVE Goal
  BY <1>13 DEF weave_add_segment_with_room, Goto, heapVars, vacVars
<1>14. ASSUME NEW b \in Backends, weave_directory_full(b) PROVE Goal
  BY <1>14 DEF weave_directory_full, Goto, Rest, heapVars, vacVars
<1>15. ASSUME NEW b \in Backends, NEW t \in Tids, weave_insert_oversized_as_segment(b, t) PROVE Goal
  BY <1>15 DEF weave_insert_oversized_as_segment, Goto, heapVars, vacVars
<1>16. ASSUME NEW b \in Backends, weave_meta_add_segment(b) PROVE Goal
  <2>1. pc[b] = "add_segment" /\ row[b] \in Tids /\ st[row[b]] = "busy"
    BY <1>16 DEF weave_meta_add_segment, OwnInv, Unpublished
  <2> QED
    BY <1>16, <2>1 DEF weave_meta_add_segment, Goto, vacVars
<1>17. ASSUME NEW b \in Backends, weave_small_runs_merge(b) PROVE Goal
  BY <1>17 DEF weave_small_runs_merge, Goto, heapVars, vacVars
<1>18. ASSUME NEW b \in Backends, weave_small_runs_skip(b) PROVE Goal
  BY <1>18 DEF weave_small_runs_skip, Goto, Rest, heapVars, vacVars
<1>19. ASSUME NEW b \in Backends, weave_merge(b) PROVE Goal
  BY <1>19 DEF weave_merge, Goto, heapVars, vacVars
<1>20. ASSUME NEW b \in Backends, vacuum_heap_scan(b) PROVE Goal
  BY <1>20 DEF vacuum_heap_scan, Goto, Vacuuming, heapVars, vacVars
<1>21. ASSUME NEW b \in Backends, weave_bulkdelete(b) PROVE Goal
  BY <1>21 DEF weave_bulkdelete, Goto, heapVars, vacVars
<1>22. ASSUME NEW b \in Backends, weave_bulkdelete_swap(b) PROVE Goal
  BY <1>22 DEF weave_bulkdelete_swap, heapVars, vacVars
<1>23. ASSUME NEW b \in Backends, weave_bulkdelete_end(b) PROVE Goal
  BY <1>23 DEF weave_bulkdelete_end, Goto, heapVars, vacVars
<1>24. ASSUME NEW b \in Backends, vacuum_heap(b) PROVE Goal
  BY <1>24 DEF vacuum_heap, Goto, heapVars, vacVars
<1>25. CASE UNCHANGED vars
  BY <1>25 DEF vars
<1> QED
  BY <1>1, <1>2, <1>3, <1>4, <1>5, <1>6, <1>7, <1>8, <1>9, <1>10, <1>11, <1>12, <1>13,
     <1>14, <1>15, <1>16, <1>17, <1>18, <1>19, <1>20, <1>21, <1>22, <1>23, <1>24, <1>25
  DEF Next, HeapStep, SessionStart, SessionStep, CountedStep, UncountedStep

\* Every step keeps the dead set off the list, once bulkdelete has folded it.
LEMMA PendCleanInductive == IInv /\ [Next]_vars => PendClean'
<1> USE SessionAssumption
<1> DEFINE Goal == PendClean'
<1> SUFFICES ASSUME IInv, [Next]_vars PROVE Goal
  OBVIOUS
<1>0. /\ mutex \in Backends \cup {NoBackend}
      /\ pc \in [Backends -> Labels]
      /\ job \in [Backends -> Jobs]
      /\ ret \in [Backends -> {"done", "bulkdelete", "add_and_cut", "add_segment"}]
      /\ pend \in Seq(Entry)
      /\ cut \in [Backends -> Nat]
      /\ st \in [Tids -> {"unused", "busy", "indexed", "live", "dead"}]
      /\ vdead \in [Backends -> SUBSET Tids]
      /\ MutexInv /\ JobInv /\ DeadInv /\ PendClean
  BY DEF IInv, Control, Plan, TypeOK
<1> USE <1>0 DEF MutexInv, HoldsMutex, JobInv, PendClean, Walked, Flushed, Merging
<1>1. ASSUME NEW t \in Tids, NEW isnull \in NullFlags, heap_insert(t, isnull) PROVE Goal
  BY <1>1 DEF heap_insert, metaVars, mergeVars, flushVars, vacVars
<1>2. ASSUME NEW t \in Tids, heap_commit(t) PROVE Goal
  BY <1>2 DEF heap_commit, metaVars, mergeVars, flushVars, vacVars
<1>3. ASSUME NEW t \in Tids, heap_kill(t) PROVE Goal
  BY <1>3 DEF heap_kill, metaVars, mergeVars, flushVars, vacVars
<1>4. ASSUME NEW t \in Tids, weave_insert(t) PROVE Goal
  <2>1. pend' = Append(pend, EntryOf(t)) /\ EntryOf(t).tid = t /\ st[t] = "busy"
        /\ UNCHANGED <<pc, job, mergeVars, flushVars, vacVars>>
    BY <1>4 DEF weave_insert, EntryOf
  <2>2. \A i \in DOMAIN pend' : (i \in DOMAIN pend /\ pend'[i] = pend[i]) \/ pend'[i].tid = t
    BY <2>1
  <2>3. \A c \in Backends : job[c] = "bulkdelete" => t \notin vdead[c]
    BY <2>1 DEF DeadInv
  <2> QED
    BY <2>1, <2>2, <2>3 DEF mergeVars, flushVars, vacVars
<1>5. ASSUME NEW b \in Backends, weave_maintenance_lock(b) PROVE Goal
  BY <1>5 DEF weave_maintenance_lock, Goto, metaVars, mergeVars, flushVars, vacVars
<1>6. ASSUME NEW b \in Backends, Abandon(b) PROVE Goal
  BY <1>6 DEF Abandon, Goto, Rest, metaVars, mergeVars, flushVars, vacVars
<1>7. ASSUME Crash PROVE Goal
  BY <1>7 DEF Crash, metaVars, mergeVars, flushVars, vacVars
<1>8. ASSUME NEW b \in Backends, NEW S \in SUBSET DOMAIN segs, weave_merge_selected(b, S) PROVE Goal
  BY <1>8 DEF weave_merge_selected, Goto, metaVars, mergeVars, flushVars, vacVars
<1>9. ASSUME NEW b \in Backends, weave_merge_commit(b) PROVE Goal
  <2>1. pc[b] = "merge_commit" /\ (Goto(b, "merge") \/ Goto(b, "merge_stop"))
        /\ UNCHANGED <<pend, job, ret, cut, vdead>>
    BY <1>9 DEF weave_merge_commit, flushVars, vacVars
  <2>2. \A c \in Backends : (Walked(c)' <=> Walked(c)) /\ (Flushed(c)' <=> Flushed(c))
    BY <2>1 DEF Goto
  <2> QED
    BY <2>1, <2>2
<1>10. ASSUME NEW b \in Backends, weave_merge_stop(b) PROVE Goal
  <2>1. CASE Rest(b)
    <3>1. UNCHANGED pend
      BY <1>10 DEF weave_merge_stop, metaVars
    <3> QED
      BY <2>1, <3>1 DEF Rest, Goto
  <2>2. CASE ~Rest(b)
    <3>1. pc[b] \in {"merge", "merge_stop"} /\ ret[b] # "done" /\ Goto(b, ret[b])
          /\ UNCHANGED <<pend, job, ret, cut, vdead>>
      BY <1>10, <2>2 DEF weave_merge_stop, metaVars, mergeVars, flushVars, vacVars
    <3>2. \A c \in Backends : (Walked(c)' <=> Walked(c)) /\ (Flushed(c)' <=> Flushed(c))
      BY <3>1 DEF Goto
    <3> QED
      BY <3>1, <3>2
  <2> QED
    BY <2>1, <2>2
<1>11. ASSUME NEW b \in Backends, weave_flush_pending(b) PROVE Goal
  BY <1>11 DEF weave_flush_pending, Goto, AfterFlush, metaVars, mergeVars, flushVars, vacVars
<1>12. ASSUME NEW b \in Backends, weave_flush_add_and_cut(b) PROVE Goal
  <2>1. pc[b] = "add_and_cut" /\ pend' = SubSeq(pend, cut[b] + 1, Len(pend))
        /\ UNCHANGED <<job, vacVars>>
        /\ Goto(b, "merge") /\ ret' = [ret EXCEPT ![b] = AfterFlush(b)]
        /\ cut' = [cut EXCEPT ![b] = 0]
    BY <1>12 DEF weave_flush_add_and_cut, KeptPending
  <2>2. cut[b] <= Len(pend)
    BY <2>1 DEF IInv, Plan, CutInv
  <2>3. \A i \in DOMAIN pend' : i + cut[b] \in DOMAIN pend /\ i + cut[b] > cut[b]
                              /\ pend'[i] = pend[i + cut[b]]
    BY <2>1, <2>2
  <2>4. \A c \in Backends : job[c] = "bulkdelete" /\ (c = b \/ Flushed(c)) =>
           \A i \in DOMAIN pend' : pend'[i].tid \notin vdead[c]
    BY <2>1, <2>3
  <2>5. \A c \in Backends : (Walked(c)' => FALSE) /\ (Flushed(c)' => c = b \/ Flushed(c))
    BY <2>1 DEF Goto, AfterFlush
  <2> QED
    BY <2>1, <2>4, <2>5 DEF vacVars
<1>13. ASSUME NEW b \in Backends, weave_add_segment_with_room(b) PROVE Goal
  BY <1>13 DEF weave_add_segment_with_room, Goto, metaVars, mergeVars, flushVars, vacVars
<1>14. ASSUME NEW b \in Backends, weave_directory_full(b) PROVE Goal
  BY <1>14 DEF weave_directory_full, Goto, Rest, metaVars, mergeVars, flushVars, vacVars
<1>15. ASSUME NEW b \in Backends, NEW t \in Tids, weave_insert_oversized_as_segment(b, t) PROVE Goal
  BY <1>15 DEF weave_insert_oversized_as_segment, Goto, metaVars, mergeVars, flushVars, vacVars
<1>16. ASSUME NEW b \in Backends, weave_meta_add_segment(b) PROVE Goal
  BY <1>16 DEF weave_meta_add_segment, Goto, metaVars, mergeVars, flushVars, vacVars
<1>17. ASSUME NEW b \in Backends, weave_small_runs_merge(b) PROVE Goal
  BY <1>17 DEF weave_small_runs_merge, Goto, metaVars, mergeVars, flushVars, vacVars
<1>18. ASSUME NEW b \in Backends, weave_small_runs_skip(b) PROVE Goal
  BY <1>18 DEF weave_small_runs_skip, Goto, Rest, metaVars, mergeVars, flushVars, vacVars
<1>19. ASSUME NEW b \in Backends, weave_merge(b) PROVE Goal
  BY <1>19 DEF weave_merge, Goto, metaVars, mergeVars, flushVars, vacVars
<1>20. ASSUME NEW b \in Backends, vacuum_heap_scan(b) PROVE Goal
  BY <1>20 DEF vacuum_heap_scan, Goto, Vacuuming, metaVars, mergeVars, flushVars, vacVars
<1>21. ASSUME NEW b \in Backends, weave_bulkdelete(b) PROVE Goal
  BY <1>21 DEF weave_bulkdelete, Goto, metaVars, mergeVars, flushVars, vacVars
<1>22. ASSUME NEW b \in Backends, weave_bulkdelete_swap(b) PROVE Goal
  BY <1>22 DEF weave_bulkdelete_swap, metaVars, mergeVars, flushVars, vacVars
<1>23. ASSUME NEW b \in Backends, weave_bulkdelete_end(b) PROVE Goal
  BY <1>23 DEF weave_bulkdelete_end, Goto, metaVars, mergeVars, flushVars, vacVars
<1>24. ASSUME NEW b \in Backends, vacuum_heap(b) PROVE Goal
  BY <1>24 DEF vacuum_heap, Goto, metaVars, mergeVars, flushVars, vacVars
<1>25. CASE UNCHANGED vars
  BY <1>25 DEF vars
<1> QED
  BY <1>1, <1>2, <1>3, <1>4, <1>5, <1>6, <1>7, <1>8, <1>9, <1>10, <1>11, <1>12, <1>13,
     <1>14, <1>15, <1>16, <1>17, <1>18, <1>19, <1>20, <1>21, <1>22, <1>23, <1>24, <1>25
  DEF Next, HeapStep, SessionStart, SessionStep, CountedStep, UncountedStep

-----------------------------------------------------------------------------
(* What the records do to the documents a scan meets *)

\* A new bolt has no tombstones.
LEMMA NewBoltLive ==
    ASSUME nbolt \in Nat, NEW D \in SUBSET Entry
    PROVE  NewBolt(D) \in Bolt /\ LiveDocs(NewBolt(D)) = D
BY DEF NewBolt, Bolt, LiveDocs

\* The tombstone swap takes exactly the documents of the dead set off a bolt.
LEMMA SwapLive ==
    ASSUME NEW b, NEW g \in Bolt
    PROVE  \A e : e \in LiveDocs([g EXCEPT !.dead = NewDead(b, g)])
                    <=> e \in LiveDocs(g) /\ e.tid \notin vdead[b]
<1> DEFINE h == [g EXCEPT !.dead = NewDead(b, g)]
<1>1. h.docs = g.docs /\ h.dead = g.dead \cup (TidsOf(g.docs) \cap vdead[b])
  BY DEF Bolt, NewDead
<1>2. \A e \in g.docs : e.tid \in TidsOf(g.docs)
  BY DEF TidsOf
<1> HIDE DEF h
<1>3. \A e : e \in LiveDocs(h) <=> e \in LiveDocs(g) /\ e.tid \notin vdead[b]
  BY <1>1, <1>2 DEF LiveDocs
<1> QED
  BY <1>3 DEF h

\* A merge keeps the live documents: none is lost, none comes from elsewhere, and the
\* merged bolt has those of its inputs.
LEMMA MergeLive ==
    ASSUME IInv, NEW b \in Backends, weave_merge_commit(b)
    PROVE  /\ \A k \in DOMAIN segs' : \A e \in LiveDocs(segs'[k]) :
                \E i \in DOMAIN segs : e \in LiveDocs(segs[i])
           /\ \A i \in DOMAIN segs : \A e \in LiveDocs(segs[i]) :
                \E k \in DOMAIN segs' : e \in LiveDocs(segs'[k])
           /\ NoRowTwice => \A k, l \in DOMAIN segs' :
                k # l => LiveDocs(segs'[k]) \cap LiveDocs(segs'[l]) = {}
<1> DEFINE g == NewBolt(MergedDocs(sel[b]))
           S == DOMAIN sel[b]
           n == Len(segs')
<1>1. S \in SUBSET DOMAIN segs /\ g \in Bolt /\ segs' = ReplaceBolts(S, g)
  BY MergeStep
<1>2. LiveDocs(g) = UNION {LiveDocs(segs[i]) : i \in S}
  <2>1. MergedDocs(sel[b]) = UNION {LiveDocs(segs[i]) : i \in S}
    BY MergeStep
  <2>2. nbolt \in Nat /\ MergedDocs(sel[b]) \in SUBSET Entry
    BY <1>1 DEF IInv, Control, TypeOK, Bolt, NewBolt
  <2> QED
    BY <2>1, <2>2, NewBoltLive
<1>3. segs \in Seq(Bolt)
  BY DEF IInv, Control, TypeOK
<1>4. Replaced(S, g, segs')
  BY <1>1, <1>3, ReplaceBoltsFacts
<1> HIDE DEF g, S
<1>5. /\ n \in DOMAIN segs' /\ segs'[n] = g
      /\ \A k \in DOMAIN segs' : k \in 1..(n - 1) \/ k = n
      /\ \A k \in 1..(n - 1) :
           /\ k \in DOMAIN segs' /\ OldPos(segs, S, k) \in (DOMAIN segs) \ S
           /\ segs'[k] = segs[OldPos(segs, S, k)]
      /\ \A k, l \in 1..(n - 1) : OldPos(segs, S, k) = OldPos(segs, S, l) => k = l
      /\ \A i \in (DOMAIN segs) \ S : \E k \in 1..(n - 1) : OldPos(segs, S, k) = i
  BY <1>4 DEF Replaced
<1> HIDE DEF n
<1>6. \A k \in DOMAIN segs' : \A e \in LiveDocs(segs'[k]) :
        \E i \in DOMAIN segs : e \in LiveDocs(segs[i])
  BY <1>1, <1>2, <1>5
<1>7. ASSUME NEW i \in DOMAIN segs, NEW e \in LiveDocs(segs[i])
      PROVE  \E k \in DOMAIN segs' : e \in LiveDocs(segs'[k])
  <2>1. CASE i \in S
    BY <1>2, <1>5, <2>1
  <2>2. CASE i \notin S
    <3>1. PICK k \in 1..(n - 1) : OldPos(segs, S, k) = i
      BY <1>5, <2>2
    <3> QED
      BY <1>5, <3>1
  <2> QED
    BY <2>1, <2>2
<1>8. ASSUME NoRowTwice, NEW k \in DOMAIN segs', NEW l \in DOMAIN segs', k # l,
             NEW e \in LiveDocs(segs'[k]), e \in LiveDocs(segs'[l])
      PROVE  FALSE
  <2>1. \A i, j \in DOMAIN segs : e \in LiveDocs(segs[i]) /\ e \in LiveDocs(segs[j]) => i = j
    BY <1>8 DEF NoRowTwice
  <2>2. \A h \in 1..(n - 1) : e \in LiveDocs(segs'[h]) => e \notin LiveDocs(g)
    BY <1>1, <1>2, <1>5, <2>1
  <2> QED
    BY <1>5, <1>8, <2>1, <2>2
<1> QED
  BY <1>6, <1>7, <1>8

\* Every step keeps the dead set out of the bolts bulkdelete has dealt with.
LEMMA SegsCleanInductive == IInv /\ [Next]_vars => SegsClean'
<1> USE SessionAssumption
<1> DEFINE Goal == SegsClean'
<1> SUFFICES ASSUME IInv, [Next]_vars PROVE Goal
  OBVIOUS
<1>0. /\ mutex \in Backends \cup {NoBackend}
      /\ pc \in [Backends -> Labels]
      /\ job \in [Backends -> Jobs]
      /\ ret \in [Backends -> {"done", "bulkdelete", "add_and_cut", "add_segment"}]
      /\ segs \in Seq(Bolt)
      /\ nbolt \in Nat
      /\ built \in [Backends -> SUBSET Entry]
      /\ dir \in [Backends -> Seq(Bolt)]
      /\ slot \in [Backends -> Nat \ {0}]
      /\ st \in [Tids -> {"unused", "busy", "indexed", "live", "dead"}]
      /\ row \in [Backends -> Tids \cup {NoTid}]
      /\ vdead \in [Backends -> SUBSET Tids]
      /\ MutexInv /\ JobInv /\ OneVacuum /\ DeadInv /\ SegsClean
  BY DEF IInv, Control, Plan, TypeOK
<1> USE <1>0 DEF MutexInv, HoldsMutex, JobInv, SegsClean
<1>1. ASSUME NEW t \in Tids, NEW isnull \in NullFlags, heap_insert(t, isnull) PROVE Goal
  BY <1>1 DEF heap_insert, metaVars, vacVars
<1>2. ASSUME NEW t \in Tids, heap_commit(t) PROVE Goal
  BY <1>2 DEF heap_commit, metaVars, vacVars
<1>3. ASSUME NEW t \in Tids, heap_kill(t) PROVE Goal
  BY <1>3 DEF heap_kill, metaVars, vacVars
<1>4. ASSUME NEW t \in Tids, weave_insert(t) PROVE Goal
  BY <1>4 DEF weave_insert, metaVars, vacVars
<1>5. ASSUME NEW b \in Backends, weave_maintenance_lock(b) PROVE Goal
  BY <1>5 DEF weave_maintenance_lock, Goto, metaVars, vacVars
<1>6. ASSUME NEW b \in Backends, Abandon(b) PROVE Goal
  BY <1>6 DEF Abandon, Goto, Rest, metaVars, vacVars
<1>7. ASSUME Crash PROVE Goal
  BY <1>7 DEF Crash, metaVars, vacVars
<1>8. ASSUME NEW b \in Backends, NEW S \in SUBSET DOMAIN segs, weave_merge_selected(b, S) PROVE Goal
  BY <1>8 DEF weave_merge_selected, Goto, metaVars, vacVars
<1>9. ASSUME NEW b \in Backends, weave_merge_commit(b) PROVE Goal
  <2>1. \A k \in DOMAIN segs' : \A e \in LiveDocs(segs'[k]) :
           \E i \in DOMAIN segs : e \in LiveDocs(segs[i])
    BY <1>9, MergeLive
  <2>2. pc[b] = "merge_commit" /\ Goto(b, "merge") /\ UNCHANGED <<job, vacVars>>
    BY <1>9, MergeStep DEF weave_merge_commit
  <2>3. \A c \in Backends : pc'[c] = "swap" => FALSE
    BY <2>2 DEF Goto
  <2>4. \A c \in Backends : pc'[c] = "heap_vacuum" => pc[c] = "heap_vacuum"
    BY <2>2 DEF Goto
  <2> QED
    BY <2>1, <2>2, <2>3, <2>4 DEF vacVars
<1>10. ASSUME NEW b \in Backends, weave_merge_stop(b) PROVE Goal
  <2>1. UNCHANGED segs
    BY <1>10 DEF weave_merge_stop, metaVars
  <2>2. CASE Rest(b)
    BY <2>1, <2>2 DEF Rest, Goto
  <2>3. CASE ~Rest(b)
    <3>1. Goto(b, ret[b]) /\ UNCHANGED <<job, vacVars>>
      BY <1>10, <2>3 DEF weave_merge_stop
    <3>2. \A c \in Backends : pc'[c] \in {"swap", "heap_vacuum"} => pc'[c] = pc[c]
      BY <3>1 DEF Goto
    <3> QED
      BY <2>1, <3>1, <3>2 DEF vacVars
  <2> QED
    BY <2>2, <2>3
<1>11. ASSUME NEW b \in Backends, weave_flush_pending(b) PROVE Goal
  BY <1>11 DEF weave_flush_pending, Goto, AfterFlush, metaVars, vacVars
<1>12. ASSUME NEW b \in Backends, weave_flush_add_and_cut(b) PROVE Goal
  <2>1. pc[b] = "add_and_cut" /\ Goto(b, "merge") /\ UNCHANGED <<job, vacVars>>
        /\ segs' = Append(segs, NewBolt(built[b]))
    BY <1>12 DEF weave_flush_add_and_cut
  <2>2. LiveDocs(NewBolt(built[b])) = built[b]
    BY NewBoltLive
  <2>3. \A e \in built[b] : \E i \in DOMAIN pend : e = pend[i]
    <3>1. pend \in Seq(Entry) /\ cut[b] \in Nat
      BY DEF IInv, Control, TypeOK
    <3>2. cut[b] <= Len(pend) /\ built[b] = {pend[i] : i \in 1..cut[b]}
      BY <2>1 DEF IInv, Plan, CutInv, Walked
    <3> QED
      BY <3>1, <3>2
  <2>4. \A c \in Backends : pc'[c] = "swap" => FALSE
    BY <2>1 DEF Goto
  <2>5. ASSUME NEW c \in Backends, job[c] = "bulkdelete", pc'[c] = "heap_vacuum",
               NEW i \in DOMAIN segs', NEW e \in LiveDocs(segs'[i])
        PROVE  e.tid \notin vdead[c]
    <3>1. pc[c] = "heap_vacuum"
      BY <2>1, <2>5 DEF Goto
    <3>2. CASE i \in DOMAIN segs /\ segs'[i] = segs[i]
      BY <2>5, <3>1, <3>2
    <3>3. CASE segs'[i] = NewBolt(built[b])
      BY <2>2, <2>3, <2>5, <3>1, <3>3 DEF IInv, Plan, PendClean, Flushed
    <3> QED
      BY <2>1, <3>2, <3>3
  <2> QED
    BY <2>1, <2>4, <2>5 DEF vacVars
<1>13. ASSUME NEW b \in Backends, weave_add_segment_with_room(b) PROVE Goal
  BY <1>13 DEF weave_add_segment_with_room, Goto, metaVars, vacVars
<1>14. ASSUME NEW b \in Backends, weave_directory_full(b) PROVE Goal
  BY <1>14 DEF weave_directory_full, Goto, Rest, metaVars, vacVars
<1>15. ASSUME NEW b \in Backends, NEW t \in Tids, weave_insert_oversized_as_segment(b, t) PROVE Goal
  BY <1>15 DEF weave_insert_oversized_as_segment, Goto, metaVars, vacVars
<1>16. ASSUME NEW b \in Backends, weave_meta_add_segment(b) PROVE Goal
  <2>1. pc[b] = "add_segment" /\ Goto(b, "small_runs") /\ UNCHANGED <<job, vacVars>>
        /\ segs' = Append(segs, NewBolt(built[b]))
    BY <1>16 DEF weave_meta_add_segment
  <2>2. LiveDocs(NewBolt(built[b])) = built[b]
    BY NewBoltLive
  <2>3. row[b] \in Tids /\ st[row[b]] = "busy" /\ built[b] = {EntryOf(row[b])}
    BY <2>1 DEF IInv, Plan, OwnInv, Unpublished
  <2>4. \A e \in built[b] : e.tid = row[b]
    BY <2>3 DEF EntryOf
  <2>5. ASSUME NEW c \in Backends, job[c] = "bulkdelete", NEW e \in built[b]
        PROVE  e.tid \notin vdead[c]
    BY <2>3, <2>4, <2>5 DEF DeadInv
  <2>6. \A i \in DOMAIN segs' : (i \in DOMAIN segs /\ segs'[i] = segs[i])
           \/ segs'[i] = NewBolt(built[b])
    BY <2>1
  <2>7. \A c \in Backends : pc'[c] \in {"swap", "heap_vacuum"} => pc'[c] = pc[c]
    BY <2>1 DEF Goto
  <2> QED
    BY <2>1, <2>2, <2>5, <2>6, <2>7 DEF vacVars
<1>17. ASSUME NEW b \in Backends, weave_small_runs_merge(b) PROVE Goal
  BY <1>17 DEF weave_small_runs_merge, Goto, metaVars, vacVars
<1>18. ASSUME NEW b \in Backends, weave_small_runs_skip(b) PROVE Goal
  BY <1>18 DEF weave_small_runs_skip, Goto, Rest, metaVars, vacVars
<1>19. ASSUME NEW b \in Backends, weave_merge(b) PROVE Goal
  BY <1>19 DEF weave_merge, Goto, metaVars, vacVars
<1>20. ASSUME NEW b \in Backends, vacuum_heap_scan(b) PROVE Goal
  BY <1>20 DEF vacuum_heap_scan, Goto, Vacuuming, metaVars, vacVars
<1>21. ASSUME NEW b \in Backends, weave_bulkdelete(b) PROVE Goal
  BY <1>21 DEF weave_bulkdelete, Goto, metaVars, vacVars
<1>22. ASSUME NEW b \in Backends, weave_bulkdelete_swap(b) PROVE Goal
  <2>1. pc[b] = "swap" /\ slot[b] \in DOMAIN segs
        /\ DOMAIN segs' = DOMAIN segs
        /\ (\A i \in DOMAIN segs : i # slot[b] => segs'[i] = segs[i])
        /\ segs'[slot[b]] = [segs[slot[b]] EXCEPT !.dead = NewDead(b, segs[slot[b]])]
        /\ slot' = [slot EXCEPT ![b] = slot[b] + 1]
    BY <1>22, SwapStep
  <2>2. UNCHANGED <<pc, job, dir, vdead>>
    BY <1>22 DEF weave_bulkdelete_swap
  <2>3. \A e \in LiveDocs(segs'[slot[b]]) : e.tid \notin vdead[b]
    <3>1. segs[slot[b]] \in Bolt
      BY <2>1
    <3> QED
      BY <2>1, <3>1, SwapLive
  <2>4. \A c \in Backends : job[c] = "bulkdelete" => c = b
    BY <2>1 DEF OneVacuum, Flushed
  <2>5. \A i \in DOMAIN segs : i < slot[b] + 1 => i < slot[b] \/ i = slot[b]
    OBVIOUS
  <2>6. ASSUME job[b] = "bulkdelete", NEW i \in DOMAIN segs, i < slot[b] + 1 \/ i > Len(dir[b]),
               NEW e \in LiveDocs(segs'[i])
        PROVE  e.tid \notin vdead[b]
    BY <2>1, <2>3, <2>5, <2>6
  <2>7. slot'[b] = slot[b] + 1 /\ pc'[b] = "swap"
    BY <2>1, <2>2
  <2> QED
    BY <2>1, <2>2, <2>4, <2>6, <2>7
<1>23. ASSUME NEW b \in Backends, weave_bulkdelete_end(b) PROVE Goal
  <2>1. pc[b] = "swap" /\ slot[b] > Len(dir[b]) /\ Goto(b, "heap_vacuum") /\ UNCHANGED <<segs, job, vdead>>
        /\ dir' = [dir EXCEPT ![b] = << >>] /\ slot' = [slot EXCEPT ![b] = 1]
    BY <1>23 DEF weave_bulkdelete_end, metaVars
  <2>2. \A i \in DOMAIN segs : i < slot[b] \/ i > Len(dir[b])
    BY <2>1
  <2>3. \A c \in Backends : job[c] = "bulkdelete" => c = b
    BY <2>1 DEF OneVacuum, Flushed
  <2> QED
    BY <2>1, <2>2, <2>3 DEF Goto
<1>24. ASSUME NEW b \in Backends, vacuum_heap(b) PROVE Goal
  BY <1>24 DEF vacuum_heap, Goto, metaVars, vacVars
<1>25. CASE UNCHANGED vars
  BY <1>25 DEF vars
<1> QED
  BY <1>1, <1>2, <1>3, <1>4, <1>5, <1>6, <1>7, <1>8, <1>9, <1>10, <1>11, <1>12, <1>13,
     <1>14, <1>15, <1>16, <1>17, <1>18, <1>19, <1>20, <1>21, <1>22, <1>23, <1>24, <1>25
  DEF Next, HeapStep, SessionStart, SessionStep, CountedStep, UncountedStep

\* A tombstone swap brings no document to the directory, and takes off only
\* documents of the dead set.
LEMMA SwapDocs ==
    ASSUME IInv, NEW b \in Backends, weave_bulkdelete_swap(b)
    PROVE  /\ DOMAIN segs' = DOMAIN segs
           /\ \A k \in DOMAIN segs' : \A e \in LiveDocs(segs'[k]) : e \in LiveDocs(segs[k])
           /\ \A k \in DOMAIN segs' : \A e \in LiveDocs(segs'[k]) :
                \E i \in DOMAIN segs : e \in LiveDocs(segs[i])
           /\ \A i \in DOMAIN segs : \A e \in LiveDocs(segs[i]) :
                e.tid \notin vdead[b] => e \in LiveDocs(segs'[i])
<1>1. /\ slot[b] \in DOMAIN segs
      /\ DOMAIN segs' = DOMAIN segs
      /\ \A i \in DOMAIN segs : i # slot[b] => segs'[i] = segs[i]
      /\ segs'[slot[b]] = [segs[slot[b]] EXCEPT !.dead = NewDead(b, segs[slot[b]])]
  BY SwapStep
<1>2. segs[slot[b]] \in Bolt
  BY <1>1 DEF IInv, Control, TypeOK
<1>3. \A e : e \in LiveDocs(segs'[slot[b]]) <=> e \in LiveDocs(segs[slot[b]]) /\ e.tid \notin vdead[b]
  BY <1>1, <1>2, SwapLive
<1> QED
  BY <1>1, <1>3

\* A step that brings no new entry to the index and keeps the rows' identities keeps
\* the entries current.
LEMMA StaleSame ==
    ASSUME NoStaleEntry,
           \A k \in DOMAIN segs' : \A e \in LiveDocs(segs'[k]) :
              \E i \in DOMAIN segs : e \in LiveDocs(segs[i]),
           \A k \in DOMAIN pend' : \E i \in DOMAIN pend : pend'[k] = pend[i],
           \A e \in CurrentEntries : e \in CurrentEntries'
    PROVE  NoStaleEntry'
<1>1. \A k \in DOMAIN segs' : \A e \in LiveDocs(segs'[k]) : e \in CurrentEntries'
  BY DEF NoStaleEntry
<1>2. \A k \in DOMAIN pend' : pend'[k] \in CurrentEntries'
  BY DEF NoStaleEntry
<1> QED
  BY <1>1, <1>2 DEF NoStaleEntry

\* Every step keeps the entries current.
LEMMA StaleInductive == IInv /\ [Next]_vars => NoStaleEntry'
<1> USE SessionAssumption
<1> DEFINE Goal == NoStaleEntry'
<1> SUFFICES ASSUME IInv, [Next]_vars PROVE Goal
  OBVIOUS
<1>0. /\ st \in [Tids -> {"unused", "busy", "indexed", "live", "dead"}]
      /\ inc \in [Tids -> Nat] /\ nul \in [Tids -> BOOLEAN]
      /\ segs \in Seq(Bolt) /\ pend \in Seq(Entry) /\ nbolt \in Nat
      /\ built \in [Backends -> SUBSET Entry] /\ cut \in [Backends -> Nat]
      /\ row \in [Backends -> Tids \cup {NoTid}]
      /\ vdead \in [Backends -> SUBSET Tids]
      /\ JobInv /\ OwnInv /\ DeadInv /\ NoStaleEntry
  BY DEF IInv, Control, Plan, Rows, TypeOK
<1> USE <1>0
<1>1. ASSUME NEW t \in Tids, NEW isnull \in NullFlags, heap_insert(t, isnull) PROVE Goal
  <2>1. UNCHANGED <<segs, pend>>
    BY <1>1 DEF heap_insert, metaVars
  <2>2. \A e \in CurrentEntries : e \in CurrentEntries'
    BY <1>1 DEF heap_insert, heapVars, CurrentEntries, EntryOf
  <2> QED
    BY <2>1, <2>2, StaleSame
<1>2. ASSUME NEW t \in Tids, heap_commit(t) PROVE Goal
  <2>1. UNCHANGED <<segs, pend>>
    BY <1>2 DEF heap_commit, metaVars
  <2>2. \A e \in CurrentEntries : e \in CurrentEntries'
    BY <1>2 DEF heap_commit, heapVars, CurrentEntries, EntryOf
  <2> QED
    BY <2>1, <2>2, StaleSame
<1>3. ASSUME NEW t \in Tids, heap_kill(t) PROVE Goal
  <2>1. UNCHANGED <<segs, pend>>
    BY <1>3 DEF heap_kill, metaVars
  <2>2. \A e \in CurrentEntries : e \in CurrentEntries'
    BY <1>3 DEF heap_kill, heapVars, CurrentEntries, EntryOf
  <2> QED
    BY <2>1, <2>2, StaleSame
<1>4. ASSUME NEW t \in Tids, weave_insert(t) PROVE Goal
  <2> DEFINE e == EntryOf(t)
  <2>1. pend' = Append(pend, e) /\ UNCHANGED <<segs, inc, nul>> /\ st' = [st EXCEPT ![t] = "indexed"]
    BY <1>4 DEF weave_insert
  <2>2. \A d \in CurrentEntries : d \in CurrentEntries'
    BY <2>1 DEF EntryOf, CurrentEntries
  <2>3. e \in CurrentEntries'
    BY <2>1 DEF EntryOf, CurrentEntries
  <2> HIDE DEF e
  <2>4. \A k \in DOMAIN pend' : (k \in DOMAIN pend /\ pend'[k] = pend[k]) \/ pend'[k] = e
    BY <2>1
  <2> QED
    BY <2>1, <2>2, <2>3, <2>4 DEF NoStaleEntry
<1>5. ASSUME NEW b \in Backends, weave_maintenance_lock(b) PROVE Goal
  <2>1. UNCHANGED <<segs, pend>>
    BY <1>5 DEF weave_maintenance_lock, metaVars
  <2>2. \A e \in CurrentEntries : e \in CurrentEntries'
    BY <1>5 DEF weave_maintenance_lock, heapVars, CurrentEntries, EntryOf
  <2> QED
    BY <2>1, <2>2, StaleSame
<1>6. ASSUME NEW b \in Backends, Abandon(b) PROVE Goal
  <2>1. UNCHANGED <<segs, pend>>
    BY <1>6 DEF Abandon, metaVars
  <2>2. \A e \in CurrentEntries : e \in CurrentEntries'
    BY <1>6 DEF Abandon, heapVars, CurrentEntries, EntryOf
  <2> QED
    BY <2>1, <2>2, StaleSame
<1>7. ASSUME Crash PROVE Goal
  <2>1. UNCHANGED <<segs, pend>>
    BY <1>7 DEF Crash, metaVars
  <2>2. \A e \in CurrentEntries : e \in CurrentEntries'
    BY <1>7 DEF Crash, heapVars, CurrentEntries, EntryOf
  <2> QED
    BY <2>1, <2>2, StaleSame
<1>8. ASSUME NEW b \in Backends, NEW S \in SUBSET DOMAIN segs, weave_merge_selected(b, S) PROVE Goal
  <2>1. UNCHANGED <<segs, pend>>
    BY <1>8 DEF weave_merge_selected, metaVars
  <2>2. \A e \in CurrentEntries : e \in CurrentEntries'
    BY <1>8 DEF weave_merge_selected, heapVars, CurrentEntries, EntryOf
  <2> QED
    BY <2>1, <2>2, StaleSame
<1>9. ASSUME NEW b \in Backends, weave_merge_commit(b) PROVE Goal
  <2>1. \A k \in DOMAIN segs' : \A e \in LiveDocs(segs'[k]) :
           \E i \in DOMAIN segs : e \in LiveDocs(segs[i])
    BY <1>9, MergeLive
  <2>2. UNCHANGED <<st, inc, nul, pend>>
    BY <1>9 DEF weave_merge_commit, heapVars
  <2>3. \A e \in CurrentEntries : e \in CurrentEntries'
    BY <2>2 DEF CurrentEntries, EntryOf
  <2> QED
    BY <2>1, <2>2, <2>3, StaleSame
<1>10. ASSUME NEW b \in Backends, weave_merge_stop(b) PROVE Goal
  <2>1. UNCHANGED <<segs, pend>>
    BY <1>10 DEF weave_merge_stop, metaVars
  <2>2. \A e \in CurrentEntries : e \in CurrentEntries'
    BY <1>10 DEF weave_merge_stop, heapVars, CurrentEntries, EntryOf
  <2> QED
    BY <2>1, <2>2, StaleSame
<1>11. ASSUME NEW b \in Backends, weave_flush_pending(b) PROVE Goal
  <2>1. UNCHANGED <<segs, pend>>
    BY <1>11 DEF weave_flush_pending, metaVars
  <2>2. \A e \in CurrentEntries : e \in CurrentEntries'
    BY <1>11 DEF weave_flush_pending, heapVars, CurrentEntries, EntryOf
  <2> QED
    BY <2>1, <2>2, StaleSame
<1>12. ASSUME NEW b \in Backends, weave_flush_add_and_cut(b) PROVE Goal
  <2>1. /\ segs' = Append(segs, NewBolt(built[b]))
        /\ pend' = SubSeq(pend, cut[b] + 1, Len(pend))
        /\ UNCHANGED <<st, inc, nul>>
    BY <1>12 DEF weave_flush_add_and_cut, KeptPending, heapVars
  <2>2. cut[b] <= Len(pend) /\ built[b] = {pend[i] : i \in 1..cut[b]}
    BY <1>12 DEF weave_flush_add_and_cut, IInv, Plan, CutInv, Walked
  <2>3. \A k \in DOMAIN pend' : \E i \in DOMAIN pend : pend'[k] = pend[i]
    <3>1. \A k \in DOMAIN pend' : k + cut[b] \in DOMAIN pend /\ pend'[k] = pend[k + cut[b]]
      BY <2>1, <2>2
    <3> QED
      BY <3>1
  <2>4. \A e \in CurrentEntries : e \in CurrentEntries'
    BY <2>1 DEF CurrentEntries, EntryOf
  <2>5. \A e \in LiveDocs(NewBolt(built[b])) : e \in CurrentEntries
    <3>1. LiveDocs(NewBolt(built[b])) = built[b]
      BY NewBoltLive
    <3> QED
      <4>1. \A i \in 1..cut[b] : pend[i] \in CurrentEntries
        BY <2>2 DEF NoStaleEntry
      <4>2. \A e \in built[b] : \E i \in 1..cut[b] : e = pend[i]
        BY <2>2
      <4>3. ASSUME NEW e \in built[b] PROVE e \in CurrentEntries
        <5>1. PICK i \in 1..cut[b] : e = pend[i]
          BY <4>2
        <5> QED
          BY <4>1, <5>1
      <4> QED
        BY <3>1, <4>3
  <2>6. \A k \in DOMAIN segs' : (k \in DOMAIN segs /\ segs'[k] = segs[k])
           \/ segs'[k] = NewBolt(built[b])
    BY <2>1
  <2>7. \A k \in DOMAIN segs' : \A e \in LiveDocs(segs'[k]) : e \in CurrentEntries'
    BY <2>4, <2>5, <2>6 DEF NoStaleEntry
  <2>8. \A k \in DOMAIN pend' : pend'[k] \in CurrentEntries'
    BY <2>3, <2>4 DEF NoStaleEntry
  <2> QED
    BY <2>7, <2>8 DEF NoStaleEntry
<1>13. ASSUME NEW b \in Backends, weave_add_segment_with_room(b) PROVE Goal
  <2>1. UNCHANGED <<segs, pend>>
    BY <1>13 DEF weave_add_segment_with_room, metaVars
  <2>2. \A e \in CurrentEntries : e \in CurrentEntries'
    BY <1>13 DEF weave_add_segment_with_room, heapVars, CurrentEntries, EntryOf
  <2> QED
    BY <2>1, <2>2, StaleSame
<1>14. ASSUME NEW b \in Backends, weave_directory_full(b) PROVE Goal
  <2>1. UNCHANGED <<segs, pend>>
    BY <1>14 DEF weave_directory_full, metaVars
  <2>2. \A e \in CurrentEntries : e \in CurrentEntries'
    BY <1>14 DEF weave_directory_full, heapVars, CurrentEntries, EntryOf
  <2> QED
    BY <2>1, <2>2, StaleSame
<1>15. ASSUME NEW b \in Backends, NEW t \in Tids, weave_insert_oversized_as_segment(b, t) PROVE Goal
  <2>1. UNCHANGED <<segs, pend>>
    BY <1>15 DEF weave_insert_oversized_as_segment, metaVars
  <2>2. \A e \in CurrentEntries : e \in CurrentEntries'
    BY <1>15 DEF weave_insert_oversized_as_segment, heapVars, CurrentEntries, EntryOf
  <2> QED
    BY <2>1, <2>2, StaleSame
<1>16. ASSUME NEW b \in Backends, weave_meta_add_segment(b) PROVE Goal
  <2>1. /\ pc[b] = "add_segment" /\ segs' = Append(segs, NewBolt(built[b]))
        /\ st' = [st EXCEPT ![row[b]] = "indexed"]
        /\ UNCHANGED <<inc, nul, pend>>
    BY <1>16 DEF weave_meta_add_segment
  <2>2. row[b] \in Tids /\ built[b] = {EntryOf(row[b])}
    BY <2>1 DEF JobInv, OwnInv, Unpublished
  <2>3. LiveDocs(NewBolt(built[b])) = {EntryOf(row[b])}
    BY <2>2, NewBoltLive
  <2>4. \A d \in CurrentEntries : d \in CurrentEntries'
    BY <2>1 DEF EntryOf, CurrentEntries
  <2>5. EntryOf(row[b]) \in CurrentEntries'
    BY <2>1, <2>2 DEF EntryOf, CurrentEntries
  <2>6. \A k \in DOMAIN segs' : (k \in DOMAIN segs /\ segs'[k] = segs[k])
           \/ segs'[k] = NewBolt(built[b])
    BY <2>1
  <2>7. \A k \in DOMAIN segs' : \A e \in LiveDocs(segs'[k]) : e \in CurrentEntries'
    BY <2>3, <2>4, <2>5, <2>6 DEF NoStaleEntry
  <2> QED
    BY <2>1, <2>4, <2>7 DEF NoStaleEntry
<1>17. ASSUME NEW b \in Backends, weave_small_runs_merge(b) PROVE Goal
  <2>1. UNCHANGED <<segs, pend>>
    BY <1>17 DEF weave_small_runs_merge, metaVars
  <2>2. \A e \in CurrentEntries : e \in CurrentEntries'
    BY <1>17 DEF weave_small_runs_merge, heapVars, CurrentEntries, EntryOf
  <2> QED
    BY <2>1, <2>2, StaleSame
<1>18. ASSUME NEW b \in Backends, weave_small_runs_skip(b) PROVE Goal
  <2>1. UNCHANGED <<segs, pend>>
    BY <1>18 DEF weave_small_runs_skip, metaVars
  <2>2. \A e \in CurrentEntries : e \in CurrentEntries'
    BY <1>18 DEF weave_small_runs_skip, heapVars, CurrentEntries, EntryOf
  <2> QED
    BY <2>1, <2>2, StaleSame
<1>19. ASSUME NEW b \in Backends, weave_merge(b) PROVE Goal
  <2>1. UNCHANGED <<segs, pend>>
    BY <1>19 DEF weave_merge, metaVars
  <2>2. \A e \in CurrentEntries : e \in CurrentEntries'
    BY <1>19 DEF weave_merge, heapVars, CurrentEntries, EntryOf
  <2> QED
    BY <2>1, <2>2, StaleSame
<1>20. ASSUME NEW b \in Backends, vacuum_heap_scan(b) PROVE Goal
  <2>1. UNCHANGED <<segs, pend>>
    BY <1>20 DEF vacuum_heap_scan, metaVars
  <2>2. \A e \in CurrentEntries : e \in CurrentEntries'
    BY <1>20 DEF vacuum_heap_scan, heapVars, CurrentEntries, EntryOf
  <2> QED
    BY <2>1, <2>2, StaleSame
<1>21. ASSUME NEW b \in Backends, weave_bulkdelete(b) PROVE Goal
  <2>1. UNCHANGED <<segs, pend>>
    BY <1>21 DEF weave_bulkdelete, metaVars
  <2>2. \A e \in CurrentEntries : e \in CurrentEntries'
    BY <1>21 DEF weave_bulkdelete, heapVars, CurrentEntries, EntryOf
  <2> QED
    BY <2>1, <2>2, StaleSame
<1>22. ASSUME NEW b \in Backends, weave_bulkdelete_swap(b) PROVE Goal
  <2>1. UNCHANGED <<st, inc, nul, pend>>
    BY <1>22 DEF weave_bulkdelete_swap, heapVars
  <2>2. \A e \in CurrentEntries : e \in CurrentEntries'
    BY <2>1 DEF CurrentEntries, EntryOf
  <2>3. \A k \in DOMAIN segs' : \A e \in LiveDocs(segs'[k]) :
           \E i \in DOMAIN segs : e \in LiveDocs(segs[i])
    BY <1>22, SwapDocs
  <2> QED
    BY <2>1, <2>2, <2>3, StaleSame
<1>23. ASSUME NEW b \in Backends, weave_bulkdelete_end(b) PROVE Goal
  <2>1. UNCHANGED <<segs, pend>>
    BY <1>23 DEF weave_bulkdelete_end, metaVars
  <2>2. \A e \in CurrentEntries : e \in CurrentEntries'
    BY <1>23 DEF weave_bulkdelete_end, heapVars, CurrentEntries, EntryOf
  <2> QED
    BY <2>1, <2>2, StaleSame
<1>24. ASSUME NEW b \in Backends, vacuum_heap(b) PROVE Goal
  <2>1. /\ pc[b] = "heap_vacuum" /\ job[b] = "bulkdelete"
        /\ st' = [t \in Tids |-> IF t \in vdead[b] THEN "unused" ELSE st[t]]
        /\ UNCHANGED <<inc, nul, segs, pend>>
    BY <1>24 DEF vacuum_heap, metaVars, JobInv, Flushed
  <2>2. \A e \in CurrentEntries : e.tid \notin vdead[b] => e \in CurrentEntries'
    BY <2>1 DEF CurrentEntries, EntryOf
  <2>3. \A i \in DOMAIN segs : \A e \in LiveDocs(segs[i]) : e.tid \notin vdead[b]
    BY <2>1 DEF IInv, Plan, SegsClean
  <2>4. \A i \in DOMAIN pend : pend[i].tid \notin vdead[b]
    BY <2>1 DEF IInv, Plan, PendClean, Flushed
  <2> QED
    BY <2>1, <2>2, <2>3, <2>4 DEF NoStaleEntry
<1>25. CASE UNCHANGED vars
  <2>1. UNCHANGED <<st, inc, nul, segs, pend>>
    BY <1>25 DEF vars
  <2> QED
    BY <2>1 DEF NoStaleEntry, CurrentEntries, EntryOf
<1> QED
  BY <1>1, <1>2, <1>3, <1>4, <1>5, <1>6, <1>7, <1>8, <1>9, <1>10, <1>11, <1>12, <1>13,
     <1>14, <1>15, <1>16, <1>17, <1>18, <1>19, <1>20, <1>21, <1>22, <1>23, <1>24, <1>25
  DEF Next, HeapStep, SessionStart, SessionStep, CountedStep, UncountedStep

\* The entry of a row that is not in the index yet is in none of its parts.
LEMMA FreshEntry ==
    ASSUME NoStaleEntry, NEW t \in Tids, st[t] = "busy"
    PROVE  /\ \A i \in DOMAIN segs : EntryOf(t) \notin LiveDocs(segs[i])
           /\ \A i \in DOMAIN pend : pend[i] # EntryOf(t)
<1>1. EntryOf(t) \notin CurrentEntries
  BY DEF CurrentEntries, EntryOf
<1> QED
  BY <1>1 DEF NoStaleEntry

\* Every step keeps each row's entry single.
LEMMA TwiceInductive == IInv /\ [Next]_vars => NoRowTwice'
<1> USE SessionAssumption
<1> DEFINE Goal == NoRowTwice'
<1> SUFFICES ASSUME IInv, [Next]_vars PROVE Goal
  OBVIOUS
<1>0. /\ st \in [Tids -> {"unused", "busy", "indexed", "live", "dead"}]
      /\ inc \in [Tids -> Nat] /\ nul \in [Tids -> BOOLEAN]
      /\ segs \in Seq(Bolt) /\ pend \in Seq(Entry) /\ nbolt \in Nat
      /\ built \in [Backends -> SUBSET Entry] /\ cut \in [Backends -> Nat]
      /\ row \in [Backends -> Tids \cup {NoTid}]
      /\ vdead \in [Backends -> SUBSET Tids]
      /\ JobInv /\ OwnInv /\ DeadInv /\ NoStaleEntry /\ NoRowTwice
  BY DEF IInv, Control, Plan, Rows, TypeOK
<1> USE <1>0
<1>1. ASSUME NEW t \in Tids, NEW isnull \in NullFlags, heap_insert(t, isnull) PROVE Goal
  <2>1. UNCHANGED <<segs, pend>>
    BY <1>1 DEF heap_insert, metaVars
  <2> QED
    BY <2>1 DEF NoRowTwice
<1>2. ASSUME NEW t \in Tids, heap_commit(t) PROVE Goal
  <2>1. UNCHANGED <<segs, pend>>
    BY <1>2 DEF heap_commit, metaVars
  <2> QED
    BY <2>1 DEF NoRowTwice
<1>3. ASSUME NEW t \in Tids, heap_kill(t) PROVE Goal
  <2>1. UNCHANGED <<segs, pend>>
    BY <1>3 DEF heap_kill, metaVars
  <2> QED
    BY <2>1 DEF NoRowTwice
<1>4. ASSUME NEW t \in Tids, weave_insert(t) PROVE Goal
  <2> DEFINE e == EntryOf(t)
  <2>1. pend' = Append(pend, e) /\ UNCHANGED segs /\ st[t] = "busy"
    BY <1>4 DEF weave_insert
  <2>2. /\ \A i \in DOMAIN segs : e \notin LiveDocs(segs[i])
        /\ \A i \in DOMAIN pend : pend[i] # e
    BY <2>1, FreshEntry
  <2> HIDE DEF e
  <2>3. \A k \in DOMAIN pend' : (k \in DOMAIN pend /\ pend'[k] = pend[k])
           \/ (pend'[k] = e /\ k = Len(pend) + 1)
    BY <2>1
  <2>4. \A k, l \in DOMAIN pend' : k # l => pend'[k] # pend'[l]
    BY <2>2, <2>3 DEF NoRowTwice
  <2>5. \A i \in DOMAIN segs', k \in DOMAIN pend' : pend'[k] \notin LiveDocs(segs'[i])
    BY <2>1, <2>2, <2>3 DEF NoRowTwice
  <2> QED
    BY <2>1, <2>4, <2>5 DEF NoRowTwice
<1>5. ASSUME NEW b \in Backends, weave_maintenance_lock(b) PROVE Goal
  <2>1. UNCHANGED <<segs, pend>>
    BY <1>5 DEF weave_maintenance_lock, metaVars
  <2> QED
    BY <2>1 DEF NoRowTwice
<1>6. ASSUME NEW b \in Backends, Abandon(b) PROVE Goal
  <2>1. UNCHANGED <<segs, pend>>
    BY <1>6 DEF Abandon, metaVars
  <2> QED
    BY <2>1 DEF NoRowTwice
<1>7. ASSUME Crash PROVE Goal
  <2>1. UNCHANGED <<segs, pend>>
    BY <1>7 DEF Crash, metaVars
  <2> QED
    BY <2>1 DEF NoRowTwice
<1>8. ASSUME NEW b \in Backends, NEW S \in SUBSET DOMAIN segs, weave_merge_selected(b, S) PROVE Goal
  <2>1. UNCHANGED <<segs, pend>>
    BY <1>8 DEF weave_merge_selected, metaVars
  <2> QED
    BY <2>1 DEF NoRowTwice
<1>9. ASSUME NEW b \in Backends, weave_merge_commit(b) PROVE Goal
  <2>1. /\ \A k \in DOMAIN segs' : \A e \in LiveDocs(segs'[k]) :
             \E i \in DOMAIN segs : e \in LiveDocs(segs[i])
        /\ \A k, l \in DOMAIN segs' : k # l => LiveDocs(segs'[k]) \cap LiveDocs(segs'[l]) = {}
    BY <1>9, MergeLive
  <2>2. UNCHANGED pend
    BY <1>9 DEF weave_merge_commit
  <2> QED
    BY <2>1, <2>2 DEF NoRowTwice
<1>10. ASSUME NEW b \in Backends, weave_merge_stop(b) PROVE Goal
  <2>1. UNCHANGED <<segs, pend>>
    BY <1>10 DEF weave_merge_stop, metaVars
  <2> QED
    BY <2>1 DEF NoRowTwice
<1>11. ASSUME NEW b \in Backends, weave_flush_pending(b) PROVE Goal
  <2>1. UNCHANGED <<segs, pend>>
    BY <1>11 DEF weave_flush_pending, metaVars
  <2> QED
    BY <2>1 DEF NoRowTwice
<1>12. ASSUME NEW b \in Backends, weave_flush_add_and_cut(b) PROVE Goal
  <2> DEFINE g == NewBolt(built[b])
  <2>1. /\ segs' = Append(segs, g)
        /\ pend' = SubSeq(pend, cut[b] + 1, Len(pend))
    BY <1>12 DEF weave_flush_add_and_cut, KeptPending
  <2>2. cut[b] <= Len(pend) /\ built[b] = {pend[i] : i \in 1..cut[b]}
    BY <1>12 DEF weave_flush_add_and_cut, IInv, Plan, CutInv, Walked
  <2>3. LiveDocs(g) = built[b]
    BY NewBoltLive
  <2> HIDE DEF g
  <2>4. \A e \in LiveDocs(g) : \E i \in DOMAIN pend : i <= cut[b] /\ e = pend[i]
    BY <2>2, <2>3
  <2>5. \A k \in DOMAIN pend' : /\ k + cut[b] \in DOMAIN pend /\ k + cut[b] > cut[b]
                                /\ pend'[k] = pend[k + cut[b]]
    BY <2>1, <2>2
  <2>6. \A k \in DOMAIN segs' : (k \in DOMAIN segs /\ segs'[k] = segs[k])
           \/ (segs'[k] = g /\ k = Len(segs) + 1)
    BY <2>1
  <2>7. \A i \in DOMAIN segs : LiveDocs(segs[i]) \cap LiveDocs(g) = {}
    BY <2>4 DEF NoRowTwice
  <2>8. \A k, l \in DOMAIN segs' : k # l => LiveDocs(segs'[k]) \cap LiveDocs(segs'[l]) = {}
    BY <2>6, <2>7 DEF NoRowTwice
  <2>9. \A k, l \in DOMAIN pend' : k # l => pend'[k] # pend'[l]
    <3>1. \A k, l \in DOMAIN pend' : k # l => k + cut[b] # l + cut[b]
      BY <2>1, <2>2
    <3> QED
      BY <2>5, <3>1 DEF NoRowTwice
  <2>10. \A k \in DOMAIN pend' : pend'[k] \notin LiveDocs(g)
    BY <2>4, <2>5 DEF NoRowTwice
  <2>11. \A i \in DOMAIN segs', k \in DOMAIN pend' : pend'[k] \notin LiveDocs(segs'[i])
    BY <2>5, <2>6, <2>10 DEF NoRowTwice
  <2> QED
    BY <2>8, <2>9, <2>11 DEF NoRowTwice
<1>13. ASSUME NEW b \in Backends, weave_add_segment_with_room(b) PROVE Goal
  <2>1. UNCHANGED <<segs, pend>>
    BY <1>13 DEF weave_add_segment_with_room, metaVars
  <2> QED
    BY <2>1 DEF NoRowTwice
<1>14. ASSUME NEW b \in Backends, weave_directory_full(b) PROVE Goal
  <2>1. UNCHANGED <<segs, pend>>
    BY <1>14 DEF weave_directory_full, metaVars
  <2> QED
    BY <2>1 DEF NoRowTwice
<1>15. ASSUME NEW b \in Backends, NEW t \in Tids, weave_insert_oversized_as_segment(b, t) PROVE Goal
  <2>1. UNCHANGED <<segs, pend>>
    BY <1>15 DEF weave_insert_oversized_as_segment, metaVars
  <2> QED
    BY <2>1 DEF NoRowTwice
<1>16. ASSUME NEW b \in Backends, weave_meta_add_segment(b) PROVE Goal
  <2> DEFINE g == NewBolt(built[b])
  <2>1. pc[b] = "add_segment" /\ segs' = Append(segs, g) /\ UNCHANGED pend
    BY <1>16 DEF weave_meta_add_segment
  <2>2. row[b] \in Tids /\ st[row[b]] = "busy" /\ built[b] = {EntryOf(row[b])}
    BY <2>1 DEF JobInv, OwnInv, Unpublished
  <2>3. LiveDocs(g) = {EntryOf(row[b])}
    BY <2>2, NewBoltLive
  <2> HIDE DEF g
  <2>4. /\ \A i \in DOMAIN segs : LiveDocs(segs[i]) \cap LiveDocs(g) = {}
        /\ \A i \in DOMAIN pend : pend[i] \notin LiveDocs(g)
    BY <2>2, <2>3, FreshEntry
  <2>5. \A k \in DOMAIN segs' : (k \in DOMAIN segs /\ segs'[k] = segs[k])
           \/ (segs'[k] = g /\ k = Len(segs) + 1)
    BY <2>1
  <2>6. \A k, l \in DOMAIN segs' : k # l => LiveDocs(segs'[k]) \cap LiveDocs(segs'[l]) = {}
    BY <2>4, <2>5 DEF NoRowTwice
  <2>7. \A i \in DOMAIN segs', k \in DOMAIN pend' : pend'[k] \notin LiveDocs(segs'[i])
    BY <2>1, <2>4, <2>5 DEF NoRowTwice
  <2> QED
    BY <2>1, <2>6, <2>7 DEF NoRowTwice
<1>17. ASSUME NEW b \in Backends, weave_small_runs_merge(b) PROVE Goal
  <2>1. UNCHANGED <<segs, pend>>
    BY <1>17 DEF weave_small_runs_merge, metaVars
  <2> QED
    BY <2>1 DEF NoRowTwice
<1>18. ASSUME NEW b \in Backends, weave_small_runs_skip(b) PROVE Goal
  <2>1. UNCHANGED <<segs, pend>>
    BY <1>18 DEF weave_small_runs_skip, metaVars
  <2> QED
    BY <2>1 DEF NoRowTwice
<1>19. ASSUME NEW b \in Backends, weave_merge(b) PROVE Goal
  <2>1. UNCHANGED <<segs, pend>>
    BY <1>19 DEF weave_merge, metaVars
  <2> QED
    BY <2>1 DEF NoRowTwice
<1>20. ASSUME NEW b \in Backends, vacuum_heap_scan(b) PROVE Goal
  <2>1. UNCHANGED <<segs, pend>>
    BY <1>20 DEF vacuum_heap_scan, metaVars
  <2> QED
    BY <2>1 DEF NoRowTwice
<1>21. ASSUME NEW b \in Backends, weave_bulkdelete(b) PROVE Goal
  <2>1. UNCHANGED <<segs, pend>>
    BY <1>21 DEF weave_bulkdelete, metaVars
  <2> QED
    BY <2>1 DEF NoRowTwice
<1>22. ASSUME NEW b \in Backends, weave_bulkdelete_swap(b) PROVE Goal
  <2>1. DOMAIN segs' = DOMAIN segs
        /\ \A k \in DOMAIN segs' : \A e \in LiveDocs(segs'[k]) : e \in LiveDocs(segs[k])
    BY <1>22, SwapDocs
  <2>2. UNCHANGED pend
    BY <1>22 DEF weave_bulkdelete_swap
  <2> QED
    BY <2>1, <2>2 DEF NoRowTwice
<1>23. ASSUME NEW b \in Backends, weave_bulkdelete_end(b) PROVE Goal
  <2>1. UNCHANGED <<segs, pend>>
    BY <1>23 DEF weave_bulkdelete_end, metaVars
  <2> QED
    BY <2>1 DEF NoRowTwice
<1>24. ASSUME NEW b \in Backends, vacuum_heap(b) PROVE Goal
  <2>1. UNCHANGED <<segs, pend>>
    BY <1>24 DEF vacuum_heap, metaVars
  <2> QED
    BY <2>1 DEF NoRowTwice
<1>25. CASE UNCHANGED vars
  <2>1. UNCHANGED <<segs, pend>>
    BY <1>25 DEF vars
  <2> QED
    BY <2>1 DEF NoRowTwice
<1> QED
  BY <1>1, <1>2, <1>3, <1>4, <1>5, <1>6, <1>7, <1>8, <1>9, <1>10, <1>11, <1>12, <1>13,
     <1>14, <1>15, <1>16, <1>17, <1>18, <1>19, <1>20, <1>21, <1>22, <1>23, <1>24, <1>25
  DEF Next, HeapStep, SessionStart, SessionStep, CountedStep, UncountedStep

\* A step that keeps a row's entry somewhere in the index loses no row.
LEMMA LostSame ==
    ASSUME NoRowLost,
           \A t \in Tids : st'[t] \in {"indexed", "live"} =>
              /\ st[t] \in {"indexed", "live"} /\ inc'[t] = inc[t] /\ nul'[t] = nul[t],
           \A e \in {EntryOf(t) : t \in {u \in Tids : st'[u] \in {"indexed", "live"}}} :
              Indexed(e) => \/ \E k \in DOMAIN segs' : e \in LiveDocs(segs'[k])
                            \/ \E k \in DOMAIN pend' : pend'[k] = e
    PROVE  NoRowLost'
<1>1. SUFFICES ASSUME NEW t \in Tids, st'[t] \in {"indexed", "live"},
                      NEW e, e = [tid |-> t, inc |-> inc'[t], nul |-> nul'[t]]
               PROVE  \/ \E k \in DOMAIN segs' : e \in LiveDocs(segs'[k])
                      \/ \E k \in DOMAIN pend' : pend'[k] = e
  BY DEF NoRowLost, Indexed, EntryOf
<1>2. e = EntryOf(t) /\ st[t] \in {"indexed", "live"}
  BY <1>1 DEF EntryOf
<1>3. Indexed(e)
  BY <1>2 DEF NoRowLost
<1> QED
  BY <1>1, <1>2, <1>3

\* Every step keeps the entry of every row.
LEMMA LostInductive == IInv /\ [Next]_vars => NoRowLost'
<1> USE SessionAssumption
<1> DEFINE Goal == NoRowLost'
<1> SUFFICES ASSUME IInv, [Next]_vars PROVE Goal
  OBVIOUS
<1>0. /\ st \in [Tids -> {"unused", "busy", "indexed", "live", "dead"}]
      /\ inc \in [Tids -> Nat] /\ nul \in [Tids -> BOOLEAN]
      /\ segs \in Seq(Bolt) /\ pend \in Seq(Entry) /\ nbolt \in Nat
      /\ built \in [Backends -> SUBSET Entry] /\ cut \in [Backends -> Nat]
      /\ row \in [Backends -> Tids \cup {NoTid}]
      /\ vdead \in [Backends -> SUBSET Tids]
      /\ JobInv /\ OwnInv /\ DeadInv /\ NoRowLost
  BY DEF IInv, Control, Plan, Rows, TypeOK
<1> USE <1>0
<1>1. ASSUME NEW t \in Tids, NEW isnull \in NullFlags, heap_insert(t, isnull) PROVE Goal
  <2>1. UNCHANGED <<segs, pend>>
    BY <1>1 DEF heap_insert, metaVars
  <2>2. \A u \in Tids : st'[u] \in {"indexed", "live"} =>
           /\ st[u] \in {"indexed", "live"} /\ inc'[u] = inc[u] /\ nul'[u] = nul[u]
    BY <1>1 DEF heap_insert, heapVars
  <2> QED
    BY <2>1, <2>2, LostSame DEF Indexed
<1>2. ASSUME NEW t \in Tids, heap_commit(t) PROVE Goal
  <2>1. UNCHANGED <<segs, pend>>
    BY <1>2 DEF heap_commit, metaVars
  <2>2. \A u \in Tids : st'[u] \in {"indexed", "live"} =>
           /\ st[u] \in {"indexed", "live"} /\ inc'[u] = inc[u] /\ nul'[u] = nul[u]
    BY <1>2 DEF heap_commit, heapVars
  <2> QED
    BY <2>1, <2>2, LostSame DEF Indexed
<1>3. ASSUME NEW t \in Tids, heap_kill(t) PROVE Goal
  <2>1. UNCHANGED <<segs, pend>>
    BY <1>3 DEF heap_kill, metaVars
  <2>2. \A u \in Tids : st'[u] \in {"indexed", "live"} =>
           /\ st[u] \in {"indexed", "live"} /\ inc'[u] = inc[u] /\ nul'[u] = nul[u]
    BY <1>3 DEF heap_kill, heapVars
  <2> QED
    BY <2>1, <2>2, LostSame DEF Indexed
<1>4. ASSUME NEW t \in Tids, weave_insert(t) PROVE Goal
  <2> DEFINE n == Len(pend) + 1
  <2>1. /\ pend' = Append(pend, EntryOf(t)) /\ UNCHANGED <<segs, inc, nul>>
        /\ st' = [st EXCEPT ![t] = "indexed"]
    BY <1>4 DEF weave_insert
  <2>2. n \in DOMAIN pend' /\ pend'[n] = EntryOf(t)
    BY <2>1
  <2>3. \A i \in DOMAIN pend : i \in DOMAIN pend' /\ pend'[i] = pend[i]
    BY <2>1
  <2>4. ASSUME NEW u \in Tids, st'[u] \in {"indexed", "live"}
        PROVE  \/ \E i \in DOMAIN segs' : EntryOf(u) \in LiveDocs(segs'[i])
               \/ \E i \in DOMAIN pend' : pend'[i] = EntryOf(u)
    <3>1. CASE u = t
      BY <2>2, <3>1
    <3>2. CASE u # t
      <4>1. Indexed(EntryOf(u))
        BY <2>1, <2>4, <3>2 DEF NoRowLost
      <4> QED
        BY <2>1, <2>3, <4>1 DEF Indexed
    <3> QED
      BY <3>1, <3>2
  <2> QED
    BY <2>1, <2>4 DEF NoRowLost, Indexed, EntryOf
<1>5. ASSUME NEW b \in Backends, weave_maintenance_lock(b) PROVE Goal
  <2>1. UNCHANGED <<segs, pend>>
    BY <1>5 DEF weave_maintenance_lock, metaVars
  <2>2. \A u \in Tids : st'[u] \in {"indexed", "live"} =>
           /\ st[u] \in {"indexed", "live"} /\ inc'[u] = inc[u] /\ nul'[u] = nul[u]
    BY <1>5 DEF weave_maintenance_lock, heapVars
  <2> QED
    BY <2>1, <2>2, LostSame DEF Indexed
<1>6. ASSUME NEW b \in Backends, Abandon(b) PROVE Goal
  <2>1. UNCHANGED <<segs, pend>>
    BY <1>6 DEF Abandon, metaVars
  <2>2. \A u \in Tids : st'[u] \in {"indexed", "live"} =>
           /\ st[u] \in {"indexed", "live"} /\ inc'[u] = inc[u] /\ nul'[u] = nul[u]
    BY <1>6 DEF Abandon, heapVars
  <2> QED
    BY <2>1, <2>2, LostSame DEF Indexed
<1>7. ASSUME Crash PROVE Goal
  <2>1. UNCHANGED <<segs, pend>>
    BY <1>7 DEF Crash, metaVars
  <2>2. \A u \in Tids : st'[u] \in {"indexed", "live"} =>
           /\ st[u] \in {"indexed", "live"} /\ inc'[u] = inc[u] /\ nul'[u] = nul[u]
    BY <1>7 DEF Crash, heapVars
  <2> QED
    BY <2>1, <2>2, LostSame DEF Indexed
<1>8. ASSUME NEW b \in Backends, NEW S \in SUBSET DOMAIN segs, weave_merge_selected(b, S) PROVE Goal
  <2>1. UNCHANGED <<segs, pend>>
    BY <1>8 DEF weave_merge_selected, metaVars
  <2>2. \A u \in Tids : st'[u] \in {"indexed", "live"} =>
           /\ st[u] \in {"indexed", "live"} /\ inc'[u] = inc[u] /\ nul'[u] = nul[u]
    BY <1>8 DEF weave_merge_selected, heapVars
  <2> QED
    BY <2>1, <2>2, LostSame DEF Indexed
<1>9. ASSUME NEW b \in Backends, weave_merge_commit(b) PROVE Goal
  <2>1. \A i \in DOMAIN segs : \A e \in LiveDocs(segs[i]) :
           \E k \in DOMAIN segs' : e \in LiveDocs(segs'[k])
    BY <1>9, MergeLive
  <2>2. UNCHANGED <<st, inc, nul, pend>>
    BY <1>9 DEF weave_merge_commit, heapVars
  <2> QED
    BY <2>1, <2>2, LostSame DEF Indexed
<1>10. ASSUME NEW b \in Backends, weave_merge_stop(b) PROVE Goal
  <2>1. UNCHANGED <<segs, pend>>
    BY <1>10 DEF weave_merge_stop, metaVars
  <2>2. \A u \in Tids : st'[u] \in {"indexed", "live"} =>
           /\ st[u] \in {"indexed", "live"} /\ inc'[u] = inc[u] /\ nul'[u] = nul[u]
    BY <1>10 DEF weave_merge_stop, heapVars
  <2> QED
    BY <2>1, <2>2, LostSame DEF Indexed
<1>11. ASSUME NEW b \in Backends, weave_flush_pending(b) PROVE Goal
  <2>1. UNCHANGED <<segs, pend>>
    BY <1>11 DEF weave_flush_pending, metaVars
  <2>2. \A u \in Tids : st'[u] \in {"indexed", "live"} =>
           /\ st[u] \in {"indexed", "live"} /\ inc'[u] = inc[u] /\ nul'[u] = nul[u]
    BY <1>11 DEF weave_flush_pending, heapVars
  <2> QED
    BY <2>1, <2>2, LostSame DEF Indexed
<1>12. ASSUME NEW b \in Backends, weave_flush_add_and_cut(b) PROVE Goal
  <2> DEFINE g == NewBolt(built[b])
             n == Len(segs) + 1
  <2>1. /\ segs' = Append(segs, g)
        /\ pend' = SubSeq(pend, cut[b] + 1, Len(pend))
        /\ UNCHANGED <<st, inc, nul>>
    BY <1>12 DEF weave_flush_add_and_cut, KeptPending, heapVars
  <2>2. cut[b] <= Len(pend) /\ built[b] = {pend[i] : i \in 1..cut[b]}
    BY <1>12 DEF weave_flush_add_and_cut, IInv, Plan, CutInv, Walked
  <2>3. LiveDocs(g) = built[b]
    BY NewBoltLive
  <2> HIDE DEF g
  <2>4. \A i \in DOMAIN segs : i \in DOMAIN segs' /\ segs'[i] = segs[i]
    BY <2>1
  <2>5. n \in DOMAIN segs' /\ segs'[n] = g
    BY <2>1
  <2>6. ASSUME NEW i \in DOMAIN pend
        PROVE  \/ \E k \in DOMAIN segs' : pend[i] \in LiveDocs(segs'[k])
               \/ \E k \in DOMAIN pend' : pend'[k] = pend[i]
    <3>1. CASE i <= cut[b]
      <4>1. i \in 1..cut[b]
        BY <3>1
      <4>2. pend[i] \in built[b]
        BY <2>2, <4>1
      <4> QED
        BY <2>3, <2>5, <4>2
    <3>2. CASE i > cut[b]
      <4>1. i - cut[b] \in DOMAIN pend' /\ pend'[i - cut[b]] = pend[i]
        BY <2>1, <2>2, <3>2
      <4> QED
        BY <4>1
    <3> QED
      BY <3>1, <3>2
  <2>7. \A e : Indexed(e) => \/ \E k \in DOMAIN segs' : e \in LiveDocs(segs'[k])
                             \/ \E k \in DOMAIN pend' : pend'[k] = e
    BY <2>4, <2>6 DEF Indexed
  <2> QED
    BY <2>1, <2>7, LostSame
<1>13. ASSUME NEW b \in Backends, weave_add_segment_with_room(b) PROVE Goal
  <2>1. UNCHANGED <<segs, pend>>
    BY <1>13 DEF weave_add_segment_with_room, metaVars
  <2>2. \A u \in Tids : st'[u] \in {"indexed", "live"} =>
           /\ st[u] \in {"indexed", "live"} /\ inc'[u] = inc[u] /\ nul'[u] = nul[u]
    BY <1>13 DEF weave_add_segment_with_room, heapVars
  <2> QED
    BY <2>1, <2>2, LostSame DEF Indexed
<1>14. ASSUME NEW b \in Backends, weave_directory_full(b) PROVE Goal
  <2>1. UNCHANGED <<segs, pend>>
    BY <1>14 DEF weave_directory_full, metaVars
  <2>2. \A u \in Tids : st'[u] \in {"indexed", "live"} =>
           /\ st[u] \in {"indexed", "live"} /\ inc'[u] = inc[u] /\ nul'[u] = nul[u]
    BY <1>14 DEF weave_directory_full, heapVars
  <2> QED
    BY <2>1, <2>2, LostSame DEF Indexed
<1>15. ASSUME NEW b \in Backends, NEW t \in Tids, weave_insert_oversized_as_segment(b, t) PROVE Goal
  <2>1. UNCHANGED <<segs, pend>>
    BY <1>15 DEF weave_insert_oversized_as_segment, metaVars
  <2>2. \A u \in Tids : st'[u] \in {"indexed", "live"} =>
           /\ st[u] \in {"indexed", "live"} /\ inc'[u] = inc[u] /\ nul'[u] = nul[u]
    BY <1>15 DEF weave_insert_oversized_as_segment, heapVars
  <2> QED
    BY <2>1, <2>2, LostSame DEF Indexed
<1>16. ASSUME NEW b \in Backends, weave_meta_add_segment(b) PROVE Goal
  <2> DEFINE g == NewBolt(built[b])
             n == Len(segs) + 1
  <2>1. /\ pc[b] = "add_segment" /\ segs' = Append(segs, g)
        /\ st' = [st EXCEPT ![row[b]] = "indexed"]
        /\ UNCHANGED <<inc, nul, pend>>
    BY <1>16 DEF weave_meta_add_segment
  <2>2. row[b] \in Tids /\ built[b] = {EntryOf(row[b])}
    BY <2>1 DEF JobInv, OwnInv, Unpublished
  <2>3. LiveDocs(g) = {EntryOf(row[b])}
    BY <2>2, NewBoltLive
  <2> HIDE DEF g
  <2>4. \A i \in DOMAIN segs : i \in DOMAIN segs' /\ segs'[i] = segs[i]
    BY <2>1
  <2>5. n \in DOMAIN segs' /\ segs'[n] = g
    BY <2>1
  <2>6. ASSUME NEW u \in Tids, st'[u] \in {"indexed", "live"}
        PROVE  \/ \E i \in DOMAIN segs' : EntryOf(u) \in LiveDocs(segs'[i])
               \/ \E i \in DOMAIN pend' : pend'[i] = EntryOf(u)
    <3>1. CASE u = row[b]
      BY <2>3, <2>5, <3>1
    <3>2. CASE u # row[b]
      <4>1. Indexed(EntryOf(u))
        BY <2>1, <2>2, <2>6, <3>2 DEF NoRowLost
      <4> QED
        BY <2>1, <2>4, <4>1 DEF Indexed
    <3> QED
      BY <3>1, <3>2
  <2> QED
    BY <2>1, <2>6 DEF NoRowLost, Indexed, EntryOf
<1>17. ASSUME NEW b \in Backends, weave_small_runs_merge(b) PROVE Goal
  <2>1. UNCHANGED <<segs, pend>>
    BY <1>17 DEF weave_small_runs_merge, metaVars
  <2>2. \A u \in Tids : st'[u] \in {"indexed", "live"} =>
           /\ st[u] \in {"indexed", "live"} /\ inc'[u] = inc[u] /\ nul'[u] = nul[u]
    BY <1>17 DEF weave_small_runs_merge, heapVars
  <2> QED
    BY <2>1, <2>2, LostSame DEF Indexed
<1>18. ASSUME NEW b \in Backends, weave_small_runs_skip(b) PROVE Goal
  <2>1. UNCHANGED <<segs, pend>>
    BY <1>18 DEF weave_small_runs_skip, metaVars
  <2>2. \A u \in Tids : st'[u] \in {"indexed", "live"} =>
           /\ st[u] \in {"indexed", "live"} /\ inc'[u] = inc[u] /\ nul'[u] = nul[u]
    BY <1>18 DEF weave_small_runs_skip, heapVars
  <2> QED
    BY <2>1, <2>2, LostSame DEF Indexed
<1>19. ASSUME NEW b \in Backends, weave_merge(b) PROVE Goal
  <2>1. UNCHANGED <<segs, pend>>
    BY <1>19 DEF weave_merge, metaVars
  <2>2. \A u \in Tids : st'[u] \in {"indexed", "live"} =>
           /\ st[u] \in {"indexed", "live"} /\ inc'[u] = inc[u] /\ nul'[u] = nul[u]
    BY <1>19 DEF weave_merge, heapVars
  <2> QED
    BY <2>1, <2>2, LostSame DEF Indexed
<1>20. ASSUME NEW b \in Backends, vacuum_heap_scan(b) PROVE Goal
  <2>1. UNCHANGED <<segs, pend>>
    BY <1>20 DEF vacuum_heap_scan, metaVars
  <2>2. \A u \in Tids : st'[u] \in {"indexed", "live"} =>
           /\ st[u] \in {"indexed", "live"} /\ inc'[u] = inc[u] /\ nul'[u] = nul[u]
    BY <1>20 DEF vacuum_heap_scan, heapVars
  <2> QED
    BY <2>1, <2>2, LostSame DEF Indexed
<1>21. ASSUME NEW b \in Backends, weave_bulkdelete(b) PROVE Goal
  <2>1. UNCHANGED <<segs, pend>>
    BY <1>21 DEF weave_bulkdelete, metaVars
  <2>2. \A u \in Tids : st'[u] \in {"indexed", "live"} =>
           /\ st[u] \in {"indexed", "live"} /\ inc'[u] = inc[u] /\ nul'[u] = nul[u]
    BY <1>21 DEF weave_bulkdelete, heapVars
  <2> QED
    BY <2>1, <2>2, LostSame DEF Indexed
<1>22. ASSUME NEW b \in Backends, weave_bulkdelete_swap(b) PROVE Goal
  <2>1. DOMAIN segs' = DOMAIN segs
        /\ \A i \in DOMAIN segs : \A e \in LiveDocs(segs[i]) :
             e.tid \notin vdead[b] => e \in LiveDocs(segs'[i])
    BY <1>22, SwapDocs
  <2>2. UNCHANGED <<st, inc, nul, pend>> /\ job[b] = "bulkdelete"
    BY <1>22 DEF weave_bulkdelete_swap, heapVars, JobInv, Flushed
  <2>3. \A t \in Tids : st[t] \in {"indexed", "live"} => EntryOf(t).tid \notin vdead[b]
    BY <2>2 DEF DeadInv, EntryOf
  <2>4. \A e \in {EntryOf(t) : t \in {u \in Tids : st'[u] \in {"indexed", "live"}}} : e.tid \notin vdead[b]
    BY <2>2, <2>3
  <2>5. \A e \in {EntryOf(t) : t \in {u \in Tids : st'[u] \in {"indexed", "live"}}} :
           Indexed(e) => \/ \E k \in DOMAIN segs' : e \in LiveDocs(segs'[k])
                         \/ \E k \in DOMAIN pend' : pend'[k] = e
    BY <2>1, <2>2, <2>4 DEF Indexed
  <2> QED
    BY <2>2, <2>5, LostSame
<1>23. ASSUME NEW b \in Backends, weave_bulkdelete_end(b) PROVE Goal
  <2>1. UNCHANGED <<segs, pend>>
    BY <1>23 DEF weave_bulkdelete_end, metaVars
  <2>2. \A u \in Tids : st'[u] \in {"indexed", "live"} =>
           /\ st[u] \in {"indexed", "live"} /\ inc'[u] = inc[u] /\ nul'[u] = nul[u]
    BY <1>23 DEF weave_bulkdelete_end, heapVars
  <2> QED
    BY <2>1, <2>2, LostSame DEF Indexed
<1>24. ASSUME NEW b \in Backends, vacuum_heap(b) PROVE Goal
  <2>1. UNCHANGED <<segs, pend>>
    BY <1>24 DEF vacuum_heap, metaVars
  <2>2. \A u \in Tids : st'[u] \in {"indexed", "live"} =>
           /\ st[u] \in {"indexed", "live"} /\ inc'[u] = inc[u] /\ nul'[u] = nul[u]
    BY <1>24 DEF vacuum_heap, heapVars
  <2> QED
    BY <2>1, <2>2, LostSame DEF Indexed
<1>25. CASE UNCHANGED vars
  <2>1. UNCHANGED <<st, inc, nul, segs, pend>>
    BY <1>25 DEF vars
  <2> QED
    BY <2>1, LostSame DEF Indexed
<1> QED
  BY <1>1, <1>2, <1>3, <1>4, <1>5, <1>6, <1>7, <1>8, <1>9, <1>10, <1>11, <1>12, <1>13,
     <1>14, <1>15, <1>16, <1>17, <1>18, <1>19, <1>20, <1>21, <1>22, <1>23, <1>24, <1>25
  DEF Next, HeapStep, SessionStart, SessionStep, CountedStep, UncountedStep

-----------------------------------------------------------------------------
(* The theorems *)

\* An index with no rows and no sessions satisfies the invariant.
LEMMA InitInv == Init => IInv
<1> SUFFICES ASSUME Init PROVE IInv
  OBVIOUS
<1> USE SessionAssumption, GenAssumption DEF Init
<1>1. TypeOK
  BY DEF TypeOK, Labels, Jobs
<1>2. MutexInv /\ JobInv /\ OneVacuum
  BY DEF MutexInv, JobInv, OneVacuum, HoldsMutex, Merging, Flushed
<1>3. OwnInv /\ IdInv /\ CutInv /\ SelInv /\ SwapHitsItsBolt
  BY DEF OwnInv, IdInv, CutInv, SelInv, SwapHitsItsBolt, Walked, Merging
<1>4. DeadInv /\ PendClean /\ SegsClean
  BY DEF DeadInv, PendClean, SegsClean
<1>5. NoStaleEntry /\ NoRowTwice /\ NoRowLost
  BY DEF NoStaleEntry, NoRowTwice, NoRowLost
<1> QED
  BY <1>1, <1>2, <1>3, <1>4, <1>5 DEF IInv, Control, Plan, Rows

\* Every step, a crash and an abandoned statement included, preserves it.
LEMMA StepInv == IInv /\ [Next]_vars => IInv'
<1> SUFFICES ASSUME IInv, [Next]_vars PROVE IInv'
  OBVIOUS
<1>1. Control'
  BY TypeInductive, ControlInductive DEF IInv, Control
<1>2. Plan'
  BY OwnInductive, IdInductive, CutInductive, SelInductive, SwapInductive,
     DeadInductive, PendCleanInductive, SegsCleanInductive DEF Plan
<1>3. Rows'
  BY StaleInductive, TwiceInductive, LostInductive DEF Rows
<1> QED
  BY <1>1, <1>2, <1>3 DEF IInv

\* The invariant holds in every reachable state.
THEOREM Invariance == Spec => []IInv
<1> QED
  BY InitInv, StepInv, PTL DEF Spec

\* Every variable keeps its type; in particular the generation stays in its width.
THEOREM TypeCorrect == Spec => []TypeOK
<1>1. IInv => TypeOK
  BY DEF IInv, Control
<1> QED
  BY <1>1, Invariance, PTL

\* A row whose index insert is done is met by every scan until it is dead, whatever
\* INSERTs, flushes, merges, VACUUMs, errors and crashes come in between.
THEOREM RowsAreKept == Spec => []NoRowLost
<1>1. IInv => NoRowLost
  BY DEF IInv, Rows
<1> QED
  BY <1>1, Invariance, PTL

\* No entry outlives its row: VACUUM gives a line pointer back only when every
\* entry for it is tombstoned.
THEOREM EntriesAreCurrent == Spec => []NoStaleEntry
<1>1. IInv => NoStaleEntry
  BY DEF IInv, Rows
<1> QED
  BY <1>1, Invariance, PTL

\* No row is met twice: the bolt's add and the list's cut are one record, and a
\* merge replaces its inputs in one.
THEOREM RowsAreUnique == Spec => []NoRowTwice
<1>1. IInv => NoRowTwice
  BY DEF IInv, Rows
<1> QED
  BY <1>1, Invariance, PTL

\* bulkdelete's positional writes hit the bolts they were computed from.
THEOREM TombstonesHitTheirBolt == Spec => []SwapHitsItsBolt
<1>1. IInv => SwapHitsItsBolt
  BY DEF IInv, Plan
<1> QED
  BY <1>1, Invariance, PTL

\* The inputs of a merge are in the directory, unchanged, when it commits.
THEOREM MergesFindTheirInputs == Spec => []MergeInputsStay
<1>1. IInv => MergeInputsStay
  BY DEF IInv, Plan, SelInv, MergeInputsStay
<1> QED
  BY <1>1, Invariance, PTL

\* The generation's next value is another one: the counter has at least two.
LEMMA GenerationDiffers ==
    ASSUME gen \in 0..(GenMod - 1), BumpGeneration
    PROVE  gen' # gen
<1>1. CASE gen + 1 < GenMod
  <2>1. (gen + 1) % GenMod = gen + 1
    BY <1>1, GenAssumption
  <2> QED
    BY <2>1 DEF BumpGeneration
<1>2. CASE gen + 1 = GenMod
  <2>1. (gen + 1) % GenMod = 0
    BY <1>2, GenAssumption
  <2> QED
    BY <2>1, <1>2, GenAssumption DEF BumpGeneration
<1> QED
  BY <1>1, <1>2, GenAssumption

\* The list keeps its items and their order; an append is such a step.
PendGrows == Len(pend) <= Len(pend') /\ SubSeq(pend', 1, Len(pend)) = pend

\* A record that changes the directory or cuts the list moves the generation.
LEMMA GenerationStep ==
    TypeOK /\ [Next]_vars => gen' # gen \/ (segs' = segs /\ PendGrows)
<1> DEFINE Goal == gen' # gen \/ (segs' = segs /\ PendGrows)
<1> USE DEF PendGrows
<1> SUFFICES ASSUME TypeOK, [Next]_vars PROVE Goal
  OBVIOUS
<1> DEFINE Same == segs' = segs /\ pend' = pend => Goal
<1>0. Same
  <2> SUFFICES ASSUME segs' = segs, pend' = pend
               PROVE  Len(pend) <= Len(pend) /\ SubSeq(pend, 1, Len(pend)) = pend
    OBVIOUS
  <2> QED
    BY DEF TypeOK
<1>1. ASSUME NEW t \in Tids, NEW isnull \in NullFlags, heap_insert(t, isnull) PROVE Goal
  BY <1>1, <1>0 DEF heap_insert, metaVars
<1>2. ASSUME NEW t \in Tids, heap_commit(t) PROVE Goal
  BY <1>2, <1>0 DEF heap_commit, metaVars
<1>3. ASSUME NEW t \in Tids, heap_kill(t) PROVE Goal
  BY <1>3, <1>0 DEF heap_kill, metaVars
<1>4. ASSUME NEW t \in Tids, weave_insert(t) PROVE Goal
  <2>1. segs' = segs /\ pend' = Append(pend, EntryOf(t)) /\ EntryOf(t) \in Entry
    BY <1>4 DEF weave_insert, TypeOK, EntryOf, Entry
  <2>2. Len(pend) <= Len(pend') /\ SubSeq(pend', 1, Len(pend)) = pend
    BY <2>1 DEF TypeOK
  <2> QED
    BY <2>1, <2>2
<1>5. ASSUME NEW b \in Backends, weave_maintenance_lock(b) PROVE Goal
  BY <1>5, <1>0 DEF weave_maintenance_lock, metaVars
<1>6. ASSUME NEW b \in Backends, Abandon(b) PROVE Goal
  BY <1>6, <1>0 DEF Abandon, metaVars
<1>7. ASSUME Crash PROVE Goal
  BY <1>7, <1>0 DEF Crash, metaVars
<1>8. ASSUME NEW b \in Backends, NEW S \in SUBSET DOMAIN segs, weave_merge_selected(b, S) PROVE Goal
  BY <1>8, <1>0 DEF weave_merge_selected, metaVars
<1>9. ASSUME NEW b \in Backends, weave_merge_commit(b) PROVE Goal
  BY <1>9, <1>0, GenerationDiffers DEF weave_merge_commit, TypeOK
<1>10. ASSUME NEW b \in Backends, weave_merge_stop(b) PROVE Goal
  BY <1>10, <1>0 DEF weave_merge_stop, metaVars
<1>11. ASSUME NEW b \in Backends, weave_flush_pending(b) PROVE Goal
  BY <1>11, <1>0 DEF weave_flush_pending, metaVars
<1>12. ASSUME NEW b \in Backends, weave_flush_add_and_cut(b) PROVE Goal
  BY <1>12, GenerationDiffers DEF weave_flush_add_and_cut, TypeOK
<1>13. ASSUME NEW b \in Backends, weave_add_segment_with_room(b) PROVE Goal
  BY <1>13, <1>0 DEF weave_add_segment_with_room, metaVars
<1>14. ASSUME NEW b \in Backends, weave_directory_full(b) PROVE Goal
  BY <1>14, <1>0 DEF weave_directory_full, metaVars
<1>15. ASSUME NEW b \in Backends, NEW t \in Tids, weave_insert_oversized_as_segment(b, t) PROVE Goal
  BY <1>15, <1>0 DEF weave_insert_oversized_as_segment, metaVars
<1>16. ASSUME NEW b \in Backends, weave_meta_add_segment(b) PROVE Goal
  BY <1>16, GenerationDiffers DEF weave_meta_add_segment, TypeOK
<1>17. ASSUME NEW b \in Backends, weave_small_runs_merge(b) PROVE Goal
  BY <1>17, <1>0 DEF weave_small_runs_merge, metaVars
<1>18. ASSUME NEW b \in Backends, weave_small_runs_skip(b) PROVE Goal
  BY <1>18, <1>0 DEF weave_small_runs_skip, metaVars
<1>19. ASSUME NEW b \in Backends, weave_merge(b) PROVE Goal
  BY <1>19, <1>0 DEF weave_merge, metaVars
<1>20. ASSUME NEW b \in Backends, vacuum_heap_scan(b) PROVE Goal
  BY <1>20, <1>0 DEF vacuum_heap_scan, metaVars
<1>21. ASSUME NEW b \in Backends, weave_bulkdelete(b) PROVE Goal
  BY <1>21, <1>0 DEF weave_bulkdelete, metaVars
<1>22. ASSUME NEW b \in Backends, weave_bulkdelete_swap(b) PROVE Goal
  BY <1>22, <1>0, GenerationDiffers DEF weave_bulkdelete_swap, TypeOK
<1>23. ASSUME NEW b \in Backends, weave_bulkdelete_end(b) PROVE Goal
  BY <1>23, <1>0 DEF weave_bulkdelete_end, metaVars
<1>24. ASSUME NEW b \in Backends, vacuum_heap(b) PROVE Goal
  BY <1>24, <1>0 DEF vacuum_heap, metaVars
<1>25. CASE UNCHANGED vars
  BY <1>25, <1>0 DEF vars
<1> QED
  BY <1>1, <1>2, <1>3, <1>4, <1>5, <1>6, <1>7, <1>8, <1>9, <1>10, <1>11, <1>12, <1>13,
     <1>14, <1>15, <1>16, <1>17, <1>18, <1>19, <1>20, <1>21, <1>22, <1>23, <1>24, <1>25
  DEF Next, HeapStep, SessionStart, SessionStep, CountedStep, UncountedStep

\* A step that changes the bolt directory or takes items off the pending list moves
\* the generation, so a scan that finds it unchanged has seen one directory.
THEOREM GenerationTells == Spec => GenerationMoves
<1> DEFINE Moves == gen' # gen \/ (segs' = segs /\ PendGrows)
<1>1. TypeOK /\ [Next]_vars => [Moves]_<<segs, pend, gen>>
  BY GenerationStep
<1> QED
  BY <1>1, TypeCorrect, PTL DEF Spec, GenerationMoves, PendGrows

-----------------------------------------------------------------------------
(* The index implements a set of entries *)

\* The set holds what a scan would meet.
LEMMA InContents ==
    /\ \A e : e \in Contents <=> Indexed(e)
    /\ \A e : e \in Contents' <=> \/ \E k \in DOMAIN segs' : e \in LiveDocs(segs'[k])
                                  \/ \E k \in DOMAIN pend' : pend'[k] = e
<1>1. \A e : e \in Contents <=> Indexed(e)
  BY DEF Contents, Indexed
<1>2. \A e : e \in Contents' <=> \/ \E k \in DOMAIN segs' : e \in LiveDocs(segs'[k])
                                 \/ \E k \in DOMAIN pend' : pend'[k] = e
  BY DEF Contents
<1> QED
  BY <1>1, <1>2

\* A step that moves documents about, and brings and takes none, leaves the set.
LEMMA ContentsSame ==
    ASSUME \A e : Indexed(e) <=> \/ \E k \in DOMAIN segs' : e \in LiveDocs(segs'[k])
                                 \/ \E k \in DOMAIN pend' : pend'[k] = e
    PROVE  Contents' = Contents
<1>1. \A e : e \in Contents' <=> e \in Contents
  BY InContents
<1> QED
  BY <1>1

\* A step that writes neither the directory nor the list leaves the set.
LEMMA ContentsUntouched == UNCHANGED <<segs, pend>> => Contents' = Contents
BY DEF Contents

\* What one step of the index is of the set of entries.
AbstractStep == Promise!Next \/ UNCHANGED <<st, inc, nul, Contents>>

\* Rows that die, or whose inserts fail, leave their entries where they are.
LEMMA KillStep ==
    ASSUME NEW D \in SUBSET Tids, \A t \in D : st[t] \in {"busy", "indexed", "live"},
           st' = [t \in Tids |-> IF t \in D THEN "dead" ELSE st[t]],
           UNCHANGED <<inc, nul, segs, pend>>
    PROVE  AbstractStep
<1>1. UNCHANGED Contents
  BY ContentsUntouched
<1>2. Promise!Kill(D)
  BY <1>1 DEF Promise!Kill, Promise!Rows
<1> QED
  BY <1>2 DEF AbstractStep, Promise!Next

\* A statement that ends early kills the row of an oversized INSERT, if it has one.
LEMMA FailStep ==
    ASSUME IInv, NEW b \in Backends, UNCHANGED <<inc, nul, segs, pend>>,
           st' = [t \in Tids |-> IF t = row[b] THEN "dead" ELSE st[t]]
    PROVE  AbstractStep
<1> USE SessionAssumption
<1>0. /\ st \in [Tids -> {"unused", "busy", "indexed", "live", "dead"}]
      /\ row \in [Backends -> Tids \cup {NoTid}] /\ OwnInv
  BY DEF IInv, Control, Plan, TypeOK
<1>1. CASE row[b] = NoTid
  <2>1. st' = st
    BY <1>0, <1>1
  <2> QED
    BY <2>1, ContentsUntouched DEF AbstractStep
<1>2. CASE row[b] # NoTid
  <2>1. row[b] \in Tids /\ st[row[b]] \in {"busy", "indexed"}
    BY <1>0, <1>2 DEF OwnInv
  <2>2. \A t \in {row[b]} : st[t] \in {"busy", "indexed", "live"}
    BY <2>1
  <2>3. st' = [t \in Tids |-> IF t \in {row[b]} THEN "dead" ELSE st[t]]
    OBVIOUS
  <2> QED
    BY <2>1, <2>2, <2>3, KillStep
<1> QED
  BY <1>1, <1>2

\* A row's entry is in the index from the record that writes it.
LEMMA AddStep ==
    ASSUME NEW t \in Tids, st[t] = "busy", st \in [Tids -> {"unused", "busy", "indexed", "live", "dead"}],
           st' = [st EXCEPT ![t] = "indexed"], UNCHANGED <<inc, nul>>,
           \A e : e \in Contents' <=> e \in Contents \/ e = EntryOf(t)
    PROVE  AbstractStep
<1>1. st' = [u \in Tids |-> IF u \in {t} THEN "indexed" ELSE st[u]]
  OBVIOUS
<1>2. Contents' = Contents \cup {EntryOf(t)}
  OBVIOUS
<1>3. Promise!AddEntry(t)
  BY <1>1, <1>2 DEF Promise!AddEntry, Promise!Rows, Promise!RowAt, EntryOf
<1> QED
  BY <1>3 DEF AbstractStep, Promise!Next

\* Every step of the index is a step of the set of entries, or does not show.
LEMMA ContentsStep == IInv /\ [Next]_vars => AbstractStep
<1> USE SessionAssumption
<1> DEFINE Goal == AbstractStep
<1> SUFFICES ASSUME IInv, [Next]_vars PROVE Goal
  OBVIOUS
<1>0. /\ st \in [Tids -> {"unused", "busy", "indexed", "live", "dead"}]
      /\ inc \in [Tids -> Nat] /\ nul \in [Tids -> BOOLEAN]
      /\ segs \in Seq(Bolt) /\ pend \in Seq(Entry) /\ nbolt \in Nat
      /\ built \in [Backends -> SUBSET Entry] /\ cut \in [Backends -> Nat]
      /\ row \in [Backends -> Tids \cup {NoTid}]
      /\ vdead \in [Backends -> SUBSET Tids]
      /\ JobInv /\ OwnInv /\ DeadInv
  BY DEF IInv, Control, Plan, Rows, TypeOK
<1> USE <1>0
<1> DEFINE Still == UNCHANGED <<st, inc, nul, segs, pend>>
<1>s. Still => Goal
  BY ContentsUntouched DEF AbstractStep
<1> HIDE DEF Goal
<1>1. ASSUME NEW t \in Tids, NEW isnull \in NullFlags, heap_insert(t, isnull) PROVE Goal
  <2>1. UNCHANGED Contents
    BY <1>1, ContentsUntouched DEF heap_insert, metaVars
  <2>2. st' = [u \in Tids |-> IF u \in {t} THEN "busy" ELSE st[u]]
    BY <1>1 DEF heap_insert
  <2>3. Promise!NewRow(t, isnull)
    BY <1>1, <2>1, <2>2 DEF heap_insert, Promise!NewRow, Promise!Rows
  <2> QED
    BY <2>3 DEF AbstractStep, Promise!Next, Goal
<1>2. ASSUME NEW t \in Tids, heap_commit(t) PROVE Goal
  <2>1. UNCHANGED Contents
    BY <1>2, ContentsUntouched DEF heap_commit, metaVars
  <2>2. st' = [u \in Tids |-> IF u \in {t} THEN "live" ELSE st[u]]
    BY <1>2 DEF heap_commit
  <2>3. Promise!Commit(t)
    BY <1>2, <2>1, <2>2 DEF heap_commit, Promise!Commit, Promise!Rows
  <2> QED
    BY <2>3 DEF AbstractStep, Promise!Next, Goal
<1>3. ASSUME NEW t \in Tids, heap_kill(t) PROVE Goal
  <2>1. /\ \A u \in {t} : st[u] \in {"busy", "indexed", "live"}
        /\ UNCHANGED <<inc, nul, segs, pend>>
    BY <1>3 DEF heap_kill, metaVars
  <2>2. st' = [u \in Tids |-> IF u \in {t} THEN "dead" ELSE st[u]]
    BY <1>3 DEF heap_kill
  <2>3. {t} \in SUBSET Tids
    OBVIOUS
  <2> QED
    BY <2>1, <2>2, <2>3, KillStep DEF Goal
<1>4. ASSUME NEW t \in Tids, weave_insert(t) PROVE Goal
  <2> DEFINE a == EntryOf(t)
  <2>1. /\ pend' = Append(pend, a) /\ UNCHANGED <<segs, inc, nul>>
        /\ st[t] = "busy" /\ st' = [st EXCEPT ![t] = "indexed"]
    BY <1>4 DEF weave_insert
  <2> HIDE DEF a
  <2>2. Len(pend) + 1 \in DOMAIN pend' /\ pend'[Len(pend) + 1] = a
    BY <2>1
  <2>3. /\ \A i \in DOMAIN pend : i \in DOMAIN pend' /\ pend'[i] = pend[i]
        /\ \A k \in DOMAIN pend' : (k \in DOMAIN pend /\ pend'[k] = pend[k]) \/ pend'[k] = a
    BY <2>1
  <2>4. \A e : e \in Contents' <=> e \in Contents \/ e = a
    BY <2>1, <2>2, <2>3, InContents DEF Indexed
  <2> QED
    BY <2>1, <2>4, AddStep DEF a, Goal
<1>5. ASSUME NEW b \in Backends, Abandon(b) PROVE Goal
  BY <1>5, FailStep DEF Abandon, metaVars, Goal
<1>6. ASSUME Crash PROVE Goal
  <2> DEFINE D == {t \in Tids : st[t] \in {"busy", "indexed"}}
  <2>1. /\ \A u \in D : st[u] \in {"busy", "indexed", "live"}
        /\ UNCHANGED <<inc, nul, segs, pend>>
    BY <1>6 DEF Crash, metaVars
  <2>2. st' = [u \in Tids |-> IF u \in D THEN "dead" ELSE st[u]]
    BY <1>6 DEF Crash
  <2> QED
    BY <2>1, <2>2, KillStep DEF Goal
<1>7. ASSUME NEW b \in Backends, NEW S \in SUBSET DOMAIN segs, weave_merge_selected(b, S) PROVE Goal
  BY <1>7, <1>s DEF weave_merge_selected, heapVars, metaVars
<1>8. ASSUME NEW b \in Backends, weave_merge_commit(b) PROVE Goal
  <2>1. UNCHANGED <<st, inc, nul, pend>>
    BY <1>8 DEF weave_merge_commit, heapVars
  <2>2. \A e : Indexed(e) <=> \/ \E k \in DOMAIN segs' : e \in LiveDocs(segs'[k])
                              \/ \E k \in DOMAIN pend' : pend'[k] = e
    BY <1>8, <2>1, MergeLive DEF Indexed
  <2> QED
    BY <2>1, <2>2, ContentsSame DEF AbstractStep, Goal
<1>9. ASSUME NEW b \in Backends, weave_flush_add_and_cut(b) PROVE Goal
  <2> DEFINE g == NewBolt(built[b])
             n == Len(segs) + 1
  <2>1. /\ segs' = Append(segs, g)
        /\ pend' = SubSeq(pend, cut[b] + 1, Len(pend))
        /\ UNCHANGED <<st, inc, nul>>
    BY <1>9 DEF weave_flush_add_and_cut, KeptPending, heapVars
  <2>2. cut[b] <= Len(pend) /\ built[b] = {pend[i] : i \in 1..cut[b]}
    BY <1>9 DEF weave_flush_add_and_cut, IInv, Plan, CutInv, Walked
  <2>3. LiveDocs(g) = built[b]
    BY NewBoltLive
  <2> HIDE DEF g
  <2>4. /\ \A i \in DOMAIN segs : i \in DOMAIN segs' /\ segs'[i] = segs[i]
        /\ n \in DOMAIN segs' /\ segs'[n] = g
        /\ \A k \in DOMAIN segs' : (k \in DOMAIN segs /\ segs'[k] = segs[k]) \/ segs'[k] = g
    <3>1. \A i \in DOMAIN segs : i \in DOMAIN segs' /\ segs'[i] = segs[i]
      BY <2>1
    <3>2. n \in DOMAIN segs' /\ segs'[n] = g
      BY <2>1
    <3>3. \A k \in DOMAIN segs' : (k \in DOMAIN segs /\ segs'[k] = segs[k]) \/ segs'[k] = g
      BY <2>1
    <3> QED
      BY <3>1, <3>2, <3>3
  <2>5. ASSUME NEW i \in DOMAIN pend
        PROVE  \/ \E k \in DOMAIN segs' : pend[i] \in LiveDocs(segs'[k])
               \/ \E k \in DOMAIN pend' : pend'[k] = pend[i]
    <3>1. CASE i <= cut[b]
      <4>1. i \in 1..cut[b]
        BY <3>1
      <4>2. pend[i] \in built[b]
        BY <2>2, <4>1
      <4> QED
        BY <2>3, <2>4, <4>2
    <3>2. CASE i > cut[b]
      <4>1. i - cut[b] \in DOMAIN pend' /\ pend'[i - cut[b]] = pend[i]
        BY <2>1, <2>2, <3>2
      <4> QED
        BY <4>1
    <3> QED
      BY <3>1, <3>2
  <2>6. \A k \in DOMAIN pend' : \E i \in DOMAIN pend : pend'[k] = pend[i]
    <3>1. \A k \in DOMAIN pend' : k + cut[b] \in DOMAIN pend /\ pend'[k] = pend[k + cut[b]]
      BY <2>1, <2>2
    <3> QED
      BY <3>1
  <2>7. \A e \in built[b] : \E i \in DOMAIN pend : pend[i] = e
    <3>1. \A i \in 1..cut[b] : i \in DOMAIN pend
      BY <2>2
    <3> QED
      BY <2>2, <3>1
  <2>8. \A e : Indexed(e) <=> \/ \E k \in DOMAIN segs' : e \in LiveDocs(segs'[k])
                              \/ \E k \in DOMAIN pend' : pend'[k] = e
    <3>1. ASSUME NEW e, Indexed(e)
          PROVE  \/ \E k \in DOMAIN segs' : e \in LiveDocs(segs'[k])
                 \/ \E k \in DOMAIN pend' : pend'[k] = e
      BY <3>1, <2>4, <2>5 DEF Indexed
    <3>2. ASSUME NEW e, NEW k \in DOMAIN segs', e \in LiveDocs(segs'[k]) PROVE Indexed(e)
      <4>1. CASE k \in DOMAIN segs /\ segs'[k] = segs[k]
        BY <3>2, <4>1 DEF Indexed
      <4>2. CASE segs'[k] = g
        BY <3>2, <4>2, <2>3, <2>7 DEF Indexed
      <4> QED
        BY <4>1, <4>2, <2>4
    <3>3. ASSUME NEW k \in DOMAIN pend' PROVE Indexed(pend'[k])
      BY <3>3, <2>6 DEF Indexed
    <3> QED
      BY <3>1, <3>2, <3>3
  <2> QED
    BY <2>1, <2>8, ContentsSame DEF AbstractStep, Goal
<1>10. ASSUME NEW b \in Backends, weave_directory_full(b) PROVE Goal
  BY <1>10, FailStep DEF weave_directory_full, metaVars, Goal
<1>11. ASSUME NEW b \in Backends, NEW t \in Tids, weave_insert_oversized_as_segment(b, t) PROVE Goal
  BY <1>11, <1>s DEF weave_insert_oversized_as_segment, heapVars, metaVars
<1>12. ASSUME NEW b \in Backends, weave_meta_add_segment(b) PROVE Goal
  <2> DEFINE g == NewBolt(built[b])
             n == Len(segs) + 1
             a == EntryOf(row[b])
  <2>1. /\ pc[b] = "add_segment" /\ segs' = Append(segs, g)
        /\ st' = [st EXCEPT ![row[b]] = "indexed"]
        /\ UNCHANGED <<inc, nul, pend>>
    BY <1>12 DEF weave_meta_add_segment
  <2>2. row[b] \in Tids /\ st[row[b]] = "busy" /\ built[b] = {a}
    BY <2>1 DEF JobInv, OwnInv, Unpublished
  <2>3. LiveDocs(g) = {a}
    BY <2>2, NewBoltLive
  <2> HIDE DEF g, a
  <2>4. /\ \A i \in DOMAIN segs : i \in DOMAIN segs' /\ segs'[i] = segs[i]
        /\ n \in DOMAIN segs' /\ segs'[n] = g
        /\ \A k \in DOMAIN segs' : (k \in DOMAIN segs /\ segs'[k] = segs[k]) \/ segs'[k] = g
    <3>1. \A i \in DOMAIN segs : i \in DOMAIN segs' /\ segs'[i] = segs[i]
      BY <2>1
    <3>2. n \in DOMAIN segs' /\ segs'[n] = g
      BY <2>1
    <3>3. \A k \in DOMAIN segs' : (k \in DOMAIN segs /\ segs'[k] = segs[k]) \/ segs'[k] = g
      BY <2>1
    <3> QED
      BY <3>1, <3>2, <3>3
  <2>5. \A e : e \in Contents' <=> e \in Contents \/ e = a
    BY <2>1, <2>3, <2>4, InContents DEF Indexed
  <2> QED
    BY <2>1, <2>2, <2>5, AddStep DEF a, Goal
<1>13. ASSUME NEW b \in Backends, weave_bulkdelete_swap(b) PROVE Goal
  <2> DEFINE D == {e \in Contents : e \notin Contents'}
  <2>1. /\ UNCHANGED <<st, inc, nul, pend>> /\ job[b] = "bulkdelete"
    BY <1>13 DEF weave_bulkdelete_swap, heapVars, JobInv, Flushed
  <2>2. /\ \A k \in DOMAIN segs' : \A e \in LiveDocs(segs'[k]) :
             \E i \in DOMAIN segs : e \in LiveDocs(segs[i])
        /\ DOMAIN segs' = DOMAIN segs
        /\ \A i \in DOMAIN segs : \A e \in LiveDocs(segs[i]) :
             e.tid \notin vdead[b] => e \in LiveDocs(segs'[i])
    BY <1>13, SwapDocs
  <2>3. \A e : e \in Contents' => e \in Contents
    BY <2>1, <2>2, InContents DEF Indexed
  <2>4. \A e \in D : e.tid \in vdead[b]
    BY <2>1, <2>2, InContents DEF Indexed
  <2>5. \A e \in D : st[e.tid] = "dead"
    BY <2>1, <2>4 DEF DeadInv
  <2>6. Contents' = Contents \ D
    BY <2>3
  <2>7. D \in SUBSET Contents /\ Promise!Remove(D)
    BY <2>1, <2>5, <2>6 DEF Promise!Remove
  <2> HIDE DEF D
  <2> QED
    BY <2>7 DEF AbstractStep, Promise!Next, Goal
<1>14. ASSUME NEW b \in Backends, vacuum_heap(b) PROVE Goal
  <2>1. /\ pc[b] = "heap_vacuum" /\ job[b] = "bulkdelete"
        /\ st' = [t \in Tids |-> IF t \in vdead[b] THEN "unused" ELSE st[t]]
        /\ UNCHANGED <<inc, nul, segs, pend>>
    BY <1>14 DEF vacuum_heap, metaVars, JobInv, Flushed
  <2>2. \A i \in DOMAIN segs : \A e \in LiveDocs(segs[i]) : e.tid \notin vdead[b]
    BY <2>1 DEF IInv, Plan, SegsClean
  <2>3. \A i \in DOMAIN pend : pend[i].tid \notin vdead[b]
    BY <2>1 DEF IInv, Plan, PendClean, Flushed
  <2>4. \A e \in Contents : e.tid \notin vdead[b]
    BY <2>2, <2>3, InContents DEF Indexed
  <2>5. UNCHANGED Contents /\ \A t \in vdead[b] : st[t] = "dead"
    BY <2>1, ContentsUntouched DEF DeadInv
  <2>6. vdead[b] \in SUBSET Tids /\ Promise!Free(vdead[b])
    BY <2>1, <2>4, <2>5 DEF Promise!Free, Promise!Rows
  <2> QED
    BY <2>6 DEF AbstractStep, Promise!Next, Goal
<1>15. CASE UNCHANGED vars
  BY <1>15, <1>s DEF vars
<1>16. ASSUME NEW b \in Backends, weave_maintenance_lock(b) PROVE Goal
  BY <1>16, <1>s DEF weave_maintenance_lock, heapVars, metaVars
<1>17. ASSUME NEW b \in Backends, weave_merge_stop(b) PROVE Goal
  BY <1>17, <1>s DEF weave_merge_stop, heapVars, metaVars
<1>18. ASSUME NEW b \in Backends, weave_flush_pending(b) PROVE Goal
  BY <1>18, <1>s DEF weave_flush_pending, heapVars, metaVars
<1>19. ASSUME NEW b \in Backends, weave_add_segment_with_room(b) PROVE Goal
  BY <1>19, <1>s DEF weave_add_segment_with_room, heapVars, metaVars
<1>20. ASSUME NEW b \in Backends, weave_small_runs_merge(b) PROVE Goal
  BY <1>20, <1>s DEF weave_small_runs_merge, heapVars, metaVars
<1>21. ASSUME NEW b \in Backends, weave_small_runs_skip(b) PROVE Goal
  BY <1>21, <1>s DEF weave_small_runs_skip, Rest, heapVars, metaVars
<1>22. ASSUME NEW b \in Backends, weave_merge(b) PROVE Goal
  BY <1>22, <1>s DEF weave_merge, heapVars, metaVars
<1>23. ASSUME NEW b \in Backends, vacuum_heap_scan(b) PROVE Goal
  BY <1>23, <1>s DEF vacuum_heap_scan, heapVars, metaVars
<1>24. ASSUME NEW b \in Backends, weave_bulkdelete(b) PROVE Goal
  BY <1>24, <1>s DEF weave_bulkdelete, heapVars, metaVars
<1>25. ASSUME NEW b \in Backends, weave_bulkdelete_end(b) PROVE Goal
  BY <1>25, <1>s DEF weave_bulkdelete_end, heapVars, metaVars
<1> QED
  BY <1>1, <1>2, <1>3, <1>4, <1>5, <1>6, <1>7, <1>8, <1>9, <1>10, <1>11, <1>12, <1>13,
     <1>14, <1>15, <1>16, <1>17, <1>18, <1>19, <1>20, <1>21, <1>22, <1>23, <1>24, <1>25
  DEF Next, HeapStep, SessionStart, SessionStep, CountedStep, UncountedStep

\* The index is a set of entries, whatever flushes, merges, errors and crashes do to
\* the directory and the list: an entry comes with its row's insert and goes by VACUUM
\* from a dead row, and a line pointer is freed when no entry is left for it.
THEOREM IndexImplementsContents == Spec => ImplementsContents
<1>1. Init => Promise!Init
  BY DEF Init, Promise!Init, Contents
<1>2. IInv /\ [Next]_vars => [Promise!Next]_<<st, inc, nul, Contents>>
  BY ContentsStep DEF AbstractStep
<1>3. [Promise!Next]_<<st, inc, nul, Contents>> <=> [Promise!Next]_Promise!vars
  BY DEF Promise!vars
<1> QED
  BY <1>1, <1>2, <1>3, Invariance, PTL DEF Spec, ImplementsContents, Promise!Spec

-----------------------------------------------------------------------------
(* Documents are finitely many, so that they can be counted *)

\* Every bolt, in the directory or being written, has finitely many documents.
FiniteInv ==
    /\ \A i \in DOMAIN segs : IsFiniteSet(segs[i].docs)
    /\ \A b \in Backends : IsFiniteSet(built[b])

\* The documents of the pending list are finitely many.
LEMMA PendFinite ==
    ASSUME NEW q \in Seq(Entry)
    PROVE  IsFiniteSet({q[i] : i \in DOMAIN q})
<1> DEFINE T == {q[i] : i \in DOMAIN q}
<1>1. IsFiniteSet(DOMAIN q)
  <2>1. Len(q) \in Nat /\ DOMAIN q = 1..Len(q)
    OBVIOUS
  <2> QED
    BY <2>1, FS_Interval
<1>2. q \in Surjection(DOMAIN q, T)
  <2>1. q \in [DOMAIN q -> T]
    OBVIOUS
  <2> QED
    BY <2>1 DEF Surjection
<1> QED
  BY <1>1, <1>2, FS_Surjection

\* So are those of a merge's output.
LEMMA MergedFinite ==
    ASSUME segs \in Seq(Bolt), FiniteInv, NEW S \in SUBSET DOMAIN segs
    PROVE  IsFiniteSet(UNION {LiveDocs(segs[i]) : i \in S})
<1> DEFINE T == {LiveDocs(segs[i]) : i \in S}
           f == [i \in S |-> LiveDocs(segs[i])]
<1>1. IsFiniteSet(S)
  <2>1. Len(segs) \in Nat /\ DOMAIN segs = 1..Len(segs)
    OBVIOUS
  <2>2. IsFiniteSet(DOMAIN segs)
    BY <2>1, FS_Interval
  <2> QED
    BY <2>2, FS_Subset
<1>2. f \in Surjection(S, T)
  BY DEF Surjection
<1>3. IsFiniteSet(T)
  <2> HIDE DEF f, T
  <2> QED
    BY <1>1, <1>2, FS_Surjection
<1>4. ASSUME NEW D \in T PROVE IsFiniteSet(D)
  <2>1. PICK i \in S : D = LiveDocs(segs[i])
    OBVIOUS
  <2>2. IsFiniteSet(segs[i].docs) /\ D \in SUBSET segs[i].docs
    BY <2>1 DEF FiniteInv, LiveDocs
  <2> QED
    BY <2>2, FS_Subset
<1> QED
  BY <1>3, <1>4, FS_UNION

\* A step that leaves every bolt's documents, and gives a session's bolt none, keeps them
\* finite.
LEMMA FiniteSame ==
    ASSUME FiniteInv,
           segs' = segs,
           \A c \in Backends : built'[c] = built[c] \/ built'[c] = {}
    PROVE  FiniteInv'
BY FS_EmptySet DEF FiniteInv

\* A new bolt at the end of the directory.
LEMMA FiniteAppend ==
    ASSUME segs \in Seq(Bolt), FiniteInv, NEW g \in Bolt, IsFiniteSet(g.docs),
           segs' = Append(segs, g)
    PROVE  \A i \in DOMAIN segs' : IsFiniteSet(segs'[i].docs)
<1>1. \A i \in DOMAIN segs' : \/ i \in DOMAIN segs /\ segs'[i] = segs[i]
                              \/ segs'[i] = g
  OBVIOUS
<1> QED
  BY <1>1 DEF FiniteInv

\* Every step keeps the documents finite.
LEMMA FiniteInductive == IInv /\ FiniteInv /\ [Next]_vars => FiniteInv'
<1> DEFINE Goal == FiniteInv'
<1> SUFFICES ASSUME IInv, FiniteInv, [Next]_vars PROVE Goal
  OBVIOUS
<1>0. segs \in Seq(Bolt) /\ pend \in Seq(Entry) /\ built \in [Backends -> SUBSET Entry]
      /\ nbolt \in Nat
  BY DEF IInv, Control, TypeOK
<1>1. ASSUME NEW t \in Tids, NEW isnull \in NullFlags, heap_insert(t, isnull) PROVE Goal
  <2>1. segs' = segs /\ \A c \in Backends : built'[c] = built[c] \/ built'[c] = {}
    BY <1>0, <1>1 DEF heap_insert, Rest, metaVars, flushVars
  <2> QED
    BY <2>1, FiniteSame
<1>2. ASSUME NEW t \in Tids, heap_commit(t) PROVE Goal
  <2>1. segs' = segs /\ \A c \in Backends : built'[c] = built[c] \/ built'[c] = {}
    BY <1>0, <1>2 DEF heap_commit, Rest, metaVars, flushVars
  <2> QED
    BY <2>1, FiniteSame
<1>3. ASSUME NEW t \in Tids, heap_kill(t) PROVE Goal
  <2>1. segs' = segs /\ \A c \in Backends : built'[c] = built[c] \/ built'[c] = {}
    BY <1>0, <1>3 DEF heap_kill, Rest, metaVars, flushVars
  <2> QED
    BY <2>1, FiniteSame
<1>4. ASSUME NEW t \in Tids, weave_insert(t) PROVE Goal
  <2>1. segs' = segs /\ \A c \in Backends : built'[c] = built[c] \/ built'[c] = {}
    BY <1>0, <1>4 DEF weave_insert, Rest, metaVars, flushVars
  <2> QED
    BY <2>1, FiniteSame
<1>5. ASSUME NEW b \in Backends, weave_maintenance_lock(b) PROVE Goal
  <2>1. segs' = segs /\ \A c \in Backends : built'[c] = built[c] \/ built'[c] = {}
    BY <1>0, <1>5 DEF weave_maintenance_lock, Rest, metaVars, flushVars
  <2> QED
    BY <2>1, FiniteSame
<1>6. ASSUME NEW b \in Backends, Abandon(b) PROVE Goal
  <2>1. segs' = segs /\ \A c \in Backends : built'[c] = built[c] \/ built'[c] = {}
    BY <1>0, <1>6 DEF Abandon, Rest, metaVars, flushVars
  <2> QED
    BY <2>1, FiniteSame
<1>7. ASSUME Crash PROVE Goal
  <2>1. segs' = segs /\ \A c \in Backends : built'[c] = built[c] \/ built'[c] = {}
    BY <1>0, <1>7 DEF Crash, Rest, metaVars, flushVars
  <2> QED
    BY <2>1, FiniteSame
<1>8. ASSUME NEW b \in Backends, NEW S \in SUBSET DOMAIN segs, weave_merge_selected(b, S) PROVE Goal
  <2>1. segs' = segs /\ \A c \in Backends : built'[c] = built[c] \/ built'[c] = {}
    BY <1>0, <1>8 DEF weave_merge_selected, Rest, metaVars, flushVars
  <2> QED
    BY <2>1, FiniteSame
<1>9. ASSUME NEW b \in Backends, weave_merge_commit(b) PROVE Goal
  <2> DEFINE D == MergedDocs(sel[b])
  <2>1. /\ DOMAIN sel[b] \in SUBSET DOMAIN segs
        /\ segs' = ReplaceBolts(DOMAIN sel[b], NewBolt(D))
        /\ NewBolt(D) \in Bolt
    BY <1>9, MergeStep
  <2>2. IsFiniteSet(NewBolt(D).docs)
    <3>1. D = UNION {LiveDocs(segs[i]) : i \in DOMAIN sel[b]}
      BY <1>9, MergeStep
    <3>2. NewBolt(D).docs = D
      BY DEF NewBolt
    <3> HIDE DEF D
    <3> QED
      BY <1>0, <2>1, <3>1, <3>2, MergedFinite
  <2> HIDE DEF D
  <2>3. Replaced(DOMAIN sel[b], NewBolt(D), segs')
    BY <1>0, <2>1, ReplaceBoltsFacts
  <2>4. \A k \in DOMAIN segs' : IsFiniteSet(segs'[k].docs)
    BY <2>2, <2>3 DEF Replaced, FiniteInv
  <2>5. built' = built
    BY <1>9 DEF weave_merge_commit, flushVars
  <2> QED
    BY <2>4, <2>5 DEF FiniteInv
<1>10. ASSUME NEW b \in Backends, weave_merge_stop(b) PROVE Goal
  <2>1. segs' = segs /\ \A c \in Backends : built'[c] = built[c] \/ built'[c] = {}
    BY <1>0, <1>10 DEF weave_merge_stop, Rest, metaVars, flushVars
  <2> QED
    BY <2>1, FiniteSame
<1>11. ASSUME NEW b \in Backends, weave_flush_pending(b) PROVE Goal
  <2>1. segs' = segs
    BY <1>11 DEF weave_flush_pending, metaVars
  <2>2. built' = built \/ built' = [built EXCEPT ![b] = {pend[i] : i \in DOMAIN pend}]
    BY <1>11 DEF weave_flush_pending, flushVars
  <2>3. IsFiniteSet({pend[i] : i \in DOMAIN pend})
    BY <1>0, PendFinite
  <2>4. \A c \in Backends : IsFiniteSet(built'[c])
    BY <1>0, <2>2, <2>3 DEF FiniteInv
  <2> QED
    BY <2>1, <2>4 DEF FiniteInv
<1>12. ASSUME NEW b \in Backends, weave_flush_add_and_cut(b) PROVE Goal
  <2> DEFINE g == NewBolt(built[b])
  <2>1. segs' = Append(segs, g) /\ \A c \in Backends : built'[c] = built[c] \/ built'[c] = {}
    BY <1>0, <1>12 DEF weave_flush_add_and_cut
  <2>2. g \in Bolt /\ g.docs = built[b] /\ IsFiniteSet(g.docs)
    BY <1>0 DEF NewBolt, Bolt, FiniteInv
  <2>3. \A i \in DOMAIN segs' : IsFiniteSet(segs'[i].docs)
    BY <1>0, <2>1, <2>2, FiniteAppend
  <2> QED
    BY <2>1, <2>3, FS_EmptySet DEF FiniteInv
<1>13. ASSUME NEW b \in Backends, weave_add_segment_with_room(b) PROVE Goal
  <2>1. segs' = segs /\ \A c \in Backends : built'[c] = built[c] \/ built'[c] = {}
    BY <1>0, <1>13 DEF weave_add_segment_with_room, Rest, metaVars, flushVars
  <2> QED
    BY <2>1, FiniteSame
<1>14. ASSUME NEW b \in Backends, weave_directory_full(b) PROVE Goal
  <2>1. segs' = segs /\ \A c \in Backends : built'[c] = built[c] \/ built'[c] = {}
    BY <1>0, <1>14 DEF weave_directory_full, Rest, metaVars, flushVars
  <2> QED
    BY <2>1, FiniteSame
<1>15. ASSUME NEW b \in Backends, NEW t \in Tids, weave_insert_oversized_as_segment(b, t) PROVE Goal
  <2>1. segs' = segs /\ \A c \in Backends : built'[c] = built[c] \/ built'[c] = {EntryOf(t)}
    BY <1>0, <1>15 DEF weave_insert_oversized_as_segment, metaVars
  <2>2. IsFiniteSet({EntryOf(t)})
    BY FS_Singleton
  <2>3. \A c \in Backends : IsFiniteSet(built'[c])
    BY <2>1, <2>2 DEF FiniteInv
  <2> QED
    BY <2>1, <2>3 DEF FiniteInv
<1>16. ASSUME NEW b \in Backends, weave_meta_add_segment(b) PROVE Goal
  <2> DEFINE g == NewBolt(built[b])
  <2>1. segs' = Append(segs, g) /\ \A c \in Backends : built'[c] = built[c] \/ built'[c] = {}
    BY <1>0, <1>16 DEF weave_meta_add_segment
  <2>2. g \in Bolt /\ g.docs = built[b] /\ IsFiniteSet(g.docs)
    BY <1>0 DEF NewBolt, Bolt, FiniteInv
  <2>3. \A i \in DOMAIN segs' : IsFiniteSet(segs'[i].docs)
    BY <1>0, <2>1, <2>2, FiniteAppend
  <2> QED
    BY <2>1, <2>3, FS_EmptySet DEF FiniteInv
<1>17. ASSUME NEW b \in Backends, weave_small_runs_merge(b) PROVE Goal
  <2>1. segs' = segs /\ \A c \in Backends : built'[c] = built[c] \/ built'[c] = {}
    BY <1>0, <1>17 DEF weave_small_runs_merge, Rest, metaVars, flushVars
  <2> QED
    BY <2>1, FiniteSame
<1>18. ASSUME NEW b \in Backends, weave_small_runs_skip(b) PROVE Goal
  <2>1. segs' = segs /\ \A c \in Backends : built'[c] = built[c] \/ built'[c] = {}
    BY <1>0, <1>18 DEF weave_small_runs_skip, Rest, metaVars, flushVars
  <2> QED
    BY <2>1, FiniteSame
<1>19. ASSUME NEW b \in Backends, weave_merge(b) PROVE Goal
  <2>1. segs' = segs /\ \A c \in Backends : built'[c] = built[c] \/ built'[c] = {}
    BY <1>0, <1>19 DEF weave_merge, Rest, metaVars, flushVars
  <2> QED
    BY <2>1, FiniteSame
<1>20. ASSUME NEW b \in Backends, vacuum_heap_scan(b) PROVE Goal
  <2>1. segs' = segs /\ \A c \in Backends : built'[c] = built[c] \/ built'[c] = {}
    BY <1>0, <1>20 DEF vacuum_heap_scan, Rest, metaVars, flushVars
  <2> QED
    BY <2>1, FiniteSame
<1>21. ASSUME NEW b \in Backends, weave_bulkdelete(b) PROVE Goal
  <2>1. segs' = segs /\ \A c \in Backends : built'[c] = built[c] \/ built'[c] = {}
    BY <1>0, <1>21 DEF weave_bulkdelete, Rest, metaVars, flushVars
  <2> QED
    BY <2>1, FiniteSame
<1>22. ASSUME NEW b \in Backends, weave_bulkdelete_swap(b) PROVE Goal
  <2>1. /\ DOMAIN segs' = DOMAIN segs
        /\ \A i \in DOMAIN segs : i # slot[b] => segs'[i] = segs[i]
        /\ segs'[slot[b]] = [segs[slot[b]] EXCEPT !.dead = NewDead(b, segs[slot[b]])]
        /\ slot[b] \in DOMAIN segs
    BY <1>22, SwapStep
  <2>2. segs'[slot[b]].docs = segs[slot[b]].docs
    BY <1>0, <2>1, BoltParts DEF Bolt
  <2>3. built' = built
    BY <1>22 DEF weave_bulkdelete_swap, flushVars
  <2>4. \A i \in DOMAIN segs' : segs'[i].docs = segs[i].docs
    BY <2>1, <2>2
  <2> QED
    BY <2>1, <2>3, <2>4 DEF FiniteInv
<1>23. ASSUME NEW b \in Backends, weave_bulkdelete_end(b) PROVE Goal
  <2>1. segs' = segs /\ \A c \in Backends : built'[c] = built[c] \/ built'[c] = {}
    BY <1>0, <1>23 DEF weave_bulkdelete_end, Rest, metaVars, flushVars
  <2> QED
    BY <2>1, FiniteSame
<1>24. ASSUME NEW b \in Backends, vacuum_heap(b) PROVE Goal
  <2>1. segs' = segs /\ \A c \in Backends : built'[c] = built[c] \/ built'[c] = {}
    BY <1>0, <1>24 DEF vacuum_heap, Rest, metaVars, flushVars
  <2> QED
    BY <2>1, FiniteSame
<1>25. CASE UNCHANGED vars
  BY <1>25 DEF vars, FiniteInv
<1> QED
  BY <1>1, <1>2, <1>3, <1>4, <1>5, <1>6, <1>7, <1>8, <1>9, <1>10,
     <1>11, <1>12, <1>13, <1>14, <1>15, <1>16, <1>17, <1>18, <1>19,
     <1>20, <1>21, <1>22, <1>23, <1>24, <1>25
  DEF Next, HeapStep, SessionStart, SessionStep, CountedStep, UncountedStep

\* In every reachable state each bolt has finitely many documents.
THEOREM DocumentsAreFinite == Spec => []FiniteInv
<1>1. Init => FiniteInv
  BY FS_EmptySet DEF Init, FiniteInv
<1> QED
  BY <1>1, FiniteInductive, Invariance, PTL DEF Spec

=============================================================================
