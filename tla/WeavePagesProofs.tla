-------------------------- MODULE WeavePagesProofs --------------------------
(***************************************************************************)
(* Proofs about WeavePages, for every file length, every number of         *)
(* sessions and scans and every directory capacity: no page that is linked *)
(* or about to be is handed out or freed, and none that a scan may visit   *)
(* is handed out, whatever the free space map says and whatever fails.     *)
(***************************************************************************)
EXTENDS WeavePages, TLAPS

-----------------------------------------------------------------------------
(* The inductive invariant *)

PLabels ==
    {"idle", "write", "publish", "retry", "merge", "merge_write", "merge_commit", "free",
     "truncate", "barrier", "barrier_wait", "lock", "meta", "reach", "reclaim", "flush"}

\* The type invariant: what each variable holds.
PageTypeOK ==
    /\ nblocks \in 0..MaxBlocks
    /\ page \in [Blocks -> {"absent", "new", "used", "freed"}]
    /\ young \in SUBSET Blocks
    /\ hold \in [Blocks -> SUBSET Scans]
    /\ fsm \in SUBSET Blocks
    /\ bolts \in SUBSET Blocks /\ pendp \in SUBSET Blocks
    /\ segwrite \in SUBSET Backends
    /\ mutex \in Backends \cup {NoBackend}
    /\ pc \in [Backends -> PLabels]
    /\ out \in [Backends -> Blocks \cup {NoBlock}]
    /\ merged \in [Backends -> Blocks \cup {NoBlock}]
    /\ cut \in [Backends -> SUBSET Blocks]
    /\ old \in [Backends -> SUBSET Blocks]
    /\ low \in [Backends -> SUBSET Blocks]
    /\ reach \in [Backends -> SUBSET Blocks]
    /\ blk \in [Backends -> Nat \ {0}]
    /\ lim \in [Backends -> 0..MaxBlocks]
    /\ snap \in [Scans -> SUBSET Blocks]
    /\ reused \in [Scans -> SUBSET Blocks]

\* A session between its choice of merge inputs and the end of their frees.
MergeLabels == {"merge", "merge_write", "merge_commit", "free"}

\* VACUUM from its second lock on, the mutex, to the end.
VacuumLabels ==
    MergeLabels \cup {"meta", "reach", "reclaim", "flush", "write", "publish", "retry", "truncate"}

\* The two locks, the statements that hold them, and VACUUM's lock on the table.
LockInv ==
    /\ \A b \in Backends :
        IF b \in segwrite THEN /\ pc[b] \in MergeLabels \cup {"write", "publish", "retry"}
                               /\ mutex = b <=> pc[b] \in MergeLabels
        ELSE mutex = b <=> pc[b] \in VacuumLabels
    /\ \A b, c \in Backends \ segwrite : pc[b] # "idle" /\ pc[c] # "idle" => b = c

\* Which session has a bolt's page to link: one past its write, an INSERT until it
\* ends.  Only a flush that has not cut the list yet has walked pages to unlink.
WorkInv ==
    \A b \in Backends :
        /\ pc[b] \in {"publish", "retry"} \/ (b \in segwrite /\ pc[b] # "write")
             => out[b] # NoBlock
        /\ pc[b] \notin MergeLabels \cup {"publish", "retry"} => out[b] = NoBlock
        /\ merged[b] # NoBlock <=> pc[b] = "merge_commit"
        /\ cut[b] # {} => b \notin segwrite /\ (pc[b] = "write" \/ out[b] # NoBlock)

\* What a session has read is still linked; what it has unlinked is nobody's.
OldInv ==
    \A b \in Backends :
        /\ cut[b] \subseteq pendp
        /\ pc[b] \in {"merge_write", "merge_commit"} => old[b] \subseteq bolts
        /\ pc[b] = "free" =>
             \A p \in old[b] :
                /\ p <= nblocks /\ page[p] = "used" /\ p \notin linked
                /\ \A c \in Backends : p \notin Unlinked(c)

\* Past the barrier, a page that someone is about to link is newer than the fence;
\* once the metapage is copied, so is a linked page the map does not have.
FenceInv ==
    \A b \in Backends :
        /\ pc[b] \in {"lock", "meta", "reach", "reclaim"} =>
             \A c \in Backends : Unlinked(c) \subseteq young
        /\ pc[b] \in {"reach", "reclaim"} => linked \subseteq reach[b] \cup young

\* The pages of a running scan are as it found them, or freed with a stamp its
\* snapshot holds back.
SnapInv ==
    \A s \in Scans : \A p \in snap[s] :
        p <= nblocks /\ (page[p] = "used" \/ (page[p] = "freed" /\ s \in hold[p]))

PInv ==
    /\ PageTypeOK /\ LockInv /\ WorkInv /\ OldInv /\ FenceInv
    /\ NoPageStolen /\ SnapInv /\ ScanUndisturbed

-----------------------------------------------------------------------------
(* Types, locks and labels *)

\* What an allocation writes: a page nobody uses, or one more than there were.
LEMMA NewBufferFacts ==
    ASSUME PageTypeOK, NEW p \in Blocks, NEW C \in SUBSET Blocks, weave_new_buffer(p, C)
    PROVE  /\ p > nblocks \/ weave_page_recyclable(p)
           /\ nblocks' \in 0..MaxBlocks /\ p <= nblocks' /\ nblocks <= nblocks'
           /\ page' = [page EXCEPT ![p] = "used"]
           /\ young' = young \cup {p}
           /\ hold' = [hold EXCEPT ![p] = {}]
           /\ fsm' \in SUBSET Blocks
           /\ reused' = [s \in Scans |-> IF p \in snap[s] THEN reused[s] \cup {p} ELSE reused[s]]
<1> USE BlocksAssumption DEF PageTypeOK, Blocks
<1>1. Refused(C) \in SUBSET Blocks
  BY DEF Refused
<1>2. ASSUME Take(p, C)
      PROVE  /\ page' = [page EXCEPT ![p] = "used"]
             /\ young' = young \cup {p}
             /\ hold' = [hold EXCEPT ![p] = {}]
             /\ fsm' \in SUBSET Blocks
             /\ reused' = [s \in Scans |-> IF p \in snap[s] THEN reused[s] \cup {p} ELSE reused[s]]
  <2>1. \A R \in SUBSET Refused(C) : (fsm \cup R) \ {p} \in SUBSET Blocks
    BY <1>1
  <2> QED
    BY <1>2, <2>1 DEF Take
<1>3. Take(p, C) /\ (p > nblocks \/ weave_page_recyclable(p))
      /\ nblocks' \in 0..MaxBlocks /\ p <= nblocks' /\ nblocks <= nblocks'
  BY DEF weave_new_buffer
<1> QED
  BY <1>2, <1>3

\* Every step preserves the types.
LEMMA PageTypeInductive == PageTypeOK /\ WorkInv /\ [Next]_vars => PageTypeOK'
<1> SUFFICES ASSUME PageTypeOK, WorkInv, [Next]_vars PROVE PageTypeOK'
  OBVIOUS
<1> DEFINE Goal == PageTypeOK'
<1> USE BlocksAssumption, HolderAssumption DEF PageTypeOK, PLabels, Blocks, NoBlock
<1>1. ASSUME NEW p \in Blocks, weave_insert(p) PROVE Goal
  <2>1. weave_new_buffer(p, fsm) /\ fsm \in SUBSET Blocks
    BY <1>1 DEF weave_insert
  <2>2. /\ nblocks' \in 0..MaxBlocks
        /\ page' \in [Blocks -> {"absent", "new", "used", "freed"}]
        /\ young' \in SUBSET Blocks
        /\ hold' \in [Blocks -> SUBSET Scans]
        /\ fsm' \in SUBSET Blocks
        /\ reused' \in [Scans -> SUBSET Blocks]
    <3> HIDE DEF Blocks, PageTypeOK
    <3>1. /\ hold \in [Blocks -> SUBSET Scans] /\ young \in SUBSET Blocks
          /\ page \in [Blocks -> {"absent", "new", "used", "freed"}]
          /\ snap \in [Scans -> SUBSET Blocks] /\ reused \in [Scans -> SUBSET Blocks]
      BY DEF PageTypeOK
    <3> QED
      BY <2>1, <3>1, NewBufferFacts
  <2> QED
    BY <1>1, <2>2 DEF weave_insert, lockVars, workVars, walkVars
<1>2. ASSUME NEW b \in Backends, weave_segwrite_lock(b) PROVE Goal
  BY <1>2 DEF weave_segwrite_lock, Goto, pageVars, linkVars, workVars, walkVars
<1>3. ASSUME NEW b \in Backends, weave_reclaim_fence(b) PROVE Goal
  BY <1>3 DEF weave_reclaim_fence, Vacuuming, Goto, linkVars, lockVars, workVars, walkVars
<1>4. ASSUME NEW b \in Backends, NEW S \in SUBSET bolts, weave_merge_selected(b, S) PROVE Goal
  BY <1>4 DEF weave_merge_selected, Goto, pageVars, linkVars, lockVars, walkVars
<1>5. ASSUME NEW b \in Backends, NEW p \in Blocks, weave_write_segment(b, p) PROVE Goal
  <2>1. weave_new_buffer(p, fsm) /\ fsm \in SUBSET Blocks
    BY <1>5 DEF weave_write_segment
  <2>2. /\ nblocks' \in 0..MaxBlocks
        /\ page' \in [Blocks -> {"absent", "new", "used", "freed"}]
        /\ young' \in SUBSET Blocks
        /\ hold' \in [Blocks -> SUBSET Scans]
        /\ fsm' \in SUBSET Blocks
        /\ reused' \in [Scans -> SUBSET Blocks]
    <3> HIDE DEF Blocks, PageTypeOK
    <3>1. /\ hold \in [Blocks -> SUBSET Scans] /\ young \in SUBSET Blocks
          /\ page \in [Blocks -> {"absent", "new", "used", "freed"}]
          /\ snap \in [Scans -> SUBSET Blocks] /\ reused \in [Scans -> SUBSET Blocks]
      BY DEF PageTypeOK
    <3> QED
      BY <2>1, <3>1, NewBufferFacts
  <2> QED
    BY <1>5, <2>2 DEF weave_write_segment, Goto, linkVars, lockVars, walkVars
<1>6. ASSUME NEW b \in Backends, weave_publish(b) PROVE Goal
  <2>1. out[b] \in Blocks
    BY <1>6 DEF weave_publish, WorkInv
  <2> QED
    BY <1>6, <2>1 DEF weave_publish, Goto, pageVars, walkVars
<1>7. ASSUME NEW b \in Backends, weave_add_segment_with_room(b) PROVE Goal
  BY <1>7 DEF weave_add_segment_with_room, Goto, pageVars, linkVars, workVars, walkVars
<1>8. ASSUME NEW b \in Backends, weave_flush_pending(b) PROVE Goal
  BY <1>8 DEF weave_flush_pending, Goto, pageVars, linkVars, lockVars, walkVars
<1>9. ASSUME NEW b \in Backends, NEW K \in SUBSET cut[b], weave_flush_add_and_cut(b, K) PROVE Goal
  <2>1. out[b] \in Blocks
    BY <1>9 DEF weave_flush_add_and_cut, WorkInv
  <2> QED
    BY <1>9, <2>1 DEF weave_flush_add_and_cut, Goto, pageVars, lockVars, walkVars
<1>10. ASSUME NEW b \in Backends, NEW p \in Blocks, weave_merge_write(b, p) PROVE Goal
  <2>1. weave_new_buffer(p, low[b]) /\ low[b] \in SUBSET Blocks
    BY <1>10 DEF weave_merge_write
  <2>2. /\ nblocks' \in 0..MaxBlocks
        /\ page' \in [Blocks -> {"absent", "new", "used", "freed"}]
        /\ young' \in SUBSET Blocks
        /\ hold' \in [Blocks -> SUBSET Scans]
        /\ fsm' \in SUBSET Blocks
        /\ reused' \in [Scans -> SUBSET Blocks]
    <3> HIDE DEF Blocks, PageTypeOK
    <3>1. /\ hold \in [Blocks -> SUBSET Scans] /\ young \in SUBSET Blocks
          /\ page \in [Blocks -> {"absent", "new", "used", "freed"}]
          /\ snap \in [Scans -> SUBSET Blocks] /\ reused \in [Scans -> SUBSET Blocks]
      BY DEF PageTypeOK
    <3> QED
      BY <2>1, <3>1, NewBufferFacts
  <2> QED
    BY <1>10, <2>2 DEF weave_merge_write, Goto, linkVars, lockVars, walkVars
<1>11. ASSUME NEW b \in Backends, weave_merge_commit(b) PROVE Goal
  <2>1. merged[b] \in Blocks
    BY <1>11 DEF weave_merge_commit, WorkInv
  <2> QED
    BY <1>11, <2>1 DEF weave_merge_commit, Goto, pageVars, lockVars, walkVars
<1>12. ASSUME NEW b \in Backends, NEW p \in Blocks, weave_free_segment(b, p) PROVE Goal
  BY <1>12 DEF weave_free_segment, weave_free_page, linkVars, lockVars, walkVars
<1>13. ASSUME NEW b \in Backends, weave_free_end(b) PROVE Goal
  BY <1>13 DEF weave_free_end, Goto, pageVars, linkVars, lockVars, workVars, walkVars
<1>14. ASSUME NEW b \in Backends, weave_merge_end(b) PROVE Goal
  BY <1>14 DEF weave_merge_end, Goto, pageVars, linkVars, workVars, walkVars
<1>15. ASSUME NEW b \in Backends, weave_no_space(b) PROVE Goal
  BY <1>15 DEF weave_no_space, Rest, Goto, pageVars, linkVars
<1>16. ASSUME NEW b \in Backends, weave_no_room(b) PROVE Goal
  BY <1>16 DEF weave_no_room, Rest, Goto, pageVars, linkVars
<1>17. ASSUME NEW b \in Backends, weave_segwrite_barrier(b) PROVE Goal
  BY <1>17
  DEF weave_segwrite_barrier, Goto, pageVars, linkVars, lockVars, workVars, walkVars
<1>18. ASSUME NEW b \in Backends, weave_segwrite_barrier_granted(b) PROVE Goal
  BY <1>18
  DEF weave_segwrite_barrier_granted, Goto, pageVars, linkVars, lockVars, workVars, walkVars
<1>19. ASSUME NEW b \in Backends, weave_maintenance_lock(b) PROVE Goal
  BY <1>19 DEF weave_maintenance_lock, Goto, pageVars, linkVars, workVars, walkVars
<1>20. ASSUME NEW b \in Backends, weave_reclaim_meta(b) PROVE Goal
  BY <1>20 DEF weave_reclaim_meta, Goto, pageVars, linkVars, lockVars, workVars, linked
<1>21. ASSUME NEW b \in Backends, weave_reach_map(b) PROVE Goal
  BY <1>21 DEF weave_reach_map, Goto, pageVars, linkVars, lockVars, workVars
<1>22. ASSUME NEW b \in Backends, weave_reclaim_reachable(b) PROVE Goal
  <2>1. blk' \in [Backends -> Nat \ {0}] /\ fsm' \in SUBSET Blocks
    <3>1. blk' = [blk EXCEPT ![b] = @ + 1]
      BY <1>22 DEF weave_reclaim_reachable, WalkStep
    <3>2. fsm' \in SUBSET (fsm \cup {blk[b]}) /\ (fsm' \in SUBSET fsm \/ blk[b] \in Blocks)
      BY <1>22 DEF weave_reclaim_reachable, WalkStep
    <3>3. fsm' \in SUBSET Blocks
      <4> HIDE DEF Blocks
      <4> QED
        BY <3>2
    <3> QED
      BY <3>1, <3>3
  <2> QED
    BY <1>22, <2>1 DEF weave_reclaim_reachable, WalkStep, linkVars, lockVars, workVars
<1>23. ASSUME NEW b \in Backends, weave_reclaim_record(b) PROVE Goal
  <2>1. blk[b] \in Blocks
    BY <1>23 DEF weave_reclaim_record, WalkStep
  <2>2. blk' \in [Backends -> Nat \ {0}] /\ fsm' \in SUBSET Blocks
    <3>1. blk' = [blk EXCEPT ![b] = @ + 1]
      BY <1>23 DEF weave_reclaim_record, WalkStep
    <3>2. fsm' \in SUBSET (fsm \cup {blk[b]}) /\ (fsm' \in SUBSET fsm \/ blk[b] \in Blocks)
      BY <1>23, <2>1 DEF weave_reclaim_record, WalkStep
    <3>3. fsm' \in SUBSET Blocks
      <4> HIDE DEF Blocks
      <4> QED
        BY <3>2
    <3> QED
      BY <3>1, <3>3
  <2> QED
    BY <1>23, <2>2 DEF weave_reclaim_record, WalkStep, linkVars, lockVars, workVars
<1>24. ASSUME NEW b \in Backends, weave_reclaim_newer(b) PROVE Goal
  BY <1>24 DEF weave_reclaim_newer, WalkStep, pageVars, linkVars, lockVars, workVars
<1>25. ASSUME NEW b \in Backends, weave_reclaim_stranded(b) PROVE Goal
  <2>1. blk[b] \in Blocks
    BY <1>25 DEF weave_reclaim_stranded, WalkStep
  <2>2. blk' \in [Backends -> Nat \ {0}] /\ fsm' \in SUBSET Blocks
    <3>1. blk' = [blk EXCEPT ![b] = @ + 1]
      BY <1>25 DEF weave_reclaim_stranded, WalkStep
    <3>2. fsm' \in SUBSET (fsm \cup {blk[b]}) /\ (fsm' \in SUBSET fsm \/ blk[b] \in Blocks)
      BY <1>25, <2>1 DEF weave_reclaim_stranded, WalkStep
    <3>3. fsm' \in SUBSET Blocks
      <4> HIDE DEF Blocks
      <4> QED
        BY <3>2
    <3> QED
      BY <3>1, <3>3
  <2>3. /\ page' \in [Blocks -> {"absent", "new", "used", "freed"}]
        /\ hold' \in [Blocks -> SUBSET Scans] /\ young' \in SUBSET Blocks
    BY <1>25, <2>1 DEF weave_reclaim_stranded, weave_free_page
  <2> QED
    BY <1>25, <2>2, <2>3
    DEF weave_reclaim_stranded, WalkStep, weave_free_page, linkVars, lockVars, workVars
<1>26. ASSUME NEW b \in Backends, weave_reclaim_contended(b) PROVE Goal
  BY <1>26 DEF weave_reclaim_contended, WalkStep, pageVars, linkVars, lockVars, workVars
<1>27. ASSUME NEW b \in Backends, weave_reclaim_end(b) PROVE Goal
  BY <1>27 DEF weave_reclaim_end, Goto, pageVars, linkVars, lockVars, workVars
<1>28. ASSUME NEW b \in Backends, weave_truncate_free_tail(b) PROVE Goal
  <2>1. PICK n \in 0..nblocks :
           /\ nblocks' = n
           /\ page' = [p \in Blocks |-> IF p > n THEN "absent" ELSE page[p]]
           /\ young' = {p \in young : p <= n}
           /\ hold' = [p \in Blocks |-> IF p > n THEN {} ELSE hold[p]]
           /\ fsm' = {p \in fsm : p <= n}
    BY <1>28 DEF weave_truncate_free_tail
  <2>2. /\ nblocks' \in 0..MaxBlocks
        /\ page' \in [Blocks -> {"absent", "new", "used", "freed"}]
        /\ hold' \in [Blocks -> SUBSET Scans]
    BY <2>1
  <2>3. fsm' \in SUBSET Blocks /\ young' \in SUBSET Blocks
    <3> HIDE DEF Blocks
    <3> QED
      BY <2>1
  <2>4. /\ UNCHANGED <<linkVars, segwrite, workVars, walkVars, snap, reused>>
        /\ mutex' = NoBackend /\ pc' = [pc EXCEPT ![b] = "idle"]
    BY <1>28 DEF weave_truncate_free_tail, Goto
  <2> QED
    BY <2>2, <2>3, <2>4 DEF linkVars, workVars, walkVars
<1>29. ASSUME NEW b \in Backends, weave_truncate_skip(b) PROVE Goal
  BY <1>29 DEF weave_truncate_skip, Goto, pageVars, linkVars, workVars, walkVars
<1>30. ASSUME NEW b \in Backends, NEW p \in Blocks, weave_alloc_contended(b, p) PROVE Goal
  BY <1>30 DEF weave_alloc_contended, linkVars, lockVars, workVars, walkVars
<1>31. ASSUME NEW b \in Backends, Abandon(b) PROVE Goal
  BY <1>31 DEF Abandon, Rest, Goto, pageVars, linkVars
<1>32. ASSUME NEW b \in Backends, AbandonExtended(b) PROVE Goal
  BY <1>32 DEF AbandonExtended, Rest, Goto, linkVars
<1>33. ASSUME Crash PROVE Goal
  BY <1>33 DEF Crash, linkVars
<1>34. ASSUME NEW s \in Scans, weave_scan_begin(s) PROVE Goal
  BY <1>34 DEF weave_scan_begin, pageVars, linkVars, lockVars, workVars, walkVars, linked
<1>35. ASSUME NEW s \in Scans, weave_scan_end(s) PROVE Goal
  BY <1>35 DEF weave_scan_end, linkVars, lockVars, workVars, walkVars
<1>36. CASE UNCHANGED vars
  BY <1>36 DEF vars
<1> QED
  BY <1>1, <1>2, <1>3, <1>4, <1>5, <1>6, <1>7, <1>8, <1>9, <1>10, <1>11, <1>12,
     <1>13, <1>14, <1>15, <1>16, <1>17, <1>18, <1>19, <1>20, <1>21, <1>22, <1>23,
     <1>24, <1>25, <1>26, <1>27, <1>28, <1>29, <1>30, <1>31, <1>32, <1>33, <1>34, <1>35, <1>36
  DEF Next, UndisturbedNext, SessionStep, WriteStep, VacuumStep, ScanStep

\* Every step keeps the locks where the sessions' positions say they are.
LEMMA LockInductive == PageTypeOK /\ LockInv /\ WorkInv /\ [Next]_vars => LockInv'
<1> SUFFICES ASSUME PageTypeOK, LockInv, WorkInv, [Next]_vars PROVE LockInv'
  OBVIOUS
<1> DEFINE Goal == LockInv'
<1>0. /\ segwrite \in SUBSET Backends /\ mutex \in Backends \cup {NoBackend}
      /\ pc \in [Backends -> PLabels] /\ out \in [Backends -> Blocks \cup {NoBlock}]
      /\ LockInv /\ WorkInv
  BY DEF PageTypeOK
<1> USE <1>0, HolderAssumption DEF LockInv, WorkInv, MergeLabels, VacuumLabels, PLabels
<1>1. ASSUME NEW p \in Blocks, weave_insert(p) PROVE Goal
  BY <1>1 DEF weave_insert, lockVars, workVars, walkVars
<1>2. ASSUME NEW b \in Backends, weave_segwrite_lock(b) PROVE Goal
  BY <1>2 DEF weave_segwrite_lock, Goto, pageVars, linkVars, workVars, walkVars
<1>3. ASSUME NEW b \in Backends, weave_reclaim_fence(b) PROVE Goal
  BY <1>3 DEF weave_reclaim_fence, Vacuuming, Goto, linkVars, lockVars, workVars, walkVars
<1>4. ASSUME NEW b \in Backends, NEW S \in SUBSET bolts, weave_merge_selected(b, S) PROVE Goal
  BY <1>4 DEF weave_merge_selected, Goto, pageVars, linkVars, lockVars, walkVars
<1>5. ASSUME NEW b \in Backends, NEW p \in Blocks, weave_write_segment(b, p) PROVE Goal
  BY <1>5 DEF weave_write_segment, Goto, linkVars, lockVars, walkVars
<1>6. ASSUME NEW b \in Backends, weave_publish(b) PROVE Goal
  BY <1>6 DEF weave_publish, Goto, pageVars, walkVars
<1>7. ASSUME NEW b \in Backends, weave_add_segment_with_room(b) PROVE Goal
  BY <1>7 DEF weave_add_segment_with_room, Goto, pageVars, linkVars, workVars, walkVars
<1>8. ASSUME NEW b \in Backends, weave_flush_pending(b) PROVE Goal
  BY <1>8 DEF weave_flush_pending, Goto, pageVars, linkVars, lockVars, walkVars
<1>9. ASSUME NEW b \in Backends, NEW K \in SUBSET cut[b], weave_flush_add_and_cut(b, K) PROVE Goal
  BY <1>9 DEF weave_flush_add_and_cut, Goto, pageVars, lockVars, walkVars
<1>10. ASSUME NEW b \in Backends, NEW p \in Blocks, weave_merge_write(b, p) PROVE Goal
  BY <1>10 DEF weave_merge_write, Goto, linkVars, lockVars, walkVars
<1>11. ASSUME NEW b \in Backends, weave_merge_commit(b) PROVE Goal
  BY <1>11 DEF weave_merge_commit, Goto, pageVars, lockVars, walkVars
<1>12. ASSUME NEW b \in Backends, NEW p \in Blocks, weave_free_segment(b, p) PROVE Goal
  BY <1>12 DEF weave_free_segment, weave_free_page, linkVars, lockVars, walkVars
<1>13. ASSUME NEW b \in Backends, weave_free_end(b) PROVE Goal
  BY <1>13 DEF weave_free_end, Goto, pageVars, linkVars, lockVars, workVars, walkVars
<1>14. ASSUME NEW b \in Backends, weave_merge_end(b) PROVE Goal
  BY <1>14 DEF weave_merge_end, Goto, pageVars, linkVars, workVars, walkVars
<1>15. ASSUME NEW b \in Backends, weave_no_space(b) PROVE Goal
  BY <1>15 DEF weave_no_space, Rest, Goto, pageVars, linkVars
<1>16. ASSUME NEW b \in Backends, weave_no_room(b) PROVE Goal
  BY <1>16 DEF weave_no_room, Rest, Goto, pageVars, linkVars
<1>17. ASSUME NEW b \in Backends, weave_segwrite_barrier(b) PROVE Goal
  BY <1>17
  DEF weave_segwrite_barrier, Goto, pageVars, linkVars, lockVars, workVars, walkVars
<1>18. ASSUME NEW b \in Backends, weave_segwrite_barrier_granted(b) PROVE Goal
  BY <1>18
  DEF weave_segwrite_barrier_granted, Goto, pageVars, linkVars, lockVars, workVars, walkVars
<1>19. ASSUME NEW b \in Backends, weave_maintenance_lock(b) PROVE Goal
  BY <1>19 DEF weave_maintenance_lock, Goto, pageVars, linkVars, workVars, walkVars
<1>20. ASSUME NEW b \in Backends, weave_reclaim_meta(b) PROVE Goal
  BY <1>20 DEF weave_reclaim_meta, Goto, pageVars, linkVars, lockVars, workVars
<1>21. ASSUME NEW b \in Backends, weave_reach_map(b) PROVE Goal
  BY <1>21 DEF weave_reach_map, Goto, pageVars, linkVars, lockVars, workVars
<1>22. ASSUME NEW b \in Backends, weave_reclaim_reachable(b) PROVE Goal
  BY <1>22 DEF weave_reclaim_reachable, WalkStep, linkVars, lockVars, workVars
<1>23. ASSUME NEW b \in Backends, weave_reclaim_record(b) PROVE Goal
  BY <1>23 DEF weave_reclaim_record, WalkStep, linkVars, lockVars, workVars
<1>24. ASSUME NEW b \in Backends, weave_reclaim_newer(b) PROVE Goal
  BY <1>24 DEF weave_reclaim_newer, WalkStep, pageVars, linkVars, lockVars, workVars
<1>25. ASSUME NEW b \in Backends, weave_reclaim_stranded(b) PROVE Goal
  BY <1>25
  DEF weave_reclaim_stranded, WalkStep, weave_free_page, linkVars, lockVars, workVars
<1>26. ASSUME NEW b \in Backends, weave_reclaim_contended(b) PROVE Goal
  BY <1>26 DEF weave_reclaim_contended, WalkStep, pageVars, linkVars, lockVars, workVars
<1>27. ASSUME NEW b \in Backends, weave_reclaim_end(b) PROVE Goal
  BY <1>27 DEF weave_reclaim_end, Goto, pageVars, linkVars, lockVars, workVars
<1>28. ASSUME NEW b \in Backends, weave_truncate_free_tail(b) PROVE Goal
  BY <1>28 DEF weave_truncate_free_tail, Goto, linkVars, workVars, walkVars
<1>29. ASSUME NEW b \in Backends, weave_truncate_skip(b) PROVE Goal
  BY <1>29 DEF weave_truncate_skip, Goto, pageVars, linkVars, workVars, walkVars
<1>30. ASSUME NEW b \in Backends, NEW p \in Blocks, weave_alloc_contended(b, p) PROVE Goal
  BY <1>30 DEF weave_alloc_contended, linkVars, lockVars, workVars, walkVars
<1>31. ASSUME NEW b \in Backends, Abandon(b) PROVE Goal
  BY <1>31 DEF Abandon, Rest, Goto, pageVars, linkVars
<1>32. ASSUME NEW b \in Backends, AbandonExtended(b) PROVE Goal
  BY <1>32 DEF AbandonExtended, Rest, Goto, linkVars
<1>33. ASSUME Crash PROVE Goal
  BY <1>33 DEF Crash, linkVars
<1>34. ASSUME NEW s \in Scans, weave_scan_begin(s) PROVE Goal
  BY <1>34 DEF weave_scan_begin, pageVars, linkVars, lockVars, workVars, walkVars
<1>35. ASSUME NEW s \in Scans, weave_scan_end(s) PROVE Goal
  BY <1>35 DEF weave_scan_end, linkVars, lockVars, workVars, walkVars
<1>36. CASE UNCHANGED vars
  BY <1>36 DEF vars
<1> QED
  BY <1>1, <1>2, <1>3, <1>4, <1>5, <1>6, <1>7, <1>8, <1>9, <1>10, <1>11, <1>12,
     <1>13, <1>14, <1>15, <1>16, <1>17, <1>18, <1>19, <1>20, <1>21, <1>22, <1>23,
     <1>24, <1>25, <1>26, <1>27, <1>28, <1>29, <1>30, <1>31, <1>32, <1>33, <1>34, <1>35, <1>36
  DEF Next, UndisturbedNext, SessionStep, WriteStep, VacuumStep, ScanStep

\* Every step keeps what a session's position says of the pages it works on.
LEMMA WorkInductive == PageTypeOK /\ LockInv /\ WorkInv /\ [Next]_vars => WorkInv'
<1> SUFFICES ASSUME PageTypeOK, LockInv, WorkInv, [Next]_vars PROVE WorkInv'
  OBVIOUS
<1> DEFINE Goal == WorkInv'
<1>0. /\ segwrite \in SUBSET Backends
      /\ pc \in [Backends -> PLabels]
      /\ out \in [Backends -> Blocks \cup {NoBlock}]
      /\ merged \in [Backends -> Blocks \cup {NoBlock}]
      /\ cut \in [Backends -> SUBSET Blocks]
      /\ \A p \in Blocks : p # NoBlock
      /\ LockInv /\ WorkInv
  BY DEF PageTypeOK, Blocks, NoBlock
<1> USE <1>0 DEF LockInv, WorkInv, MergeLabels, VacuumLabels, PLabels
<1>1. ASSUME NEW p \in Blocks, weave_insert(p) PROVE Goal
  BY <1>1 DEF weave_insert, lockVars, workVars, walkVars
<1>2. ASSUME NEW b \in Backends, weave_segwrite_lock(b) PROVE Goal
  BY <1>2 DEF weave_segwrite_lock, Goto, pageVars, linkVars, workVars, walkVars
<1>3. ASSUME NEW b \in Backends, weave_reclaim_fence(b) PROVE Goal
  BY <1>3 DEF weave_reclaim_fence, Vacuuming, Goto, linkVars, lockVars, workVars, walkVars
<1>4. ASSUME NEW b \in Backends, NEW S \in SUBSET bolts, weave_merge_selected(b, S) PROVE Goal
  BY <1>4 DEF weave_merge_selected, Goto, pageVars, linkVars, lockVars, walkVars
<1>5. ASSUME NEW b \in Backends, NEW p \in Blocks, weave_write_segment(b, p) PROVE Goal
  BY <1>5 DEF weave_write_segment, Goto, linkVars, lockVars, walkVars
<1>6. ASSUME NEW b \in Backends, weave_publish(b) PROVE Goal
  BY <1>6 DEF weave_publish, Goto, pageVars, walkVars
<1>7. ASSUME NEW b \in Backends, weave_add_segment_with_room(b) PROVE Goal
  BY <1>7 DEF weave_add_segment_with_room, Goto, pageVars, linkVars, workVars, walkVars
<1>8. ASSUME NEW b \in Backends, weave_flush_pending(b) PROVE Goal
  BY <1>8 DEF weave_flush_pending, Goto, pageVars, linkVars, lockVars, walkVars
<1>9. ASSUME NEW b \in Backends, NEW K \in SUBSET cut[b], weave_flush_add_and_cut(b, K) PROVE Goal
  BY <1>9 DEF weave_flush_add_and_cut, Goto, pageVars, lockVars, walkVars
<1>10. ASSUME NEW b \in Backends, NEW p \in Blocks, weave_merge_write(b, p) PROVE Goal
  BY <1>10 DEF weave_merge_write, Goto, linkVars, lockVars, walkVars
<1>11. ASSUME NEW b \in Backends, weave_merge_commit(b) PROVE Goal
  BY <1>11 DEF weave_merge_commit, Goto, pageVars, lockVars, walkVars
<1>12. ASSUME NEW b \in Backends, NEW p \in Blocks, weave_free_segment(b, p) PROVE Goal
  BY <1>12 DEF weave_free_segment, weave_free_page, linkVars, lockVars, walkVars
<1>13. ASSUME NEW b \in Backends, weave_free_end(b) PROVE Goal
  BY <1>13 DEF weave_free_end, Goto, pageVars, linkVars, lockVars, workVars, walkVars
<1>14. ASSUME NEW b \in Backends, weave_merge_end(b) PROVE Goal
  BY <1>14 DEF weave_merge_end, Goto, pageVars, linkVars, workVars, walkVars
<1>15. ASSUME NEW b \in Backends, weave_no_space(b) PROVE Goal
  BY <1>15 DEF weave_no_space, Rest, Goto, pageVars, linkVars
<1>16. ASSUME NEW b \in Backends, weave_no_room(b) PROVE Goal
  BY <1>16 DEF weave_no_room, Rest, Goto, pageVars, linkVars
<1>17. ASSUME NEW b \in Backends, weave_segwrite_barrier(b) PROVE Goal
  BY <1>17
  DEF weave_segwrite_barrier, Goto, pageVars, linkVars, lockVars, workVars, walkVars
<1>18. ASSUME NEW b \in Backends, weave_segwrite_barrier_granted(b) PROVE Goal
  BY <1>18
  DEF weave_segwrite_barrier_granted, Goto, pageVars, linkVars, lockVars, workVars, walkVars
<1>19. ASSUME NEW b \in Backends, weave_maintenance_lock(b) PROVE Goal
  BY <1>19 DEF weave_maintenance_lock, Goto, pageVars, linkVars, workVars, walkVars
<1>20. ASSUME NEW b \in Backends, weave_reclaim_meta(b) PROVE Goal
  BY <1>20 DEF weave_reclaim_meta, Goto, pageVars, linkVars, lockVars, workVars
<1>21. ASSUME NEW b \in Backends, weave_reach_map(b) PROVE Goal
  BY <1>21 DEF weave_reach_map, Goto, pageVars, linkVars, lockVars, workVars
<1>22. ASSUME NEW b \in Backends, weave_reclaim_reachable(b) PROVE Goal
  BY <1>22 DEF weave_reclaim_reachable, WalkStep, linkVars, lockVars, workVars
<1>23. ASSUME NEW b \in Backends, weave_reclaim_record(b) PROVE Goal
  BY <1>23 DEF weave_reclaim_record, WalkStep, linkVars, lockVars, workVars
<1>24. ASSUME NEW b \in Backends, weave_reclaim_newer(b) PROVE Goal
  BY <1>24 DEF weave_reclaim_newer, WalkStep, pageVars, linkVars, lockVars, workVars
<1>25. ASSUME NEW b \in Backends, weave_reclaim_stranded(b) PROVE Goal
  BY <1>25
  DEF weave_reclaim_stranded, WalkStep, weave_free_page, linkVars, lockVars, workVars
<1>26. ASSUME NEW b \in Backends, weave_reclaim_contended(b) PROVE Goal
  BY <1>26 DEF weave_reclaim_contended, WalkStep, pageVars, linkVars, lockVars, workVars
<1>27. ASSUME NEW b \in Backends, weave_reclaim_end(b) PROVE Goal
  BY <1>27 DEF weave_reclaim_end, Goto, pageVars, linkVars, lockVars, workVars
<1>28. ASSUME NEW b \in Backends, weave_truncate_free_tail(b) PROVE Goal
  BY <1>28 DEF weave_truncate_free_tail, Goto, linkVars, workVars, walkVars
<1>29. ASSUME NEW b \in Backends, weave_truncate_skip(b) PROVE Goal
  BY <1>29 DEF weave_truncate_skip, Goto, pageVars, linkVars, workVars, walkVars
<1>30. ASSUME NEW b \in Backends, NEW p \in Blocks, weave_alloc_contended(b, p) PROVE Goal
  BY <1>30 DEF weave_alloc_contended, linkVars, lockVars, workVars, walkVars
<1>31. ASSUME NEW b \in Backends, Abandon(b) PROVE Goal
  BY <1>31 DEF Abandon, Rest, Goto, pageVars, linkVars
<1>32. ASSUME NEW b \in Backends, AbandonExtended(b) PROVE Goal
  BY <1>32 DEF AbandonExtended, Rest, Goto, linkVars
<1>33. ASSUME Crash PROVE Goal
  BY <1>33 DEF Crash, linkVars
<1>34. ASSUME NEW s \in Scans, weave_scan_begin(s) PROVE Goal
  BY <1>34 DEF weave_scan_begin, pageVars, linkVars, lockVars, workVars, walkVars
<1>35. ASSUME NEW s \in Scans, weave_scan_end(s) PROVE Goal
  BY <1>35 DEF weave_scan_end, linkVars, lockVars, workVars, walkVars
<1>36. CASE UNCHANGED vars
  BY <1>36 DEF vars
<1> QED
  BY <1>1, <1>2, <1>3, <1>4, <1>5, <1>6, <1>7, <1>8, <1>9, <1>10, <1>11, <1>12,
     <1>13, <1>14, <1>15, <1>16, <1>17, <1>18, <1>19, <1>20, <1>21, <1>22, <1>23,
     <1>24, <1>25, <1>26, <1>27, <1>28, <1>29, <1>30, <1>31, <1>32, <1>33, <1>34, <1>35, <1>36
  DEF Next, UndisturbedNext, SessionStep, WriteStep, VacuumStep, ScanStep

-----------------------------------------------------------------------------
(* Pages *)

\* A page the allocator may take is nobody's.
LEMMA FreshPage ==
    ASSUME PInv, NEW p \in Blocks, p > nblocks \/ weave_page_recyclable(p)
    PROVE  /\ p \notin linked
           /\ \A c \in Backends : p \notin Unlinked(c)
           /\ \A c \in Backends : pc[c] = "free" => p \notin old[c]
           /\ \A s \in Scans : p \notin snap[s]
<1>1. p > nblocks \/ page[p] = "new" \/ (page[p] = "freed" /\ hold[p] = {})
  BY DEF weave_page_recyclable
<1>2. p \in Int /\ nblocks \in Int
  BY DEF PInv, PageTypeOK, Blocks
<1>3. p \notin linked /\ \A c \in Backends : p \notin Unlinked(c)
  BY <1>1, <1>2 DEF PInv, NoPageStolen
<1>4. \A c \in Backends : pc[c] = "free" => p \notin old[c]
  BY <1>1, <1>2 DEF PInv, OldInv
<1>5. \A s \in Scans : p \notin snap[s]
  BY <1>1, <1>2 DEF PInv, SnapInv
<1> QED
  BY <1>3, <1>4, <1>5

\* An allocated page was nobody's, and all the others are as they were.
Fresh(p) ==
    /\ p \notin linked
    /\ \A c \in Backends : p \notin Unlinked(c)
    /\ \A c \in Backends : pc[c] = "free" => p \notin old[c]
    /\ \A s \in Scans : p \notin snap[s]
    /\ nblocks \in Int /\ nblocks' \in Int /\ p <= nblocks' /\ nblocks <= nblocks'
    /\ page' = [page EXCEPT ![p] = "used"]
    /\ \A q \in Blocks : q <= nblocks /\ page[q] = "used" => q <= nblocks' /\ page'[q] = "used"
    /\ page'[p] = "used"
    /\ young' = young \cup {p}
    /\ hold' = [hold EXCEPT ![p] = {}]
    /\ reused' = [s \in Scans |-> IF p \in snap[s] THEN reused[s] \cup {p} ELSE reused[s]]

\* Whatever the candidates, an allocation takes a page that is nobody's.
LEMMA Allocated ==
    ASSUME PInv, NEW p \in Blocks, NEW C \in SUBSET Blocks, weave_new_buffer(p, C)
    PROVE  Fresh(p)
<1>0. PageTypeOK /\ MaxBlocks \in Nat
  BY BlocksAssumption DEF PInv
<1>1. /\ p \notin linked
      /\ \A c \in Backends : p \notin Unlinked(c)
      /\ \A c \in Backends : pc[c] = "free" => p \notin old[c]
      /\ \A s \in Scans : p \notin snap[s]
  BY <1>0, NewBufferFacts, FreshPage
<1>2. /\ nblocks' \in 0..MaxBlocks /\ p <= nblocks' /\ nblocks <= nblocks'
      /\ page' = [page EXCEPT ![p] = "used"]
      /\ young' = young \cup {p}
      /\ hold' = [hold EXCEPT ![p] = {}]
      /\ reused' = [s \in Scans |-> IF p \in snap[s] THEN reused[s] \cup {p} ELSE reused[s]]
  BY <1>0, NewBufferFacts
<1>3. nblocks \in Int /\ nblocks' \in Int
  BY <1>0, <1>2 DEF PageTypeOK
<1>4. /\ \A q \in Blocks : q <= nblocks /\ page[q] = "used" => q <= nblocks' /\ page'[q] = "used"
      /\ page'[p] = "used"
  <2>1. page \in [Blocks -> {"absent", "new", "used", "freed"}] /\ Blocks \subseteq Int
    BY <1>0 DEF PageTypeOK, Blocks
  <2> QED
    BY <1>2, <1>3, <2>1
<1> QED
  BY <1>1, <1>2, <1>3, <1>4 DEF Fresh

\* Every step keeps the recycle gate: a page a scan may visit is where it was, or
\* freed under a stamp that the scan's snapshot holds back.
LEMMA SnapInductive == PInv /\ [Next]_vars => SnapInv' /\ ScanUndisturbed'
<1> SUFFICES ASSUME PInv, [Next]_vars PROVE SnapInv' /\ ScanUndisturbed'
  OBVIOUS
<1> DEFINE Goal == SnapInv' /\ ScanUndisturbed'
<1>0. /\ nblocks \in 0..MaxBlocks
      /\ page \in [Blocks -> {"absent", "new", "used", "freed"}]
      /\ hold \in [Blocks -> SUBSET Scans]
      /\ snap \in [Scans -> SUBSET Blocks]
      /\ reused \in [Scans -> SUBSET Blocks]
      /\ linked \in SUBSET Blocks
      /\ \A p \in linked : p <= nblocks /\ page[p] = "used"
      /\ SnapInv /\ ScanUndisturbed
  BY DEF PInv, PageTypeOK, NoPageStolen, linked
<1>a. Blocks \in SUBSET Int
  BY DEF Blocks
<1> USE <1>0, <1>a DEF SnapInv, ScanUndisturbed
<1>1. ASSUME NEW p \in Blocks, weave_insert(p) PROVE Goal
  <2>1. weave_new_buffer(p, fsm) /\ fsm \in SUBSET Blocks
    BY <1>1 DEF weave_insert, PInv, PageTypeOK
  <2>2. Fresh(p)
    BY <2>1, Allocated
  <2> QED
    BY <1>1, <2>2 DEF weave_insert, lockVars, workVars, walkVars, Fresh
<1>2. ASSUME NEW b \in Backends, weave_segwrite_lock(b) PROVE Goal
  BY <1>2 DEF weave_segwrite_lock, Goto, pageVars, linkVars, workVars, walkVars
<1>3. ASSUME NEW b \in Backends, weave_reclaim_fence(b) PROVE Goal
  BY <1>3 DEF weave_reclaim_fence, Vacuuming, Goto, linkVars, lockVars, workVars, walkVars
<1>4. ASSUME NEW b \in Backends, NEW S \in SUBSET bolts, weave_merge_selected(b, S) PROVE Goal
  BY <1>4 DEF weave_merge_selected, Goto, pageVars, linkVars, lockVars, walkVars
<1>5. ASSUME NEW b \in Backends, NEW p \in Blocks, weave_write_segment(b, p) PROVE Goal
  <2>1. weave_new_buffer(p, fsm) /\ fsm \in SUBSET Blocks
    BY <1>5 DEF weave_write_segment, PInv, PageTypeOK
  <2>2. Fresh(p)
    BY <2>1, Allocated
  <2> QED
    BY <1>5, <2>2 DEF weave_write_segment, Goto, linkVars, lockVars, walkVars, Fresh
<1>6. ASSUME NEW b \in Backends, weave_publish(b) PROVE Goal
  BY <1>6 DEF weave_publish, Goto, pageVars, walkVars
<1>7. ASSUME NEW b \in Backends, weave_add_segment_with_room(b) PROVE Goal
  BY <1>7 DEF weave_add_segment_with_room, Goto, pageVars, linkVars, workVars, walkVars
<1>8. ASSUME NEW b \in Backends, weave_flush_pending(b) PROVE Goal
  BY <1>8 DEF weave_flush_pending, Goto, pageVars, linkVars, lockVars, walkVars
<1>9. ASSUME NEW b \in Backends, NEW K \in SUBSET cut[b], weave_flush_add_and_cut(b, K) PROVE Goal
  BY <1>9 DEF weave_flush_add_and_cut, Goto, pageVars, lockVars, walkVars
<1>10. ASSUME NEW b \in Backends, NEW p \in Blocks, weave_merge_write(b, p) PROVE Goal
  <2>1. weave_new_buffer(p, low[b]) /\ low[b] \in SUBSET Blocks
    BY <1>10 DEF weave_merge_write, PInv, PageTypeOK
  <2>2. Fresh(p)
    BY <2>1, Allocated
  <2> QED
    BY <1>10, <2>2 DEF weave_merge_write, Goto, linkVars, lockVars, walkVars, Fresh
<1>11. ASSUME NEW b \in Backends, weave_merge_commit(b) PROVE Goal
  BY <1>11 DEF weave_merge_commit, Goto, pageVars, lockVars, walkVars
<1>12. ASSUME NEW b \in Backends, NEW p \in Blocks, weave_free_segment(b, p) PROVE Goal
  BY <1>12 DEF weave_free_segment, weave_free_page, linkVars, lockVars, walkVars
<1>13. ASSUME NEW b \in Backends, weave_free_end(b) PROVE Goal
  BY <1>13 DEF weave_free_end, Goto, pageVars, linkVars, lockVars, workVars, walkVars
<1>14. ASSUME NEW b \in Backends, weave_merge_end(b) PROVE Goal
  BY <1>14 DEF weave_merge_end, Goto, pageVars, linkVars, workVars, walkVars
<1>15. ASSUME NEW b \in Backends, weave_no_space(b) PROVE Goal
  BY <1>15 DEF weave_no_space, Rest, Goto, pageVars, linkVars
<1>16. ASSUME NEW b \in Backends, weave_no_room(b) PROVE Goal
  BY <1>16 DEF weave_no_room, Rest, Goto, pageVars, linkVars
<1>17. ASSUME NEW b \in Backends, weave_segwrite_barrier(b) PROVE Goal
  BY <1>17
  DEF weave_segwrite_barrier, Goto, pageVars, linkVars, lockVars, workVars, walkVars
<1>18. ASSUME NEW b \in Backends, weave_segwrite_barrier_granted(b) PROVE Goal
  BY <1>18
  DEF weave_segwrite_barrier_granted, Goto, pageVars, linkVars, lockVars, workVars, walkVars
<1>19. ASSUME NEW b \in Backends, weave_maintenance_lock(b) PROVE Goal
  BY <1>19 DEF weave_maintenance_lock, Goto, pageVars, linkVars, workVars, walkVars
<1>20. ASSUME NEW b \in Backends, weave_reclaim_meta(b) PROVE Goal
  BY <1>20 DEF weave_reclaim_meta, Goto, pageVars, linkVars, lockVars, workVars
<1>21. ASSUME NEW b \in Backends, weave_reach_map(b) PROVE Goal
  BY <1>21 DEF weave_reach_map, Goto, pageVars, linkVars, lockVars, workVars
<1>22. ASSUME NEW b \in Backends, weave_reclaim_reachable(b) PROVE Goal
  BY <1>22 DEF weave_reclaim_reachable, WalkStep, linkVars, lockVars, workVars
<1>23. ASSUME NEW b \in Backends, weave_reclaim_record(b) PROVE Goal
  BY <1>23 DEF weave_reclaim_record, WalkStep, linkVars, lockVars, workVars
<1>24. ASSUME NEW b \in Backends, weave_reclaim_newer(b) PROVE Goal
  BY <1>24 DEF weave_reclaim_newer, WalkStep, pageVars, linkVars, lockVars, workVars
<1>25. ASSUME NEW b \in Backends, weave_reclaim_stranded(b) PROVE Goal
  BY <1>25
  DEF weave_reclaim_stranded, WalkStep, weave_free_page, linkVars, lockVars, workVars
<1>26. ASSUME NEW b \in Backends, weave_reclaim_contended(b) PROVE Goal
  BY <1>26 DEF weave_reclaim_contended, WalkStep, pageVars, linkVars, lockVars, workVars
<1>27. ASSUME NEW b \in Backends, weave_reclaim_end(b) PROVE Goal
  BY <1>27 DEF weave_reclaim_end, Goto, pageVars, linkVars, lockVars, workVars
<1>28. ASSUME NEW b \in Backends, weave_truncate_free_tail(b) PROVE Goal
  BY <1>28 DEF weave_truncate_free_tail, Goto, linkVars, workVars, walkVars
<1>29. ASSUME NEW b \in Backends, weave_truncate_skip(b) PROVE Goal
  BY <1>29 DEF weave_truncate_skip, Goto, pageVars, linkVars, workVars, walkVars
<1>30. ASSUME NEW b \in Backends, NEW p \in Blocks, weave_alloc_contended(b, p) PROVE Goal
  BY <1>30 DEF weave_alloc_contended, linkVars, lockVars, workVars, walkVars
<1>31. ASSUME NEW b \in Backends, Abandon(b) PROVE Goal
  BY <1>31 DEF Abandon, Rest, Goto, pageVars, linkVars
<1>32. ASSUME NEW b \in Backends, AbandonExtended(b) PROVE Goal
  BY <1>32 DEF AbandonExtended, Rest, Goto, linkVars
<1>33. ASSUME Crash PROVE Goal
  BY <1>33 DEF Crash, linkVars
<1>34. ASSUME NEW s \in Scans, weave_scan_begin(s) PROVE Goal
  BY <1>34 DEF weave_scan_begin, pageVars, linkVars, lockVars, workVars, walkVars
<1>35. ASSUME NEW s \in Scans, weave_scan_end(s) PROVE Goal
  BY <1>35 DEF weave_scan_end, linkVars, lockVars, workVars, walkVars
<1>36. CASE UNCHANGED vars
  BY <1>36 DEF vars
<1> QED
  BY <1>1, <1>2, <1>3, <1>4, <1>5, <1>6, <1>7, <1>8, <1>9, <1>10, <1>11, <1>12,
     <1>13, <1>14, <1>15, <1>16, <1>17, <1>18, <1>19, <1>20, <1>21, <1>22, <1>23,
     <1>24, <1>25, <1>26, <1>27, <1>28, <1>29, <1>30, <1>31, <1>32, <1>33, <1>34, <1>35, <1>36
  DEF Next, UndisturbedNext, SessionStep, WriteStep, VacuumStep, ScanStep

\* Every step leaves the pages that are linked or about to be alone.
LEMMA PagesInductive == PInv /\ [Next]_vars => NoPageStolen'
<1> SUFFICES ASSUME PInv, [Next]_vars PROVE NoPageStolen'
  OBVIOUS
<1> DEFINE Goal == NoPageStolen'
<1>0. /\ nblocks \in 0..MaxBlocks
      /\ page \in [Blocks -> {"absent", "new", "used", "freed"}]
      /\ young \in SUBSET Blocks
      /\ bolts \in SUBSET Blocks /\ pendp \in SUBSET Blocks
      /\ segwrite \in SUBSET Backends
      /\ pc \in [Backends -> PLabels]
      /\ out \in [Backends -> Blocks \cup {NoBlock}]
      /\ merged \in [Backends -> Blocks \cup {NoBlock}]
      /\ cut \in [Backends -> SUBSET Blocks]
      /\ old \in [Backends -> SUBSET Blocks]
      /\ LockInv /\ WorkInv /\ OldInv /\ FenceInv /\ NoPageStolen
  BY DEF PInv, PageTypeOK
<1>a. Blocks \in SUBSET Int /\ NoBlock \notin Blocks
  BY DEF Blocks, NoBlock
<1>b. \A c \in Backends : Unlinked(c) \subseteq Blocks
  BY <1>0 DEF Unlinked
<1> USE <1>0, <1>a, <1>b DEF NoPageStolen, Unlinked, linked
<1>1. ASSUME NEW p \in Blocks, weave_insert(p) PROVE Goal
  <2>1. weave_new_buffer(p, fsm) /\ fsm \in SUBSET Blocks
    BY <1>1 DEF weave_insert, PInv, PageTypeOK
  <2>2. Fresh(p)
    BY <2>1, Allocated
  <2>3. \A c \in Backends : Unlinked(c)' = Unlinked(c)
    BY <1>1 DEF weave_insert, lockVars, workVars, walkVars
  <2> HIDE DEF Unlinked
  <2>4. \A c \in Backends : \A q \in Unlinked(c) : q # p
    BY <2>2 DEF Fresh
  <2>5. nblocks <= nblocks' /\ \A q \in Blocks : page[q] = "used" => page'[q] = "used"
    BY <2>2 DEF Fresh
  <2>a. /\ \A q \in linked' : q <= nblocks' /\ page'[q] = "used"
        /\ bolts' \cap pendp' = {}
    BY <1>1, <2>2, <2>3, <2>4, <2>5 DEF weave_insert, lockVars, workVars, walkVars, Fresh
  <2>b. ASSUME NEW c \in Backends, NEW q \in Unlinked(c)'
        PROVE  q <= nblocks' /\ page'[q] = "used" /\ q \notin linked'
    <3>1. q \in Unlinked(c)
      BY <2>3
    <3>2. \A r \in Unlinked(c) : r \in Blocks /\ r <= nblocks /\ page[r] = "used" /\ r \notin linked
      OBVIOUS
    <3> QED
      BY <3>1, <3>2, <1>1, <2>2, <2>3, <2>4, <2>5
      DEF weave_insert, lockVars, workVars, walkVars, Fresh
  <2>c. \A c, d \in Backends : c # d => Unlinked(c)' \cap Unlinked(d)' = {}
    BY <1>1, <2>2, <2>3, <2>4, <2>5 DEF weave_insert, lockVars, workVars, walkVars, Fresh
  <2>d. \A c \in Backends : out'[c] # NoBlock => out'[c] # merged'[c]
    BY <1>1, <2>2, <2>3, <2>4, <2>5
    DEF weave_insert, lockVars, workVars, walkVars, Fresh, Unlinked
  <2> QED
    BY <2>a, <2>b, <2>c, <2>d
<1>2. ASSUME NEW b \in Backends, weave_segwrite_lock(b) PROVE Goal
  BY <1>2 DEF weave_segwrite_lock, Goto, pageVars, linkVars, workVars, walkVars
<1>3. ASSUME NEW b \in Backends, weave_reclaim_fence(b) PROVE Goal
  BY <1>3 DEF weave_reclaim_fence, Vacuuming, Goto, linkVars, lockVars, workVars, walkVars
<1>4. ASSUME NEW b \in Backends, NEW S \in SUBSET bolts, weave_merge_selected(b, S) PROVE Goal
  BY <1>4 DEF weave_merge_selected, Goto, pageVars, linkVars, lockVars, walkVars
<1>5. ASSUME NEW b \in Backends, NEW p \in Blocks, weave_write_segment(b, p) PROVE Goal
  <2>1. weave_new_buffer(p, fsm) /\ fsm \in SUBSET Blocks
    BY <1>5 DEF weave_write_segment, PInv, PageTypeOK
  <2>2. Fresh(p)
    BY <2>1, Allocated
  <2>3. \A c \in Backends : Unlinked(c)' = IF c = b THEN {p} ELSE Unlinked(c)
    BY <1>5
    DEF weave_write_segment, Goto, linkVars, lockVars, walkVars, WorkInv, MergeLabels
  <2> HIDE DEF Unlinked
  <2>a. /\ \A q \in linked' : q <= nblocks' /\ page'[q] = "used"
        /\ bolts' \cap pendp' = {}
    BY <1>5, <2>2, <2>3 DEF weave_write_segment, Goto, linkVars, lockVars, walkVars, Fresh
  <2>b. ASSUME NEW c \in Backends, NEW q \in Unlinked(c)'
        PROVE  q <= nblocks' /\ page'[q] = "used" /\ q \notin linked'
    <3>1. q \in Unlinked(c) \/ q = p
      BY <2>3
    <3>2. \A r \in Unlinked(c) : r \in Blocks /\ r <= nblocks /\ page[r] = "used" /\ r \notin linked
      OBVIOUS
    <3> QED
      BY <3>1, <3>2, <1>5, <2>2, <2>3
      DEF weave_write_segment, Goto, linkVars, lockVars, walkVars, Fresh
  <2>c. \A c, d \in Backends : c # d => Unlinked(c)' \cap Unlinked(d)' = {}
    BY <1>5, <2>2, <2>3 DEF weave_write_segment, Goto, linkVars, lockVars, walkVars, Fresh
  <2>d. \A c \in Backends : out'[c] # NoBlock => out'[c] # merged'[c]
    BY <1>5, <2>2, <2>3
    DEF weave_write_segment, Goto, linkVars, lockVars, walkVars, Fresh, Unlinked
  <2> QED
    BY <2>a, <2>b, <2>c, <2>d
<1>6. ASSUME NEW b \in Backends, weave_publish(b) PROVE Goal
  <2>1. out[b] \in Blocks /\ merged[b] = NoBlock
    BY <1>6 DEF weave_publish, WorkInv
  <2>2. Unlinked(b)' = {} /\ Unlinked(b) = {out[b]}
    BY <1>6, <2>1 DEF weave_publish, Goto, pageVars, walkVars
  <2>3. \A c \in Backends \ {b} : Unlinked(c)' = Unlinked(c)
    BY <1>6 DEF weave_publish, Goto, pageVars, walkVars
  <2> HIDE DEF Unlinked
  <2>a. /\ \A q \in linked' : q <= nblocks' /\ page'[q] = "used"
        /\ bolts' \cap pendp' = {}
    BY <1>6, <2>1, <2>2, <2>3 DEF weave_publish, Goto, pageVars, walkVars
  <2>b. ASSUME NEW c \in Backends, NEW q \in Unlinked(c)'
        PROVE  q <= nblocks' /\ page'[q] = "used" /\ q \notin linked'
    <3>1. q \in Unlinked(c)
      BY <2>2, <2>3
    <3>2. \A r \in Unlinked(c) : r \in Blocks /\ r <= nblocks /\ page[r] = "used" /\ r \notin linked
      OBVIOUS
    <3> QED
      BY <3>1, <3>2, <1>6, <2>1, <2>2, <2>3 DEF weave_publish, Goto, pageVars, walkVars
  <2>c. \A c, d \in Backends : c # d => Unlinked(c)' \cap Unlinked(d)' = {}
    BY <1>6, <2>1, <2>2, <2>3 DEF weave_publish, Goto, pageVars, walkVars
  <2>d. \A c \in Backends : out'[c] # NoBlock => out'[c] # merged'[c]
    BY <1>6, <2>1, <2>2, <2>3 DEF weave_publish, Goto, pageVars, walkVars, Unlinked
  <2> QED
    BY <2>a, <2>b, <2>c, <2>d
<1>7. ASSUME NEW b \in Backends, weave_add_segment_with_room(b) PROVE Goal
  BY <1>7 DEF weave_add_segment_with_room, Goto, pageVars, linkVars, workVars, walkVars
<1>8. ASSUME NEW b \in Backends, weave_flush_pending(b) PROVE Goal
  BY <1>8 DEF weave_flush_pending, Goto, pageVars, linkVars, lockVars, walkVars
<1>9. ASSUME NEW b \in Backends, NEW K \in SUBSET cut[b], weave_flush_add_and_cut(b, K) PROVE Goal
  <2>1. out[b] \in Blocks /\ merged[b] = NoBlock
    BY <1>9 DEF weave_flush_add_and_cut, WorkInv
  <2>2. Unlinked(b)' = {} /\ Unlinked(b) = {out[b]}
    BY <1>9, <2>1 DEF weave_flush_add_and_cut, Goto, pageVars, lockVars, walkVars
  <2>3. \A c \in Backends \ {b} : Unlinked(c)' = Unlinked(c)
    BY <1>9 DEF weave_flush_add_and_cut, Goto, pageVars, lockVars, walkVars
  <2> HIDE DEF Unlinked
  <2>a. /\ \A q \in linked' : q <= nblocks' /\ page'[q] = "used"
        /\ bolts' \cap pendp' = {}
    BY <1>9, <2>1, <2>2, <2>3
    DEF weave_flush_add_and_cut, Goto, pageVars, lockVars, walkVars
  <2>b. ASSUME NEW c \in Backends, NEW q \in Unlinked(c)'
        PROVE  q <= nblocks' /\ page'[q] = "used" /\ q \notin linked'
    <3>1. q \in Unlinked(c)
      BY <2>2, <2>3
    <3>2. \A r \in Unlinked(c) : r \in Blocks /\ r <= nblocks /\ page[r] = "used" /\ r \notin linked
      OBVIOUS
    <3> QED
      BY <3>1, <3>2, <1>9, <2>1, <2>2, <2>3
      DEF weave_flush_add_and_cut, Goto, pageVars, lockVars, walkVars
  <2>c. \A c, d \in Backends : c # d => Unlinked(c)' \cap Unlinked(d)' = {}
    BY <1>9, <2>1, <2>2, <2>3
    DEF weave_flush_add_and_cut, Goto, pageVars, lockVars, walkVars
  <2>d. \A c \in Backends : out'[c] # NoBlock => out'[c] # merged'[c]
    BY <1>9, <2>1, <2>2, <2>3
    DEF weave_flush_add_and_cut, Goto, pageVars, lockVars, walkVars, Unlinked
  <2> QED
    BY <2>a, <2>b, <2>c, <2>d
<1>10. ASSUME NEW b \in Backends, NEW p \in Blocks, weave_merge_write(b, p) PROVE Goal
  <2>1. weave_new_buffer(p, low[b]) /\ low[b] \in SUBSET Blocks
    BY <1>10 DEF weave_merge_write, PInv, PageTypeOK
  <2>2. Fresh(p)
    BY <2>1, Allocated
  <2>3. \A c \in Backends : Unlinked(c)' = IF c = b THEN Unlinked(c) \cup {p} ELSE Unlinked(c)
    BY <1>10 DEF weave_merge_write, Goto, linkVars, lockVars, walkVars, WorkInv
  <2> HIDE DEF Unlinked
  <2>a. /\ \A q \in linked' : q <= nblocks' /\ page'[q] = "used"
        /\ bolts' \cap pendp' = {}
    BY <1>10, <2>2, <2>3 DEF weave_merge_write, Goto, linkVars, lockVars, walkVars, Fresh
  <2>b. ASSUME NEW c \in Backends, NEW q \in Unlinked(c)'
        PROVE  q <= nblocks' /\ page'[q] = "used" /\ q \notin linked'
    <3>1. q \in Unlinked(c) \/ q = p
      BY <2>3
    <3>2. \A r \in Unlinked(c) : r \in Blocks /\ r <= nblocks /\ page[r] = "used" /\ r \notin linked
      OBVIOUS
    <3> QED
      BY <3>1, <3>2, <1>10, <2>2, <2>3
      DEF weave_merge_write, Goto, linkVars, lockVars, walkVars, Fresh
  <2>c. \A c, d \in Backends : c # d => Unlinked(c)' \cap Unlinked(d)' = {}
    BY <1>10, <2>2, <2>3 DEF weave_merge_write, Goto, linkVars, lockVars, walkVars, Fresh
  <2>d. \A c \in Backends : out'[c] # NoBlock => out'[c] # merged'[c]
    BY <1>10, <2>2, <2>3
    DEF weave_merge_write, Goto, linkVars, lockVars, walkVars, Fresh, Unlinked
  <2> QED
    BY <2>a, <2>b, <2>c, <2>d
<1>11. ASSUME NEW b \in Backends, weave_merge_commit(b) PROVE Goal
  <2>1. merged[b] \in Blocks
    BY <1>11 DEF weave_merge_commit, WorkInv
  <2>2. Unlinked(b)' = Unlinked(b) \ {merged[b]} /\ merged[b] \in Unlinked(b)
    BY <1>11, <2>1 DEF weave_merge_commit, Goto, pageVars, lockVars, walkVars
  <2>3. \A c \in Backends \ {b} : Unlinked(c)' = Unlinked(c)
    BY <1>11 DEF weave_merge_commit, Goto, pageVars, lockVars, walkVars
  <2>4. merged[b] <= nblocks /\ page[merged[b]] = "used" /\ merged[b] \notin linked
    BY <2>2
  <2>5. /\ bolts' \subseteq bolts \cup {merged[b]} /\ UNCHANGED <<nblocks, page, pendp>>
    BY <1>11 DEF weave_merge_commit, Goto, pageVars, lockVars, walkVars
  <2> HIDE DEF Unlinked
  <2>a. /\ \A q \in linked' : q <= nblocks' /\ page'[q] = "used"
        /\ bolts' \cap pendp' = {}
    BY <2>4, <2>5
  <2>b. ASSUME NEW c \in Backends, NEW q \in Unlinked(c)'
        PROVE  q <= nblocks' /\ page'[q] = "used" /\ q \notin linked'
    <3>1. q \in Unlinked(c)
      BY <2>2, <2>3
    <3>2. \A r \in Unlinked(c) : r \in Blocks /\ r <= nblocks /\ page[r] = "used" /\ r \notin linked
      OBVIOUS
    <3> QED
      BY <3>1, <3>2, <1>11, <2>1, <2>2, <2>3, <2>4, <2>5
      DEF weave_merge_commit, Goto, pageVars, lockVars, walkVars
  <2>c. \A c, d \in Backends : c # d => Unlinked(c)' \cap Unlinked(d)' = {}
    BY <1>11, <2>1, <2>2, <2>3, <2>4, <2>5
    DEF weave_merge_commit, Goto, pageVars, lockVars, walkVars
  <2>d. \A c \in Backends : out'[c] # NoBlock => out'[c] # merged'[c]
    BY <1>11, <2>1, <2>2, <2>3, <2>4, <2>5
    DEF weave_merge_commit, Goto, pageVars, lockVars, walkVars, Unlinked
  <2> QED
    BY <2>a, <2>b, <2>c, <2>d
<1>12. ASSUME NEW b \in Backends, NEW p \in Blocks, weave_free_segment(b, p) PROVE Goal
  <2>1. p \notin linked /\ \A c \in Backends : p \notin Unlinked(c)
    BY <1>12 DEF weave_free_segment, OldInv
  <2>2. page' = [page EXCEPT ![p] = "freed"]
    BY <1>12 DEF weave_free_segment, weave_free_page
  <2>3. \A c \in Backends : Unlinked(c)' = Unlinked(c)
    BY <1>12 DEF weave_free_segment, weave_free_page, linkVars, lockVars, walkVars
  <2> HIDE DEF Unlinked
  <2>a. /\ \A q \in linked' : q <= nblocks' /\ page'[q] = "used"
        /\ bolts' \cap pendp' = {}
    BY <1>12, <2>1, <2>2, <2>3
    DEF weave_free_segment, weave_free_page, linkVars, lockVars, walkVars
  <2>b. ASSUME NEW c \in Backends, NEW q \in Unlinked(c)'
        PROVE  q <= nblocks' /\ page'[q] = "used" /\ q \notin linked'
    <3>1. q \in Unlinked(c)
      BY <2>3
    <3>2. \A r \in Unlinked(c) : r \in Blocks /\ r <= nblocks /\ page[r] = "used" /\ r \notin linked
      OBVIOUS
    <3> QED
      BY <3>1, <3>2, <1>12, <2>1, <2>2, <2>3
      DEF weave_free_segment, weave_free_page, linkVars, lockVars, walkVars
  <2>c. \A c, d \in Backends : c # d => Unlinked(c)' \cap Unlinked(d)' = {}
    BY <1>12, <2>1, <2>2, <2>3
    DEF weave_free_segment, weave_free_page, linkVars, lockVars, walkVars
  <2>d. \A c \in Backends : out'[c] # NoBlock => out'[c] # merged'[c]
    BY <1>12, <2>1, <2>2, <2>3
    DEF weave_free_segment, weave_free_page, linkVars, lockVars, walkVars, Unlinked
  <2> QED
    BY <2>a, <2>b, <2>c, <2>d
<1>13. ASSUME NEW b \in Backends, weave_free_end(b) PROVE Goal
  BY <1>13 DEF weave_free_end, Goto, pageVars, linkVars, lockVars, workVars, walkVars
<1>14. ASSUME NEW b \in Backends, weave_merge_end(b) PROVE Goal
  BY <1>14 DEF weave_merge_end, Goto, pageVars, linkVars, workVars, walkVars
<1>15. ASSUME NEW b \in Backends, weave_no_space(b) PROVE Goal
  BY <1>15 DEF weave_no_space, Rest, Goto, pageVars, linkVars
<1>16. ASSUME NEW b \in Backends, weave_no_room(b) PROVE Goal
  BY <1>16 DEF weave_no_room, Rest, Goto, pageVars, linkVars
<1>17. ASSUME NEW b \in Backends, weave_segwrite_barrier(b) PROVE Goal
  BY <1>17
  DEF weave_segwrite_barrier, Goto, pageVars, linkVars, lockVars, workVars, walkVars
<1>18. ASSUME NEW b \in Backends, weave_segwrite_barrier_granted(b) PROVE Goal
  BY <1>18
  DEF weave_segwrite_barrier_granted, Goto, pageVars, linkVars, lockVars, workVars, walkVars
<1>19. ASSUME NEW b \in Backends, weave_maintenance_lock(b) PROVE Goal
  BY <1>19 DEF weave_maintenance_lock, Goto, pageVars, linkVars, workVars, walkVars
<1>20. ASSUME NEW b \in Backends, weave_reclaim_meta(b) PROVE Goal
  BY <1>20 DEF weave_reclaim_meta, Goto, pageVars, linkVars, lockVars, workVars
<1>21. ASSUME NEW b \in Backends, weave_reach_map(b) PROVE Goal
  BY <1>21 DEF weave_reach_map, Goto, pageVars, linkVars, lockVars, workVars
<1>22. ASSUME NEW b \in Backends, weave_reclaim_reachable(b) PROVE Goal
  BY <1>22 DEF weave_reclaim_reachable, WalkStep, linkVars, lockVars, workVars
<1>23. ASSUME NEW b \in Backends, weave_reclaim_record(b) PROVE Goal
  BY <1>23 DEF weave_reclaim_record, WalkStep, linkVars, lockVars, workVars
<1>24. ASSUME NEW b \in Backends, weave_reclaim_newer(b) PROVE Goal
  BY <1>24 DEF weave_reclaim_newer, WalkStep, pageVars, linkVars, lockVars, workVars
<1>25. ASSUME NEW b \in Backends, weave_reclaim_stranded(b) PROVE Goal
  <2>1. blk[b] \notin linked /\ \A c \in Backends : blk[b] \notin Unlinked(c)
    BY <1>25 DEF weave_reclaim_stranded, WalkStep, FenceInv
  <2>2. page' = [page EXCEPT ![blk[b]] = "freed"]
    BY <1>25 DEF weave_reclaim_stranded, weave_free_page
  <2>3. \A c \in Backends : Unlinked(c)' = Unlinked(c)
    BY <1>25
    DEF weave_reclaim_stranded, WalkStep, weave_free_page, linkVars, lockVars, workVars
  <2> HIDE DEF Unlinked
  <2>a. /\ \A q \in linked' : q <= nblocks' /\ page'[q] = "used"
        /\ bolts' \cap pendp' = {}
    BY <1>25, <2>1, <2>2, <2>3
    DEF weave_reclaim_stranded, WalkStep, weave_free_page, linkVars, lockVars, workVars
  <2>b. ASSUME NEW c \in Backends, NEW q \in Unlinked(c)'
        PROVE  q <= nblocks' /\ page'[q] = "used" /\ q \notin linked'
    <3>1. q \in Unlinked(c)
      BY <2>3
    <3>2. \A r \in Unlinked(c) : r \in Blocks /\ r <= nblocks /\ page[r] = "used" /\ r \notin linked
      OBVIOUS
    <3> QED
      BY <3>1, <3>2, <1>25, <2>1, <2>2, <2>3
      DEF weave_reclaim_stranded, WalkStep, weave_free_page, linkVars, lockVars, workVars
  <2>c. \A c, d \in Backends : c # d => Unlinked(c)' \cap Unlinked(d)' = {}
    BY <1>25, <2>1, <2>2, <2>3
    DEF weave_reclaim_stranded, WalkStep, weave_free_page, linkVars, lockVars, workVars
  <2>d. \A c \in Backends : out'[c] # NoBlock => out'[c] # merged'[c]
    BY <1>25, <2>1, <2>2, <2>3
    DEF weave_reclaim_stranded, WalkStep, weave_free_page, linkVars, lockVars, workVars, Unlinked
  <2> QED
    BY <2>a, <2>b, <2>c, <2>d
<1>26. ASSUME NEW b \in Backends, weave_reclaim_contended(b) PROVE Goal
  BY <1>26 DEF weave_reclaim_contended, WalkStep, pageVars, linkVars, lockVars, workVars
<1>27. ASSUME NEW b \in Backends, weave_reclaim_end(b) PROVE Goal
  BY <1>27 DEF weave_reclaim_end, Goto, pageVars, linkVars, lockVars, workVars
<1>28. ASSUME NEW b \in Backends, weave_truncate_free_tail(b) PROVE Goal
  <2>1. \A c \in Backends : Unlinked(c) = {} /\ Unlinked(c)' = {} /\ out'[c] = NoBlock
    BY <1>28
    DEF weave_truncate_free_tail, Goto, linkVars, workVars, walkVars, WorkInv, MergeLabels
  <2>2. \A p \in linked : p <= nblocks' /\ page'[p] = "used"
    <3>1. PICK n \in 0..nblocks :
             /\ FreeTail(n) /\ nblocks' = n
             /\ page' = [p \in Blocks |-> IF p > n THEN "absent" ELSE page[p]]
      BY <1>28 DEF weave_truncate_free_tail
    <3>2. \A p \in linked : p \in Blocks /\ p \in Int /\ n \in Int /\ nblocks \in Int
      OBVIOUS
    <3>3. ASSUME NEW p \in linked PROVE p <= n
      <4>1. SUFFICES ASSUME p > n PROVE FALSE
        BY <3>2
      <4>2. p \in (n + 1)..nblocks /\ page[p] = "used"
        BY <3>2, <4>1
      <4> QED
        BY <3>1, <4>2 DEF FreeTail
    <3> QED
      BY <3>1, <3>2, <3>3
  <2> QED
    BY <1>28, <2>1, <2>2 DEF weave_truncate_free_tail, Goto, linkVars, workVars, walkVars
<1>29. ASSUME NEW b \in Backends, weave_truncate_skip(b) PROVE Goal
  BY <1>29 DEF weave_truncate_skip, Goto, pageVars, linkVars, workVars, walkVars
<1>30. ASSUME NEW b \in Backends, NEW p \in Blocks, weave_alloc_contended(b, p) PROVE Goal
  BY <1>30 DEF weave_alloc_contended, linkVars, lockVars, workVars, walkVars
<1>31. ASSUME NEW b \in Backends, Abandon(b) PROVE Goal
  BY <1>31 DEF Abandon, Rest, Goto, pageVars, linkVars
<1>32. ASSUME NEW b \in Backends, AbandonExtended(b) PROVE Goal
  BY <1>32 DEF AbandonExtended, Rest, Goto, linkVars
<1>33. ASSUME Crash PROVE Goal
  BY <1>33 DEF Crash, linkVars
<1>34. ASSUME NEW s \in Scans, weave_scan_begin(s) PROVE Goal
  BY <1>34 DEF weave_scan_begin, pageVars, linkVars, lockVars, workVars, walkVars
<1>35. ASSUME NEW s \in Scans, weave_scan_end(s) PROVE Goal
  BY <1>35 DEF weave_scan_end, linkVars, lockVars, workVars, walkVars
<1>36. CASE UNCHANGED vars
  BY <1>36 DEF vars
<1> QED
  BY <1>1, <1>2, <1>3, <1>4, <1>5, <1>6, <1>7, <1>8, <1>9, <1>10, <1>11, <1>12,
     <1>13, <1>14, <1>15, <1>16, <1>17, <1>18, <1>19, <1>20, <1>21, <1>22, <1>23,
     <1>24, <1>25, <1>26, <1>27, <1>28, <1>29, <1>30, <1>31, <1>32, <1>33, <1>34, <1>35, <1>36
  DEF Next, UndisturbedNext, SessionStep, WriteStep, VacuumStep, ScanStep

\* A session with the mutex is the only one that merges; when it is VACUUM, every
\* other VACUUM's session is idle and has nothing in hand.
LEMMA Alone ==
    ASSUME LockInv, WorkInv, mutex \in Backends \cup {NoBackend}, segwrite \in SUBSET Backends,
           NEW b \in Backends, pc[b] # "idle"
    PROVE  /\ mutex = b => \A c \in Backends \ {b} : pc[c] \notin MergeLabels
           /\ b \notin segwrite =>
                \A c \in (Backends \ segwrite) \ {b} :
                    pc[c] = "idle" /\ cut[c] = {} /\ Unlinked(c) = {}
<1>1. mutex = b => \A c \in Backends \ {b} : pc[c] \notin MergeLabels
  BY DEF LockInv, VacuumLabels
<1>2. ASSUME b \notin segwrite, NEW c \in (Backends \ segwrite) \ {b} PROVE pc[c] = "idle"
  BY <1>2 DEF LockInv
<1>3. ASSUME NEW c \in Backends \ segwrite, pc[c] = "idle" PROVE cut[c] = {} /\ Unlinked(c) = {}
  BY <1>3 DEF WorkInv, MergeLabels, Unlinked
<1> QED
  BY <1>1, <1>2, <1>3


\* Every step keeps what a session has read linked, and what it has unlinked nobody's.
LEMMA OldInductive == PInv /\ [Next]_vars => OldInv'
<1> SUFFICES ASSUME PInv, [Next]_vars PROVE OldInv'
  OBVIOUS
<1> DEFINE Goal == OldInv'
<1>0. /\ nblocks \in 0..MaxBlocks
      /\ page \in [Blocks -> {"absent", "new", "used", "freed"}]
      /\ young \in SUBSET Blocks
      /\ bolts \in SUBSET Blocks /\ pendp \in SUBSET Blocks
      /\ segwrite \in SUBSET Backends
      /\ pc \in [Backends -> PLabels]
      /\ out \in [Backends -> Blocks \cup {NoBlock}]
      /\ merged \in [Backends -> Blocks \cup {NoBlock}]
      /\ cut \in [Backends -> SUBSET Blocks]
      /\ old \in [Backends -> SUBSET Blocks]
      /\ LockInv /\ WorkInv /\ OldInv /\ FenceInv /\ NoPageStolen
  BY DEF PInv, PageTypeOK
<1>a. Blocks \in SUBSET Int /\ NoBlock \notin Blocks
  BY DEF Blocks, NoBlock
<1>c. mutex \in Backends \cup {NoBackend}
  BY DEF PInv, PageTypeOK
<1> USE <1>0, <1>a, <1>c DEF OldInv, Unlinked, linked
<1>1. ASSUME NEW p \in Blocks, weave_insert(p) PROVE Goal
  <2>1. weave_new_buffer(p, fsm) /\ fsm \in SUBSET Blocks
    BY <1>1 DEF weave_insert, PInv, PageTypeOK
  <2>2. Fresh(p)
    BY <2>1, Allocated
  <2>3. \A c \in Backends : Unlinked(c)' = Unlinked(c)
    BY <1>1 DEF weave_insert, lockVars, workVars, walkVars
  <2>4. \A c \in Backends : pc[c] = "free" =>
            \A r \in old[c] : r # p /\ r <= nblocks' /\ page'[r] = "used" /\ r \notin linked
    <3>1. ASSUME NEW c \in Backends, pc[c] = "free", NEW r \in old[c]
          PROVE  r # p /\ r <= nblocks' /\ page'[r] = "used" /\ r \notin linked
      <4>1. r \in Blocks /\ r <= nblocks /\ page[r] = "used" /\ r \notin linked
        BY <3>1
      <4> HIDE DEF OldInv, Unlinked, linked
      <4> QED
        BY <2>2, <3>1, <4>1 DEF Fresh
    <3> QED
      BY <3>1
  <2> HIDE DEF Unlinked
  <2> QED
    BY <1>1, <2>2, <2>3, <2>4 DEF weave_insert, lockVars, workVars, walkVars
<1>2. ASSUME NEW b \in Backends, weave_segwrite_lock(b) PROVE Goal
  BY <1>2 DEF weave_segwrite_lock, Goto, pageVars, linkVars, workVars, walkVars
<1>3. ASSUME NEW b \in Backends, weave_reclaim_fence(b) PROVE Goal
  BY <1>3 DEF weave_reclaim_fence, Vacuuming, Goto, linkVars, lockVars, workVars, walkVars
<1>4. ASSUME NEW b \in Backends, NEW S \in SUBSET bolts, weave_merge_selected(b, S) PROVE Goal
  BY <1>4 DEF weave_merge_selected, Goto, pageVars, linkVars, lockVars, walkVars
<1>5. ASSUME NEW b \in Backends, NEW p \in Blocks, weave_write_segment(b, p) PROVE Goal
  <2>1. weave_new_buffer(p, fsm) /\ fsm \in SUBSET Blocks
    BY <1>5 DEF weave_write_segment, PInv, PageTypeOK
  <2>2. Fresh(p)
    BY <2>1, Allocated
  <2> QED
    BY <1>5, <2>2 DEF weave_write_segment, Goto, linkVars, lockVars, walkVars, Fresh
<1>6. ASSUME NEW b \in Backends, weave_publish(b) PROVE Goal
  BY <1>6 DEF weave_publish, Goto, pageVars, walkVars
<1>7. ASSUME NEW b \in Backends, weave_add_segment_with_room(b) PROVE Goal
  BY <1>7 DEF weave_add_segment_with_room, Goto, pageVars, linkVars, workVars, walkVars
<1>8. ASSUME NEW b \in Backends, weave_flush_pending(b) PROVE Goal
  BY <1>8 DEF weave_flush_pending, Goto, pageVars, linkVars, lockVars, walkVars
<1>9. ASSUME NEW b \in Backends, NEW K \in SUBSET cut[b], weave_flush_add_and_cut(b, K) PROVE Goal
  <2>1. /\ b \notin segwrite /\ pc[b] \in {"publish", "retry"} /\ mutex = b
        /\ out[b] \in Blocks /\ merged[b] = NoBlock
    BY <1>9 DEF weave_flush_add_and_cut, WorkInv, LockInv, VacuumLabels
  <2>2. \A c \in Backends \ {b} : pc[c] \notin MergeLabels /\ cut[c] = {}
    BY <2>1, Alone, <1>c DEF WorkInv
  <2>3. Unlinked(b)' = {} /\ Unlinked(b) = {out[b]}
    BY <1>9, <2>1 DEF weave_flush_add_and_cut, Goto, pageVars, lockVars, walkVars
  <2>4. \A c \in Backends \ {b} : Unlinked(c)' = Unlinked(c)
    BY <1>9 DEF weave_flush_add_and_cut, Goto, pageVars, lockVars, walkVars
  <2> HIDE DEF Unlinked
  <2>5. ASSUME NEW p \in old'[b]
        PROVE  /\ p <= nblocks' /\ page'[p] = "used" /\ p \notin linked'
               /\ \A c \in Backends : p \notin Unlinked(c)'
    <3>1. p \in cut[b] \ K /\ p \in pendp
      BY <1>9 DEF weave_flush_add_and_cut, Goto, pageVars, lockVars, walkVars
    <3>2. p <= nblocks /\ page[p] = "used" /\ p \notin bolts /\ \A c \in Backends : p \notin Unlinked(c)
      BY <3>1 DEF NoPageStolen
    <3>3. /\ bolts' = bolts \cup {out[b]} /\ pendp' = pendp \ (cut[b] \ K)
          /\ UNCHANGED <<nblocks, page>>
      BY <1>9 DEF weave_flush_add_and_cut, Goto, pageVars, lockVars, walkVars
    <3>4. p # out[b]
      BY <2>3, <3>2
    <3> QED
      BY <2>3, <2>4, <3>1, <3>2, <3>3, <3>4
  <2>6. /\ pc'[b] = "free" /\ cut'[b] = {}
        /\ \A c \in Backends \ {b} : pc'[c] = pc[c] /\ cut'[c] = {} /\ old'[c] = old[c]
    BY <1>9, <2>2 DEF weave_flush_add_and_cut, Goto, pageVars, lockVars, walkVars
  <2> QED
    BY <2>2, <2>5, <2>6 DEF MergeLabels
<1>10. ASSUME NEW b \in Backends, NEW p \in Blocks, weave_merge_write(b, p) PROVE Goal
  <2>1. weave_new_buffer(p, low[b]) /\ low[b] \in SUBSET Blocks
    BY <1>10 DEF weave_merge_write, PInv, PageTypeOK
  <2>2. Fresh(p)
    BY <2>1, Allocated
  <2> QED
    BY <1>10, <2>2 DEF weave_merge_write, Goto, linkVars, lockVars, walkVars, Fresh
<1>11. ASSUME NEW b \in Backends, weave_merge_commit(b) PROVE Goal
  <2>1. merged[b] \in Blocks /\ mutex = b /\ pc[b] = "merge_commit"
    BY <1>11 DEF weave_merge_commit, WorkInv, LockInv, MergeLabels, VacuumLabels
  <2>2. \A c \in Backends \ {b} : pc[c] \notin MergeLabels
    BY <2>1, Alone, <1>c
  <2>3. Unlinked(b)' \subseteq Unlinked(b) /\ merged[b] \in Unlinked(b)
    BY <1>11, <2>1 DEF weave_merge_commit, Goto, pageVars, lockVars, walkVars
  <2>4. \A c \in Backends \ {b} : Unlinked(c)' = Unlinked(c)
    BY <1>11 DEF weave_merge_commit, Goto, pageVars, lockVars, walkVars
  <2> HIDE DEF Unlinked
  <2>5. ASSUME NEW p \in old[b]
        PROVE  /\ p <= nblocks' /\ page'[p] = "used" /\ p \notin linked'
               /\ \A c \in Backends : p \notin Unlinked(c)'
    <3>1. p \in bolts
      BY <2>1
    <3>2. p <= nblocks /\ page[p] = "used" /\ p \notin pendp /\ \A c \in Backends : p \notin Unlinked(c)
      BY <3>1 DEF NoPageStolen
    <3>3. bolts' = (bolts \ old[b]) \cup {merged[b]} /\ UNCHANGED <<nblocks, page, pendp>>
      BY <1>11 DEF weave_merge_commit, Goto, pageVars, lockVars, walkVars
    <3>4. p # merged[b]
      BY <2>3, <3>2
    <3> QED
      BY <2>3, <2>4, <3>1, <3>2, <3>3, <3>4
  <2>6. /\ pc'[b] = "free" /\ UNCHANGED <<old, cut, pendp>>
        /\ \A c \in Backends \ {b} : pc'[c] = pc[c]
    BY <1>11 DEF weave_merge_commit, Goto, pageVars, lockVars, walkVars
  <2> QED
    BY <2>2, <2>5, <2>6 DEF MergeLabels
<1>12. ASSUME NEW b \in Backends, NEW p \in Blocks, weave_free_segment(b, p) PROVE Goal
  <2>1. mutex = b /\ pc[b] = "free" /\ p \in old[b]
    BY <1>12 DEF weave_free_segment, LockInv, MergeLabels, VacuumLabels
  <2>2. \A c \in Backends \ {b} : pc[c] \notin MergeLabels
    BY <2>1, Alone, <1>c
  <2>3. \A r \in Blocks \ {p} : page'[r] = page[r]
    BY <1>12 DEF weave_free_segment, weave_free_page, linkVars, lockVars, walkVars
  <2> QED
    BY <1>12, <2>1, <2>2, <2>3
    DEF weave_free_segment, weave_free_page, linkVars, lockVars, walkVars, MergeLabels
<1>13. ASSUME NEW b \in Backends, weave_free_end(b) PROVE Goal
  BY <1>13 DEF weave_free_end, Goto, pageVars, linkVars, lockVars, workVars, walkVars
<1>14. ASSUME NEW b \in Backends, weave_merge_end(b) PROVE Goal
  BY <1>14 DEF weave_merge_end, Goto, pageVars, linkVars, workVars, walkVars
<1>15. ASSUME NEW b \in Backends, weave_no_space(b) PROVE Goal
  BY <1>15 DEF weave_no_space, Rest, Goto, pageVars, linkVars
<1>16. ASSUME NEW b \in Backends, weave_no_room(b) PROVE Goal
  BY <1>16 DEF weave_no_room, Rest, Goto, pageVars, linkVars
<1>17. ASSUME NEW b \in Backends, weave_segwrite_barrier(b) PROVE Goal
  BY <1>17
  DEF weave_segwrite_barrier, Goto, pageVars, linkVars, lockVars, workVars, walkVars
<1>18. ASSUME NEW b \in Backends, weave_segwrite_barrier_granted(b) PROVE Goal
  BY <1>18
  DEF weave_segwrite_barrier_granted, Goto, pageVars, linkVars, lockVars, workVars, walkVars
<1>19. ASSUME NEW b \in Backends, weave_maintenance_lock(b) PROVE Goal
  BY <1>19 DEF weave_maintenance_lock, Goto, pageVars, linkVars, workVars, walkVars
<1>20. ASSUME NEW b \in Backends, weave_reclaim_meta(b) PROVE Goal
  BY <1>20 DEF weave_reclaim_meta, Goto, pageVars, linkVars, lockVars, workVars
<1>21. ASSUME NEW b \in Backends, weave_reach_map(b) PROVE Goal
  BY <1>21 DEF weave_reach_map, Goto, pageVars, linkVars, lockVars, workVars
<1>22. ASSUME NEW b \in Backends, weave_reclaim_reachable(b) PROVE Goal
  BY <1>22 DEF weave_reclaim_reachable, WalkStep, linkVars, lockVars, workVars
<1>23. ASSUME NEW b \in Backends, weave_reclaim_record(b) PROVE Goal
  BY <1>23 DEF weave_reclaim_record, WalkStep, linkVars, lockVars, workVars
<1>24. ASSUME NEW b \in Backends, weave_reclaim_newer(b) PROVE Goal
  BY <1>24 DEF weave_reclaim_newer, WalkStep, pageVars, linkVars, lockVars, workVars
<1>25. ASSUME NEW b \in Backends, weave_reclaim_stranded(b) PROVE Goal
  <2>1. mutex = b /\ pc[b] = "reclaim"
    BY <1>25 DEF weave_reclaim_stranded, WalkStep, LockInv, MergeLabels, VacuumLabels
  <2>2. \A c \in Backends : pc[c] \notin MergeLabels
    BY <2>1, Alone, <1>c DEF MergeLabels
  <2>3. UNCHANGED <<bolts, pendp, pc, cut, old>>
    BY <1>25
    DEF weave_reclaim_stranded, WalkStep, weave_free_page, linkVars, lockVars, workVars
  <2> QED
    BY <2>2, <2>3 DEF MergeLabels
<1>26. ASSUME NEW b \in Backends, weave_reclaim_contended(b) PROVE Goal
  BY <1>26 DEF weave_reclaim_contended, WalkStep, pageVars, linkVars, lockVars, workVars
<1>27. ASSUME NEW b \in Backends, weave_reclaim_end(b) PROVE Goal
  BY <1>27 DEF weave_reclaim_end, Goto, pageVars, linkVars, lockVars, workVars
<1>28. ASSUME NEW b \in Backends, weave_truncate_free_tail(b) PROVE Goal
  BY <1>28 DEF weave_truncate_free_tail, Goto, linkVars, workVars, walkVars
<1>29. ASSUME NEW b \in Backends, weave_truncate_skip(b) PROVE Goal
  BY <1>29 DEF weave_truncate_skip, Goto, pageVars, linkVars, workVars, walkVars
<1>30. ASSUME NEW b \in Backends, NEW p \in Blocks, weave_alloc_contended(b, p) PROVE Goal
  BY <1>30 DEF weave_alloc_contended, linkVars, lockVars, workVars, walkVars
<1>31. ASSUME NEW b \in Backends, Abandon(b) PROVE Goal
  BY <1>31 DEF Abandon, Rest, Goto, pageVars, linkVars
<1>32. ASSUME NEW b \in Backends, AbandonExtended(b) PROVE Goal
  BY <1>32 DEF AbandonExtended, Rest, Goto, linkVars
<1>33. ASSUME Crash PROVE Goal
  BY <1>33 DEF Crash, linkVars
<1>34. ASSUME NEW s \in Scans, weave_scan_begin(s) PROVE Goal
  BY <1>34 DEF weave_scan_begin, pageVars, linkVars, lockVars, workVars, walkVars
<1>35. ASSUME NEW s \in Scans, weave_scan_end(s) PROVE Goal
  BY <1>35 DEF weave_scan_end, linkVars, lockVars, workVars, walkVars
<1>36. CASE UNCHANGED vars
  BY <1>36 DEF vars
<1> QED
  BY <1>1, <1>2, <1>3, <1>4, <1>5, <1>6, <1>7, <1>8, <1>9, <1>10, <1>11, <1>12,
     <1>13, <1>14, <1>15, <1>16, <1>17, <1>18, <1>19, <1>20, <1>21, <1>22, <1>23,
     <1>24, <1>25, <1>26, <1>27, <1>28, <1>29, <1>30, <1>31, <1>32, <1>33, <1>34, <1>35, <1>36
  DEF Next, UndisturbedNext, SessionStep, WriteStep, VacuumStep, ScanStep

\* Every step keeps the pages that someone may link newer than the fence.
LEMMA FenceInductive == PInv /\ [Next]_vars => FenceInv'
<1> SUFFICES ASSUME PInv, [Next]_vars PROVE FenceInv'
  OBVIOUS
<1> DEFINE Goal == FenceInv'
<1>0. /\ nblocks \in 0..MaxBlocks
      /\ page \in [Blocks -> {"absent", "new", "used", "freed"}]
      /\ young \in SUBSET Blocks
      /\ bolts \in SUBSET Blocks /\ pendp \in SUBSET Blocks
      /\ segwrite \in SUBSET Backends
      /\ pc \in [Backends -> PLabels]
      /\ out \in [Backends -> Blocks \cup {NoBlock}]
      /\ merged \in [Backends -> Blocks \cup {NoBlock}]
      /\ cut \in [Backends -> SUBSET Blocks]
      /\ old \in [Backends -> SUBSET Blocks]
      /\ LockInv /\ WorkInv /\ OldInv /\ FenceInv /\ NoPageStolen
  BY DEF PInv, PageTypeOK
<1>a. Blocks \in SUBSET Int /\ NoBlock \notin Blocks
  BY DEF Blocks, NoBlock
<1>c. mutex \in Backends \cup {NoBackend} /\ reach \in [Backends -> SUBSET Blocks]
  BY DEF PInv, PageTypeOK
<1> USE <1>0, <1>a, <1>c DEF FenceInv, Unlinked, linked
<1>1. ASSUME NEW p \in Blocks, weave_insert(p) PROVE Goal
  <2>1. weave_new_buffer(p, fsm) /\ fsm \in SUBSET Blocks
    BY <1>1 DEF weave_insert, PInv, PageTypeOK
  <2>2. Fresh(p)
    BY <2>1, Allocated
  <2> QED
    BY <1>1, <2>2 DEF weave_insert, lockVars, workVars, walkVars, Fresh
<1>2. ASSUME NEW b \in Backends, weave_segwrite_lock(b) PROVE Goal
  BY <1>2 DEF weave_segwrite_lock, Goto, pageVars, linkVars, workVars, walkVars
<1>3. ASSUME NEW b \in Backends, weave_reclaim_fence(b) PROVE Goal
  <2>1. \A c \in Backends : pc[c] \notin {"lock", "meta", "reach", "reclaim"}
    BY <1>3 DEF weave_reclaim_fence, Vacuuming, LockInv, MergeLabels
  <2>2. pc' = [pc EXCEPT ![b] = "barrier"]
    BY <1>3 DEF weave_reclaim_fence, Goto
  <2> QED
    BY <2>1, <2>2
<1>4. ASSUME NEW b \in Backends, NEW S \in SUBSET bolts, weave_merge_selected(b, S) PROVE Goal
  BY <1>4 DEF weave_merge_selected, Goto, pageVars, linkVars, lockVars, walkVars
<1>5. ASSUME NEW b \in Backends, NEW p \in Blocks, weave_write_segment(b, p) PROVE Goal
  <2>1. weave_new_buffer(p, fsm) /\ fsm \in SUBSET Blocks
    BY <1>5 DEF weave_write_segment, PInv, PageTypeOK
  <2>2. Fresh(p)
    BY <2>1, Allocated
  <2> QED
    BY <1>5, <2>2 DEF weave_write_segment, Goto, linkVars, lockVars, walkVars, Fresh
<1>6. ASSUME NEW b \in Backends, weave_publish(b) PROVE Goal
  <2>1. out[b] \in Blocks /\ out[b] \in Unlinked(b)
    BY <1>6 DEF weave_publish, WorkInv
  <2>2. \A c \in Backends : Unlinked(c)' \subseteq Unlinked(c)
    BY <1>6 DEF weave_publish, Goto, pageVars, walkVars
  <2>3. linked' \subseteq linked \cup {out[b]} /\ UNCHANGED <<young, reach>>
    BY <1>6 DEF weave_publish, Goto, pageVars, walkVars
  <2>4. \A c \in Backends : pc'[c] \in {"lock", "meta", "reach", "reclaim"} => pc'[c] = pc[c]
    BY <1>6 DEF weave_publish, Goto
  <2> HIDE DEF Unlinked, linked
  <2> QED
    BY <2>1, <2>2, <2>3, <2>4
<1>7. ASSUME NEW b \in Backends, weave_add_segment_with_room(b) PROVE Goal
  BY <1>7 DEF weave_add_segment_with_room, Goto, pageVars, linkVars, workVars, walkVars
<1>8. ASSUME NEW b \in Backends, weave_flush_pending(b) PROVE Goal
  BY <1>8 DEF weave_flush_pending, Goto, pageVars, linkVars, lockVars, walkVars
<1>9. ASSUME NEW b \in Backends, NEW K \in SUBSET cut[b], weave_flush_add_and_cut(b, K) PROVE Goal
  <2>1. out[b] \in Blocks /\ out[b] \in Unlinked(b)
    BY <1>9 DEF weave_flush_add_and_cut, WorkInv
  <2>2. \A c \in Backends : Unlinked(c)' \subseteq Unlinked(c)
    BY <1>9 DEF weave_flush_add_and_cut, Goto, pageVars, lockVars, walkVars
  <2>3. linked' \subseteq linked \cup {out[b]} /\ UNCHANGED <<young, reach>>
    BY <1>9 DEF weave_flush_add_and_cut, Goto, pageVars, lockVars, walkVars
  <2>4. \A c \in Backends : pc'[c] \in {"lock", "meta", "reach", "reclaim"} => pc'[c] = pc[c]
    BY <1>9 DEF weave_flush_add_and_cut, Goto
  <2> HIDE DEF Unlinked, linked
  <2> QED
    BY <2>1, <2>2, <2>3, <2>4
<1>10. ASSUME NEW b \in Backends, NEW p \in Blocks, weave_merge_write(b, p) PROVE Goal
  <2>1. weave_new_buffer(p, low[b]) /\ low[b] \in SUBSET Blocks
    BY <1>10 DEF weave_merge_write, PInv, PageTypeOK
  <2>2. Fresh(p)
    BY <2>1, Allocated
  <2> QED
    BY <1>10, <2>2 DEF weave_merge_write, Goto, linkVars, lockVars, walkVars, Fresh
<1>11. ASSUME NEW b \in Backends, weave_merge_commit(b) PROVE Goal
  <2>1. merged[b] \in Blocks /\ merged[b] \in Unlinked(b)
    BY <1>11 DEF weave_merge_commit, WorkInv
  <2>2. \A c \in Backends : Unlinked(c)' \subseteq Unlinked(c)
    BY <1>11 DEF weave_merge_commit, Goto, pageVars, lockVars, walkVars
  <2>3. linked' \subseteq linked \cup {merged[b]} /\ UNCHANGED <<young, reach>>
    BY <1>11 DEF weave_merge_commit, Goto, pageVars, lockVars, walkVars
  <2>4. \A c \in Backends : pc'[c] \in {"lock", "meta", "reach", "reclaim"} => pc'[c] = pc[c]
    BY <1>11 DEF weave_merge_commit, Goto
  <2> HIDE DEF Unlinked, linked
  <2> QED
    BY <2>1, <2>2, <2>3, <2>4
<1>12. ASSUME NEW b \in Backends, NEW p \in Blocks, weave_free_segment(b, p) PROVE Goal
  BY <1>12 DEF weave_free_segment, weave_free_page, linkVars, lockVars, walkVars
<1>13. ASSUME NEW b \in Backends, weave_free_end(b) PROVE Goal
  BY <1>13 DEF weave_free_end, Goto, pageVars, linkVars, lockVars, workVars, walkVars
<1>14. ASSUME NEW b \in Backends, weave_merge_end(b) PROVE Goal
  BY <1>14 DEF weave_merge_end, Goto, pageVars, linkVars, workVars, walkVars
<1>15. ASSUME NEW b \in Backends, weave_no_space(b) PROVE Goal
  BY <1>15 DEF weave_no_space, Rest, Goto, pageVars, linkVars
<1>16. ASSUME NEW b \in Backends, weave_no_room(b) PROVE Goal
  BY <1>16 DEF weave_no_room, Rest, Goto, pageVars, linkVars
<1>17. ASSUME NEW b \in Backends, weave_segwrite_barrier(b) PROVE Goal
  BY <1>17
  DEF weave_segwrite_barrier, Goto, pageVars, linkVars, lockVars, workVars, walkVars
<1>18. ASSUME NEW b \in Backends, weave_segwrite_barrier_granted(b) PROVE Goal
  <2>1. b \notin segwrite /\ segwrite = {} /\ pc[b] = "barrier_wait"
    BY <1>18 DEF weave_segwrite_barrier_granted
  <2>2. Unlinked(b) = {}
    BY <2>1 DEF WorkInv, MergeLabels
  <2>3. \A c \in Backends \ {b} : pc[c] = "idle" /\ Unlinked(c) = {}
    BY <2>1, Alone, <1>c
  <2>4. \A c \in Backends : Unlinked(c)' = Unlinked(c)
    BY <1>18
    DEF weave_segwrite_barrier_granted, Goto, pageVars, linkVars, lockVars, workVars, walkVars
  <2>5. pc' = [pc EXCEPT ![b] = "lock"]
    BY <1>18 DEF weave_segwrite_barrier_granted, Goto
  <2> HIDE DEF Unlinked, linked
  <2> QED
    BY <2>2, <2>3, <2>4, <2>5
<1>19. ASSUME NEW b \in Backends, weave_maintenance_lock(b) PROVE Goal
  BY <1>19 DEF weave_maintenance_lock, Goto, pageVars, linkVars, workVars, walkVars
<1>20. ASSUME NEW b \in Backends, weave_reclaim_meta(b) PROVE Goal
  BY <1>20 DEF weave_reclaim_meta, Goto, pageVars, linkVars, lockVars, workVars
<1>21. ASSUME NEW b \in Backends, weave_reach_map(b) PROVE Goal
  BY <1>21 DEF weave_reach_map, Goto, pageVars, linkVars, lockVars, workVars
<1>22. ASSUME NEW b \in Backends, weave_reclaim_reachable(b) PROVE Goal
  BY <1>22 DEF weave_reclaim_reachable, WalkStep, linkVars, lockVars, workVars
<1>23. ASSUME NEW b \in Backends, weave_reclaim_record(b) PROVE Goal
  BY <1>23 DEF weave_reclaim_record, WalkStep, linkVars, lockVars, workVars
<1>24. ASSUME NEW b \in Backends, weave_reclaim_newer(b) PROVE Goal
  BY <1>24 DEF weave_reclaim_newer, WalkStep, pageVars, linkVars, lockVars, workVars
<1>25. ASSUME NEW b \in Backends, weave_reclaim_stranded(b) PROVE Goal
  BY <1>25
  DEF weave_reclaim_stranded, WalkStep, weave_free_page, linkVars, lockVars, workVars
<1>26. ASSUME NEW b \in Backends, weave_reclaim_contended(b) PROVE Goal
  BY <1>26 DEF weave_reclaim_contended, WalkStep, pageVars, linkVars, lockVars, workVars
<1>27. ASSUME NEW b \in Backends, weave_reclaim_end(b) PROVE Goal
  BY <1>27 DEF weave_reclaim_end, Goto, pageVars, linkVars, lockVars, workVars
<1>28. ASSUME NEW b \in Backends, weave_truncate_free_tail(b) PROVE Goal
  BY <1>28 DEF weave_truncate_free_tail, Goto, linkVars, workVars, walkVars
<1>29. ASSUME NEW b \in Backends, weave_truncate_skip(b) PROVE Goal
  BY <1>29 DEF weave_truncate_skip, Goto, pageVars, linkVars, workVars, walkVars
<1>30. ASSUME NEW b \in Backends, NEW p \in Blocks, weave_alloc_contended(b, p) PROVE Goal
  BY <1>30 DEF weave_alloc_contended, linkVars, lockVars, workVars, walkVars
<1>31. ASSUME NEW b \in Backends, Abandon(b) PROVE Goal
  BY <1>31 DEF Abandon, Rest, Goto, pageVars, linkVars
<1>32. ASSUME NEW b \in Backends, AbandonExtended(b) PROVE Goal
  BY <1>32 DEF AbandonExtended, Rest, Goto, linkVars
<1>33. ASSUME Crash PROVE Goal
  BY <1>33 DEF Crash, linkVars
<1>34. ASSUME NEW s \in Scans, weave_scan_begin(s) PROVE Goal
  BY <1>34 DEF weave_scan_begin, pageVars, linkVars, lockVars, workVars, walkVars
<1>35. ASSUME NEW s \in Scans, weave_scan_end(s) PROVE Goal
  BY <1>35 DEF weave_scan_end, linkVars, lockVars, workVars, walkVars
<1>36. CASE UNCHANGED vars
  BY <1>36 DEF vars
<1> QED
  BY <1>1, <1>2, <1>3, <1>4, <1>5, <1>6, <1>7, <1>8, <1>9, <1>10, <1>11, <1>12,
     <1>13, <1>14, <1>15, <1>16, <1>17, <1>18, <1>19, <1>20, <1>21, <1>22, <1>23,
     <1>24, <1>25, <1>26, <1>27, <1>28, <1>29, <1>30, <1>31, <1>32, <1>33, <1>34, <1>35, <1>36
  DEF Next, UndisturbedNext, SessionStep, WriteStep, VacuumStep, ScanStep

-----------------------------------------------------------------------------
(* Theorems *)

\* The inductive invariant holds in a new index.
LEMMA PagesInit == Init => PInv
<1> SUFFICES ASSUME Init PROVE PInv
  OBVIOUS
<1> USE BlocksAssumption, HolderAssumption DEF Init
<1>1. PageTypeOK
  BY DEF PageTypeOK, PLabels, Blocks, NoBlock
<1>2. LockInv /\ WorkInv
  BY DEF LockInv, WorkInv, MergeLabels, VacuumLabels
<1>3. OldInv /\ FenceInv /\ NoPageStolen
  BY DEF OldInv, FenceInv, NoPageStolen, Unlinked, linked
<1>4. SnapInv /\ ScanUndisturbed
  BY DEF SnapInv, ScanUndisturbed
<1> QED
  BY <1>1, <1>2, <1>3, <1>4 DEF PInv

\* Every step of a session, of a scan and of a crash preserves it.
LEMMA PagesStep == PInv /\ [Next]_vars => PInv'
<1> SUFFICES ASSUME PInv, [Next]_vars PROVE PInv'
  OBVIOUS
<1>1. PageTypeOK /\ LockInv /\ WorkInv
  BY DEF PInv
<1>2. PageTypeOK' /\ LockInv' /\ WorkInv'
  BY <1>1, PageTypeInductive, LockInductive, WorkInductive
<1>3. OldInv' /\ FenceInv' /\ NoPageStolen'
  BY OldInductive, FenceInductive, PagesInductive
<1>4. SnapInv' /\ ScanUndisturbed'
  BY SnapInductive
<1> QED
  BY <1>2, <1>3, <1>4 DEF PInv

\* In every reachable state of the page protocol the inductive invariant holds: the
\* types, the locks, what a session has read and what it holds, the fence and the gate.
THEOREM PageInvariance == Spec => []PInv
<1>1. Init => PInv
  BY PagesInit
<1>2. PInv /\ [Next]_vars => PInv'
  BY PagesStep
<1> QED
  BY <1>1, <1>2, PTL DEF Spec

\* No page that is linked, or that a session is about to link, is handed out, freed or
\* truncated by weave_new_buffer_internal(), weave_reclaim_unreachable() or
\* weave_truncate_free_tail(), whatever the free space map holds after a crash and
\* whichever statement fails at whichever point.
THEOREM PagesAreNotStolen == Spec => []NoPageStolen
<1>1. PInv => NoPageStolen
  BY DEF PInv
<1> QED
  BY <1>1, PageInvariance, PTL

\* No page that a running scan may visit is handed out again, whoever frees it: the
\* stamp of weave_free_page_locked() holds it back from weave_page_recyclable().
THEOREM ScansAreUndisturbed == Spec => []ScanUndisturbed
<1>1. PInv => ScanUndisturbed
  BY DEF PInv
<1> QED
  BY <1>1, PageInvariance, PTL


=============================================================================
