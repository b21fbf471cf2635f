----------------------------- MODULE WeavePages -----------------------------
(***************************************************************************)
(* The life of an index page: allocation from the free space map or by     *)
(* extension, the link that makes it reachable, the free that stamps it,   *)
(* the gate that keeps it from being reused under a running scan, VACUUM's *)
(* reclaim of the pages a crash or an error stranded, and the truncation   *)
(* of the file's tail.                                                     *)
(*                                                                         *)
(* A bolt is one page here, and so is a page of the pending list.  What a  *)
(* page holds is not modelled; WeaveIndex says which documents a bolt has. *)
(* A page LSN is compared only with the fence of the running VACUUM, so    *)
(* the model keeps the set of pages written since that fence.              *)
(***************************************************************************)
EXTENDS Integers, FiniteSets

CONSTANTS
    MaxBlocks,     \* bound: the length the file may grow to (block 0 is the metapage)
    Backends,      \* sessions that run an oversized INSERT or VACUUM
    Scans,         \* index scans
    NoBackend,     \* not a session: the maintenance mutex is free
    MaxSegments    \* WEAVE_MAX_SEGMENTS

ASSUME BlocksAssumption == MaxBlocks \in Nat \ {0}
ASSUME HolderAssumption == NoBackend \notin Backends
ASSUME DirectoryAssumption == MaxSegments \in Nat \ {0}

Blocks == 1..MaxBlocks
NoBlock == 0       \* InvalidBlockNumber

VARIABLES
    nblocks,   \* the file holds blocks 1..nblocks after the metapage
    page,      \* page[p]: "absent", "new" (all zeroes), "used" or "freed" (WEAVE_FREED)
    young,     \* the pages whose LSN is beyond the running VACUUM's fence
    hold,      \* hold[p]: the scans whose snapshot is older than p's free stamp
    fsm,       \* the blocks the free space map offers; a hint, not crash safe
    bolts,     \* the pages the bolt directory reaches
    pendp,     \* the pages the pending list reaches
    segwrite,  \* holders of the segment-write lock in ShareLock
    mutex,     \* holder of the maintenance mutex, or NoBackend
    pc,        \* pc[b]: where session b is
    out,       \* out[b]: the page of the bolt b is writing, or NoBlock
    merged,    \* merged[b]: the page of the output of b's merge, or NoBlock
    cut,       \* cut[b]: the pending pages b's flush walked
    old,       \* old[b]: the pages b unlinks, or has unlinked and not freed yet
    low,       \* low[b]: the free blocks gathered at the start of the merge
    reach,     \* reach[b]: the reachability map of b's reclaim
    blk,       \* blk[b]: the next block of the reclaim's walk
    lim,       \* lim[b]: the file length the walk goes up to
    snap,      \* snap[s]: the pages scan s may visit
    reused     \* reused[s]: those of them that were handed out again meanwhile

pageVars == <<nblocks, page, young, hold, fsm, reused>>
linkVars == <<bolts, pendp>>
lockVars == <<segwrite, mutex>>
workVars == <<out, merged, cut, old, low>>
walkVars == <<reach, blk, lim>>
vars == <<nblocks, page, young, hold, fsm, bolts, pendp, segwrite, mutex, pc, out, merged,
          cut, old, low, reach, blk, lim, snap, reused>>

linked == bolts \cup pendp

Goto(b, l) == pc' = [pc EXCEPT ![b] = l]

Init ==
    /\ nblocks = 0
    /\ page = [p \in Blocks |-> "absent"]
    /\ young = {}
    /\ hold = [p \in Blocks |-> {}]
    /\ fsm = {}
    /\ bolts = {}
    /\ pendp = {}
    /\ segwrite = {}
    /\ mutex = NoBackend
    /\ pc = [b \in Backends |-> "idle"]
    /\ out = [b \in Backends |-> NoBlock]
    /\ merged = [b \in Backends |-> NoBlock]
    /\ cut = [b \in Backends |-> {}]
    /\ old = [b \in Backends |-> {}]
    /\ low = [b \in Backends |-> {}]
    /\ reach = [b \in Backends |-> {}]
    /\ blk = [b \in Backends |-> 1]
    /\ lim = [b \in Backends |-> 0]
    /\ snap = [s \in Scans |-> {}]
    /\ reused = [s \in Scans |-> {}]

-----------------------------------------------------------------------------
(* Allocation *)

\* Faulty variants of the next definition: the free space map is believed, and the
\* stamp is not looked at.
recyclable_hint(p) == TRUE
recyclable_ungated(p) == page[p] \in {"new", "freed"}

\* weave_page_recyclable(): a live page never, a zeroed page always, a freed page
\* once no snapshot is as old as its stamp.
weave_page_recyclable(p) == page[p] = "new" \/ (page[p] = "freed" /\ hold[p] = {})

\* The candidates a search for a page may turn down.
Refused(C) == {q \in C : q <= nblocks /\ ~weave_page_recyclable(q)}

\* The caller writes the page in the record that follows, under the buffer lock.  The
\* free space map forgets the page and is told again of those turned down in C.
Take(p, C) ==
    /\ page' = [page EXCEPT ![p] = "used"]
    /\ young' = young \cup {p}
    /\ hold' = [hold EXCEPT ![p] = {}]
    /\ fsm' \in {(fsm \cup R) \ {p} : R \in SUBSET Refused(C)}
    /\ reused' = [s \in Scans |-> IF p \in snap[s] THEN reused[s] \cup {p} ELSE reused[s]]

\* weave_new_buffer_internal(): a block of the candidates C, or one more block.
weave_new_buffer(p, C) ==
    \/ /\ p \in C
       /\ p <= nblocks
       /\ weave_page_recyclable(p)
       /\ Take(p, C)
       /\ UNCHANGED nblocks
    \/ /\ p = nblocks + 1
       /\ nblocks' = p
       /\ Take(p, C)

\* ConditionalLockBuffer() fails on a block GetFreeIndexPage() returned: the free space
\* map has forgotten it and is not told.
weave_alloc_contended(b, p) ==
    /\ pc[b] = "write"
    /\ p \in fsm
    /\ fsm' = fsm \ {p}
    /\ UNCHANGED <<nblocks, page, young, hold, reused, linkVars, lockVars, pc, workVars,
                   walkVars, snap>>

\* weave_free_page_locked(): flag, stamp, and end every walk that arrives here.
weave_free_page(p) ==
    /\ page' = [page EXCEPT ![p] = "freed"]
    /\ young' = young \cup {p}
    /\ hold' = [hold EXCEPT ![p] = {s \in Scans : snap[s] # {}}]
    /\ UNCHANGED <<nblocks, reused>>

-----------------------------------------------------------------------------
(* The insert path *)

\* The pending append: weave_new_buffer_linked(), the page and the link in one record.
weave_insert(p) ==
    /\ weave_new_buffer(p, fsm)
    /\ pendp' = pendp \cup {p}
    /\ UNCHANGED <<bolts, lockVars, pc, workVars, walkVars, snap>>

weave_segwrite_lock(b) ==
    /\ pc[b] = "idle"
    /\ \A c \in Backends : pc[c] # "barrier_wait"
    /\ segwrite' = segwrite \cup {b}
    /\ Goto(b, "write")
    /\ UNCHANGED <<pageVars, linkVars, mutex, workVars, walkVars, snap>>

\* weave_build_flush_segment(): the bolt's page, not linked yet.
weave_write_segment(b, p) ==
    /\ pc[b] = "write"
    /\ weave_new_buffer(p, fsm)
    /\ out' = [out EXCEPT ![b] = p]
    /\ Goto(b, "publish")
    /\ UNCHANGED <<linkVars, lockVars, merged, cut, old, low, walkVars, snap>>

\* weave_meta_add_segment() and weave_segwrite_unlock().
weave_publish(b) ==
    /\ pc[b] \in {"publish", "retry"}
    /\ b \in segwrite
    /\ Cardinality(bolts) < MaxSegments
    /\ bolts' = bolts \cup {out[b]}
    /\ out' = [out EXCEPT ![b] = NoBlock]
    /\ segwrite' = segwrite \ {b}
    /\ Goto(b, "idle")
    /\ UNCHANGED <<pageVars, pendp, mutex, merged, cut, old, low, walkVars, snap>>

\* A full directory: an INSERT takes the mutex while it holds the segment-write lock,
\* a flush has the mutex already.
weave_add_segment_with_room(b) ==
    /\ pc[b] \in {"publish", "retry"}
    /\ Cardinality(bolts) >= MaxSegments
    /\ mutex \in {NoBackend, b}
    /\ mutex' = b
    /\ Goto(b, "merge")
    /\ UNCHANGED <<pageVars, linkVars, segwrite, workVars, walkVars, snap>>

-----------------------------------------------------------------------------
(* The pending flush *)

\* The walk of the pending list; the bolt's page comes from weave_write_segment().
weave_flush_pending(b) ==
    /\ pc[b] = "flush"
    /\ Goto(b, IF pendp = {} THEN "merge" ELSE "write")
    /\ cut' = [cut EXCEPT ![b] = pendp]
    /\ UNCHANGED <<pageVars, linkVars, lockVars, out, merged, old, low, walkVars, snap>>

\* weave_flush_add_and_cut(): link the bolt and unlink the walked pages, one record.
\* The last of them stays, K, when items were appended to it since the walk.
weave_flush_add_and_cut(b, K) ==
    /\ pc[b] \in {"publish", "retry"}
    /\ b \notin segwrite
    /\ Cardinality(bolts) < MaxSegments
    /\ Cardinality(K) <= 1
    /\ bolts' = bolts \cup {out[b]}
    /\ pendp' = pendp \ (cut[b] \ K)
    /\ old' = [old EXCEPT ![b] = cut[b] \ K]
    /\ out' = [out EXCEPT ![b] = NoBlock]
    /\ cut' = [cut EXCEPT ![b] = {}]
    /\ Goto(b, "free")
    /\ UNCHANGED <<pageVars, lockVars, merged, low, walkVars, snap>>

-----------------------------------------------------------------------------
(* Merge and compaction *)

\* weave_alloc_snapshot_enter() and the choice of the inputs S: two bolts or more, for
\* VACUUM's compaction also one.
weave_merge_selected(b, S) ==
    /\ pc[b] = "merge"
    /\ S \subseteq bolts
    /\ Cardinality(S) >= 2 \/ (S # {} /\ out[b] = NoBlock)
    /\ old' = [old EXCEPT ![b] = S]
    /\ low' = [low EXCEPT ![b] = fsm]
    /\ Goto(b, "merge_write")
    /\ UNCHANGED <<pageVars, linkVars, lockVars, out, merged, cut, walkVars, snap>>

\* The output's page; the live free space map is not consulted.
weave_merge_write(b, p) ==
    /\ pc[b] = "merge_write"
    /\ weave_new_buffer(p, low[b])
    /\ merged' = [merged EXCEPT ![b] = p]
    /\ Goto(b, "merge_commit")
    /\ UNCHANGED <<linkVars, lockVars, out, cut, old, low, walkVars, snap>>

\* The commit record.
weave_merge_commit(b) ==
    /\ pc[b] = "merge_commit"
    /\ bolts' = (bolts \ old[b]) \cup {merged[b]}
    /\ merged' = [merged EXCEPT ![b] = NoBlock]
    /\ low' = [low EXCEPT ![b] = {}]
    /\ Goto(b, "free")
    /\ UNCHANGED <<pageVars, pendp, lockVars, out, cut, old, walkVars, snap>>

\* weave_free_segment(), weave_free_chain(): one page, one record.
weave_free_segment(b, p) ==
    /\ pc[b] = "free"
    /\ p \in old[b]
    /\ weave_free_page(p)
    /\ fsm' = fsm \cup {p}
    /\ old' = [old EXCEPT ![b] = @ \ {p}]
    /\ UNCHANGED <<linkVars, lockVars, pc, out, merged, cut, low, walkVars, snap>>

weave_free_end(b) ==
    /\ pc[b] = "free"
    /\ old[b] = {}
    /\ Goto(b, "merge")
    /\ UNCHANGED <<pageVars, linkVars, lockVars, workVars, walkVars, snap>>

\* Nothing (more) to merge: whoever has a bolt to link tries again, an INSERT
\* without the mutex; VACUUM goes on to the file's tail.
weave_merge_end(b) ==
    /\ pc[b] = "merge"
    /\ Goto(b, IF out[b] = NoBlock THEN "truncate" ELSE "retry")
    /\ mutex' = IF b \in segwrite THEN NoBackend ELSE mutex
    /\ UNCHANGED <<pageVars, linkVars, segwrite, workVars, walkVars, snap>>

-----------------------------------------------------------------------------
(* weave_vacuumcleanup() *)

\* VACUUM's lock on the table lets one run.
Vacuuming == \E b \in Backends : pc[b] # "idle" /\ b \notin segwrite

\* weave_reclaim_prepare(): the fence first, ...
weave_reclaim_fence(b) ==
    /\ pc[b] = "idle"
    /\ ~Vacuuming
    /\ young' = {}
    /\ Goto(b, "barrier")
    /\ UNCHANGED <<nblocks, page, hold, fsm, reused, linkVars, lockVars, workVars,
                   walkVars, snap>>

\* A faulty variant of the next definition: the mutex first, the barrier under it.
barrier_under_mutex(b) ==
    /\ pc[b] = "barrier"
    /\ mutex = NoBackend
    /\ mutex' = b
    /\ Goto(b, "barrier_wait")
    /\ UNCHANGED <<pageVars, linkVars, segwrite, workVars, walkVars, snap>>

\* ... then the barrier's request, which later share requests queue behind, ...
weave_segwrite_barrier(b) ==
    /\ pc[b] = "barrier"
    /\ Goto(b, "barrier_wait")
    /\ UNCHANGED <<pageVars, linkVars, lockVars, workVars, walkVars, snap>>

\* ... and its grant: every writer that was under way has published or failed.
weave_segwrite_barrier_granted(b) ==
    /\ pc[b] = "barrier_wait"
    /\ segwrite = {}
    /\ Goto(b, "lock")
    /\ UNCHANGED <<pageVars, linkVars, lockVars, workVars, walkVars, snap>>

weave_maintenance_lock(b) ==
    /\ pc[b] = "lock"
    /\ mutex \in {NoBackend, b}
    /\ mutex' = b
    /\ Goto(b, "meta")
    /\ UNCHANGED <<pageVars, linkVars, segwrite, workVars, walkVars, snap>>

\* The metapage copy: the bolts, and where the pending list begins.
weave_reclaim_meta(b) ==
    /\ pc[b] = "meta"
    /\ reach' = [reach EXCEPT ![b] = linked]
    /\ Goto(b, "reach")
    /\ UNCHANGED <<pageVars, linkVars, lockVars, workVars, blk, lim, snap>>

\* The file length, then weave_reach_map() over the copy.  A pending list that had a
\* head is walked to its present end.
weave_reach_map(b) ==
    /\ pc[b] = "reach"
    /\ reach' = [reach EXCEPT ![b] = IF @ \cap pendp = {} THEN @ ELSE @ \cup pendp]
    /\ lim' = [lim EXCEPT ![b] = nblocks]
    /\ Goto(b, "reclaim")
    /\ UNCHANGED <<pageVars, linkVars, lockVars, workVars, blk, snap>>

\* One step of weave_reclaim_unreachable()'s walk of the file.
WalkStep(b) ==
    /\ pc[b] = "reclaim"
    /\ blk[b] <= lim[b]
    /\ blk' = [blk EXCEPT ![b] = @ + 1]
    /\ UNCHANGED <<linkVars, lockVars, pc, workVars, reach, lim, snap>>

\* A reachable block: the free space map must not offer it.
weave_reclaim_reachable(b) ==
    /\ WalkStep(b)
    /\ blk[b] \in reach[b]
    /\ fsm' = fsm \ {blk[b]}
    /\ UNCHANGED <<nblocks, page, young, hold, reused>>

\* A faulty variant of the next definition: a free page the map lost stays lost.
free_not_recorded(b) ==
    /\ WalkStep(b)
    /\ blk[b] \notin reach[b]
    /\ page[blk[b]] \in {"new", "freed"}
    /\ UNCHANGED pageVars

\* A page that is free already is offered, if the allocator would take it now.
weave_reclaim_record(b) ==
    /\ WalkStep(b)
    /\ blk[b] \notin reach[b]
    /\ page[blk[b]] \in {"new", "freed"}
    /\ fsm' = IF weave_page_recyclable(blk[b]) THEN fsm \cup {blk[b]} ELSE fsm
    /\ UNCHANGED <<nblocks, page, young, hold, reused>>

\* A page newer than the fence: someone may be about to link it.
weave_reclaim_newer(b) ==
    /\ WalkStep(b)
    /\ blk[b] \notin reach[b]
    /\ page[blk[b]] = "used"
    /\ blk[b] \in young
    /\ UNCHANGED pageVars

\* A stranded page is freed, and not offered before a later VACUUM.
weave_reclaim_stranded(b) ==
    /\ WalkStep(b)
    /\ blk[b] \notin reach[b]
    /\ page[blk[b]] = "used"
    /\ blk[b] \notin young
    /\ weave_free_page(blk[b])
    /\ fsm' = fsm \ {blk[b]}

\* ConditionalLockBuffer() fails: the page waits for another VACUUM.
weave_reclaim_contended(b) ==
    /\ WalkStep(b)
    /\ blk[b] \notin reach[b]
    /\ UNCHANGED pageVars

weave_reclaim_end(b) ==
    /\ pc[b] = "reclaim"
    /\ blk[b] > lim[b]
    /\ Goto(b, "flush")
    /\ reach' = [reach EXCEPT ![b] = {}]
    /\ blk' = [blk EXCEPT ![b] = 1]
    /\ lim' = [lim EXCEPT ![b] = 0]
    /\ UNCHANGED <<pageVars, linkVars, lockVars, workVars, snap>>

\* A faulty variant of the next definition: the free space map's word is enough.
free_tail_hint(n) == \A p \in (n + 1)..nblocks : p \in fsm

\* The blocks after n are free: the map says so and so do the pages.
FreeTail(n) == \A p \in (n + 1)..nblocks : p \in fsm /\ page[p] \in {"new", "freed"}

\* weave_truncate_free_tail(): AccessExclusiveLock, if it is there for the asking,
\* keeps every scan and every INSERT away while the tail is looked at and cut.  The
\* look stops early when someone waits for the lock.
weave_truncate_free_tail(b) ==
    /\ pc[b] = "truncate"
    /\ \A c \in Backends : pc[c] = "idle" \/ c = b
    /\ \A s \in Scans : snap[s] = {}
    /\ \E n \in 0..nblocks :
        /\ FreeTail(n)
        /\ nblocks' = n
        /\ page' = [p \in Blocks |-> IF p > n THEN "absent" ELSE page[p]]
        /\ young' = {p \in young : p <= n}
        /\ hold' = [p \in Blocks |-> IF p > n THEN {} ELSE hold[p]]
        /\ fsm' = {p \in fsm : p <= n}
    /\ mutex' = NoBackend
    /\ Goto(b, "idle")
    /\ UNCHANGED <<linkVars, segwrite, workVars, walkVars, snap, reused>>

\* It is not: the tail stays.
weave_truncate_skip(b) ==
    /\ pc[b] = "truncate"
    /\ mutex' = NoBackend
    /\ Goto(b, "idle")
    /\ UNCHANGED <<pageVars, linkVars, segwrite, workVars, walkVars, snap>>

-----------------------------------------------------------------------------
(* Errors and crashes *)

Rest(b) ==
    /\ segwrite' = segwrite \ {b}
    /\ mutex' = IF mutex = b THEN NoBackend ELSE mutex
    /\ Goto(b, "idle")
    /\ out' = [out EXCEPT ![b] = NoBlock]
    /\ merged' = [merged EXCEPT ![b] = NoBlock]
    /\ cut' = [cut EXCEPT ![b] = {}]
    /\ old' = [old EXCEPT ![b] = {}]
    /\ low' = [low EXCEPT ![b] = {}]
    /\ reach' = [reach EXCEPT ![b] = {}]
    /\ blk' = [blk EXCEPT ![b] = 1]
    /\ lim' = [lim EXCEPT ![b] = 0]

\* The statement fails: the locks go, the pages it wrote and did not link, or
\* unlinked and did not free, stay as they are.
Abandon(b) ==
    /\ pc[b] # "idle"
    /\ Rest(b)
    /\ UNCHANGED <<pageVars, linkVars, snap>>

\* It fails right after the file grew: a zeroed block nobody knows of.
AbandonExtended(b) ==
    /\ pc[b] \in {"write", "merge_write"}
    /\ nblocks < MaxBlocks
    /\ nblocks' = nblocks + 1
    /\ page' = [page EXCEPT ![nblocks + 1] = "new"]
    /\ Rest(b)
    /\ UNCHANGED <<young, hold, fsm, reused, linkVars, snap>>

\* The file cannot grow.
weave_no_space(b) ==
    /\ pc[b] \in {"write", "merge_write"}
    /\ nblocks = MaxBlocks
    /\ Rest(b)
    /\ UNCHANGED <<pageVars, linkVars, snap>>

\* MaxSegments merge passes, and the directory is full again each time.
weave_no_room(b) ==
    /\ pc[b] = "retry"
    /\ Cardinality(bolts) >= MaxSegments
    /\ Rest(b)
    /\ UNCHANGED <<pageVars, linkVars, snap>>

\* Crash and WAL replay: pages and links are as the records left them, the free
\* space map holds anything, sessions, scans and old snapshots are gone.
Crash ==
    /\ \E b \in Backends : pc[b] # "idle"
    /\ fsm' \in SUBSET (1..nblocks)
    /\ hold' = [p \in Blocks |-> {}]
    /\ segwrite' = {}
    /\ mutex' = NoBackend
    /\ pc' = [b \in Backends |-> "idle"]
    /\ out' = [b \in Backends |-> NoBlock]
    /\ merged' = [b \in Backends |-> NoBlock]
    /\ cut' = [b \in Backends |-> {}]
    /\ old' = [b \in Backends |-> {}]
    /\ low' = [b \in Backends |-> {}]
    /\ reach' = [b \in Backends |-> {}]
    /\ blk' = [b \in Backends |-> 1]
    /\ lim' = [b \in Backends |-> 0]
    /\ snap' = [s \in Scans |-> {}]
    /\ reused' = [s \in Scans |-> {}]
    /\ UNCHANGED <<nblocks, page, young, linkVars>>

-----------------------------------------------------------------------------
(* Scans: the snapshot is older than the metapage copy. *)

weave_scan_begin(s) ==
    /\ snap[s] = {}
    /\ linked # {}
    /\ snap' = [snap EXCEPT ![s] = linked]
    /\ UNCHANGED <<pageVars, linkVars, lockVars, pc, workVars, walkVars>>

weave_scan_end(s) ==
    /\ snap[s] # {}
    /\ snap' = [snap EXCEPT ![s] = {}]
    /\ reused' = [reused EXCEPT ![s] = {}]
    /\ hold' = [p \in Blocks |-> hold[p] \ {s}]
    /\ UNCHANGED <<nblocks, page, young, fsm, linkVars, lockVars, pc, workVars, walkVars>>

-----------------------------------------------------------------------------
WriteStep(b) ==
    \/ \E p \in Blocks : weave_write_segment(b, p)
    \/ weave_publish(b)
    \/ weave_add_segment_with_room(b)
    \/ weave_flush_pending(b)
    \/ \E K \in SUBSET cut[b] : weave_flush_add_and_cut(b, K)
    \/ \E p \in Blocks : weave_merge_write(b, p)
    \/ weave_merge_commit(b)
    \/ \E p \in Blocks : weave_free_segment(b, p)
    \/ weave_free_end(b)
    \/ weave_merge_end(b)
    \/ weave_no_space(b)
    \/ weave_no_room(b)

VacuumStep(b) ==
    \/ weave_segwrite_barrier(b)
    \/ weave_segwrite_barrier_granted(b)
    \/ weave_maintenance_lock(b)
    \/ weave_reclaim_meta(b)
    \/ weave_reach_map(b)
    \/ weave_reclaim_reachable(b)
    \/ weave_reclaim_record(b)
    \/ weave_reclaim_newer(b)
    \/ weave_reclaim_stranded(b)
    \/ weave_reclaim_end(b)
    \/ weave_truncate_free_tail(b)
    \/ weave_truncate_skip(b)

SessionStep(b) == WriteStep(b) \/ VacuumStep(b)

ScanStep(s) == weave_scan_begin(s) \/ weave_scan_end(s)

UndisturbedNext ==
    \/ \E p \in Blocks : weave_insert(p)
    \/ \E b \in Backends :
        \/ weave_segwrite_lock(b)
        \/ weave_reclaim_fence(b)
        \/ \E S \in SUBSET bolts : weave_merge_selected(b, S)
        \/ SessionStep(b)
    \/ \E s \in Scans : ScanStep(s)

Next ==
    \/ UndisturbedNext
    \/ \E b \in Backends :
        \/ \E p \in Blocks : weave_alloc_contended(b, p)
        \/ weave_reclaim_contended(b)
        \/ Abandon(b)
        \/ AbandonExtended(b)
    \/ Crash

Spec == Init /\ [][Next]_vars

(* Liveness after a restart, with no further failure.  A session that can  *)
(* take a step takes it; the lock manager queues the requests for a lock;  *)
(* merge passes and the merges of a pass are bounded in number; autovacuum *)
(* keeps coming; scans end.                                                *)

\* What a crash may leave: pages in any state, those that are linked in use, any
\* free space map.
RestartInit ==
    /\ nblocks = MaxBlocks
    /\ page \in [Blocks -> {"new", "used", "freed"}]
    /\ bolts \in SUBSET {p \in Blocks : page[p] = "used"}
    /\ pendp \in SUBSET ({p \in Blocks : page[p] = "used"} \ bolts)
    /\ Cardinality(bolts) <= MaxSegments
    /\ fsm \in SUBSET Blocks
    /\ young = {}
    /\ hold = [p \in Blocks |-> {}]
    /\ segwrite = {}
    /\ mutex = NoBackend
    /\ pc = [b \in Backends |-> "idle"]
    /\ out = [b \in Backends |-> NoBlock]
    /\ merged = [b \in Backends |-> NoBlock]
    /\ cut = [b \in Backends |-> {}]
    /\ old = [b \in Backends |-> {}]
    /\ low = [b \in Backends |-> {}]
    /\ reach = [b \in Backends |-> {}]
    /\ blk = [b \in Backends |-> 1]
    /\ lim = [b \in Backends |-> 0]
    /\ snap = [s \in Scans |-> {}]
    /\ reused = [s \in Scans |-> {}]

SessionFairness ==
    \A b \in Backends :
        /\ WF_vars(SessionStep(b))
        /\ SF_vars(weave_maintenance_lock(b))
        /\ SF_vars(weave_add_segment_with_room(b))
        /\ SF_vars(weave_merge_end(b))
        /\ SF_vars(weave_no_room(b))

ReturnFairness ==
    /\ \A b \in Backends : SF_vars(weave_reclaim_fence(b))
    /\ \A s \in Scans : WF_vars(weave_scan_end(s))

FairSpec == Init /\ [][UndisturbedNext]_vars /\ SessionFairness

RestartSpec == RestartInit /\ [][UndisturbedNext]_vars /\ SessionFairness /\ ReturnFairness

-----------------------------------------------------------------------------
(* Properties *)
\* The pages session b has written and not linked yet.
Unlinked(b) == {out[b], merged[b]} \ {NoBlock}

\* No page is stolen: a page that is linked, or that a session has written and is
\* about to link, is in the file, holds what was written to it, and is nobody
\* else's -- whatever the free space map says after a crash, and whatever a reclaim
\* takes for stranded.
NoPageStolen ==
    /\ \A p \in linked : p <= nblocks /\ page[p] = "used"
    /\ bolts \cap pendp = {}
    /\ \A b \in Backends : \A p \in Unlinked(b) :
        /\ p <= nblocks /\ page[p] = "used" /\ p \notin linked
        /\ \A c \in Backends \ {b} : p \notin Unlinked(c)
    /\ \A b \in Backends : out[b] # NoBlock => out[b] # merged[b]

\* The recycle gate: no page a running scan may still visit is handed out again, so
\* a scan that lost a race finds old contents or a freed page, never a new owner's.
ScanUndisturbed == \A s \in Scans : reused[s] = {}

\* Nobody waits for ever: an INSERT that holds the segment-write lock and needs the
\* mutex, and a VACUUM that holds the mutex and has passed the barrier, both end.
SessionEnds == \A b \in Backends : pc[b] # "idle" ~> pc[b] = "idle"

\* The page is in use and leads nowhere: no link, no session that will link it.
Stranded(p) ==
    /\ page[p] = "used"
    /\ p \notin linked
    /\ \A b \in Backends : p \notin Unlinked(b) /\ p \notin old[b]

\* What a crash stranded comes back: one VACUUM frees the page, a later one offers
\* it to the allocator, unless the file's tail was cut first.
StrandedReturns ==
    \A p \in Blocks : Stranded(p) ~> (p \in fsm \/ page[p] = "absent")

=============================================================================
