----------------------------- MODULE WeaveIndex -----------------------------
(***************************************************************************)
(* The write path of the weave index access method: the metapage (bolt     *)
(* directory, pending list, generation), the sessions that change it       *)
(* (INSERT, oversized INSERT, pending flush, merge, VACUUM) and the heap   *)
(* line pointers that VACUUM hands back for reuse.                         *)
(*                                                                         *)
(* Grain of atomicity.  One action per metapage record (every record is    *)
(* written under the metapage's exclusive buffer lock) and one per point   *)
(* where a session reads the metapage and goes on without a lock.  What    *)
(* the pages of a bolt or of the pending list look like is not modelled    *)
(* here (WeavePages has the pages), nor are the corpus counters            *)
(* (WeaveStats adds them) nor which bolts a merge picks.                   *)
(***************************************************************************)
EXTENDS WeaveDirectory

CONSTANTS
    Tids,          \* heap line pointers; a docid is a line pointer
    Backends,      \* sessions that run VACUUM, weave_merge() or an oversized INSERT
    NoBackend,     \* not a session: the maintenance mutex is free
    NoTid,         \* not a line pointer: the session is inserting no row
    NullFlags,     \* values isnull[] takes for the document column, a subset of BOOLEAN
    MaxSegments,   \* WEAVE_MAX_SEGMENTS, the capacity of the bolt directory
    GenMod,        \* 2^32 in the code: generation is a uint32 and wraps
    MaxInc,        \* bound: how many rows one line pointer carries in turn
    MaxBolts       \* bound: VACUUM rewrites no lone bolt once so many were published

ASSUME SessionAssumption == NoBackend \notin Backends /\ NoTid \notin Tids
ASSUME NullAssumption == NullFlags \subseteq BOOLEAN
ASSUME CapacityAssumption == MaxSegments \in Nat \ {0, 1}
ASSUME GenAssumption == GenMod \in Nat \ {0, 1}
ASSUME BoundAssumption == MaxInc \in Nat /\ MaxBolts \in Nat

VARIABLES
    st,      \* st[t]: what the heap holds at line pointer t
    inc,     \* inc[t]: how many rows t has carried so far; names the current one
    nul,     \* nul[t]: the current row's document is NULL
    segs,    \* metapage segs[]: the bolt directory, in order
    pend,    \* the pending list, oldest item first
    gen,     \* metapage generation
    nbolt,   \* bolts published so far; names the next one (its dictstart)
    mutex,   \* holder of the maintenance mutex, or NoBackend
    pc,      \* pc[b]: where session b is
    job,     \* job[b]: the statement session b runs
    row,     \* row[b]: the line pointer an oversized INSERT indexes
    tries,   \* tries[b]: merge passes made for a full directory
    ret,     \* ret[b]: where the session goes on after its merges
    built,   \* built[b]: the documents of the bolt being written
    cut,     \* cut[b]: pending items the flush walked (cut_blk, cut_lower, cut_nitems)
    sel,     \* sel[b]: the bolts being merged, position |-> descriptor as read
    dir,     \* dir[b]: bulkdelete's copy of segs[]
    slot,    \* slot[b]: bulkdelete's next directory position
    vdead    \* vdead[b]: the dead line pointers this VACUUM collected

heapVars == <<st, inc, nul>>
metaVars == <<segs, pend, gen, nbolt>>
mergeVars == <<tries, ret, sel>>
flushVars == <<built, cut>>
vacVars == <<dir, slot, vdead>>
vars == <<st, inc, nul, segs, pend, gen, nbolt, mutex, pc, job, row, tries,
          ret, built, cut, sel, dir, slot, vdead>>

-----------------------------------------------------------------------------
(* Index entries and bolts *)

Entry == [tid : Tids, inc : Nat, nul : BOOLEAN]

Bolt == [id : Nat, docs : SUBSET Entry, dead : SUBSET Tids]

\* What an INSERT writes for the row now at line pointer t.
EntryOf(t) == [tid |-> t, inc |-> inc[t], nul |-> nul[t]]

TidsOf(D) == {e.tid : e \in D}

\* The documents a scan takes from a bolt: those its livedocs blob does not tombstone.
LiveDocs(g) == {e \in g.docs : e.tid \notin g.dead}

NewBolt(D) == [id |-> nbolt + 1, docs |-> D, dead |-> {}]

\* A faulty variant of the next definition: no bump at all.
BumpGeneration_none == UNCHANGED gen

BumpGeneration == gen' = (gen + 1) % GenMod

Goto(b, l) == pc' = [pc EXCEPT ![b] = l]

-----------------------------------------------------------------------------
Init ==
    /\ st = [t \in Tids |-> "unused"]
    /\ inc = [t \in Tids |-> 0]
    /\ nul = [t \in Tids |-> FALSE]
    /\ segs = << >>
    /\ pend = << >>
    /\ gen = 0
    /\ nbolt = 0
    /\ mutex = NoBackend
    /\ pc = [b \in Backends |-> "idle"]
    /\ job = [b \in Backends |-> "none"]
    /\ row = [b \in Backends |-> NoTid]
    /\ tries = [b \in Backends |-> 0]
    /\ ret = [b \in Backends |-> "done"]
    /\ built = [b \in Backends |-> {}]
    /\ cut = [b \in Backends |-> 0]
    /\ sel = [b \in Backends |-> << >>]
    /\ dir = [b \in Backends |-> << >>]
    /\ slot = [b \in Backends |-> 1]
    /\ vdead = [b \in Backends |-> {}]

-----------------------------------------------------------------------------
(* The heap, as far as the index depends on it.  A row is "busy" from its  *)
(* heap insert to its index insert, "indexed" until its transaction ends.  *)

\* An oversized INSERT is still working on the row at t.
Owned(t) == \E b \in Backends : row[b] = t

heap_insert(t, isnull) ==
    /\ st[t] = "unused"
    /\ inc[t] < MaxInc
    /\ st' = [st EXCEPT ![t] = "busy"]
    /\ inc' = [inc EXCEPT ![t] = @ + 1]
    /\ nul' = [nul EXCEPT ![t] = isnull]
    /\ UNCHANGED <<metaVars, mutex, pc, job, row, mergeVars, flushVars, vacVars>>

heap_commit(t) ==
    /\ st[t] = "indexed"
    /\ ~Owned(t)
    /\ st' = [st EXCEPT ![t] = "live"]
    /\ UNCHANGED <<inc, nul, metaVars, mutex, pc, job, row, mergeVars, flushVars, vacVars>>

\* The insert aborts, or the row is deleted and no snapshot needs it any more.
heap_kill(t) ==
    /\ st[t] \in {"busy", "indexed", "live"}
    /\ ~Owned(t)
    /\ st' = [st EXCEPT ![t] = "dead"]
    /\ UNCHANGED <<inc, nul, metaVars, mutex, pc, job, row, mergeVars, flushVars, vacVars>>

-----------------------------------------------------------------------------
(* INSERT of a document that fits a page: the whole append happens under   *)
(* the metapage's exclusive lock and is one record.                        *)

weave_insert(t) ==
    /\ st[t] = "busy"
    /\ ~Owned(t)
    /\ pend' = Append(pend, EntryOf(t))
    /\ st' = [st EXCEPT ![t] = "indexed"]
    /\ UNCHANGED <<inc, nul, segs, gen, nbolt, mutex, pc, job, row, mergeVars,
                   flushVars, vacVars>>

-----------------------------------------------------------------------------
(* The maintenance mutex, and the ends of a session's statement.           *)

\* A session ends its statement, with or without an error: PG_FINALLY releases
\* the mutex if it is held, and the statement's local variables are gone.
Rest(b) ==
    /\ mutex' = IF mutex = b THEN NoBackend ELSE mutex
    /\ Goto(b, "idle")
    /\ job' = [job EXCEPT ![b] = "none"]
    /\ row' = [row EXCEPT ![b] = NoTid]
    /\ tries' = [tries EXCEPT ![b] = 0]
    /\ ret' = [ret EXCEPT ![b] = "done"]
    /\ built' = [built EXCEPT ![b] = {}]
    /\ cut' = [cut EXCEPT ![b] = 0]
    /\ sel' = [sel EXCEPT ![b] = << >>]
    /\ dir' = [dir EXCEPT ![b] = << >>]
    /\ slot' = [slot EXCEPT ![b] = 1]
    /\ vdead' = [vdead EXCEPT ![b] = {}]

\* A faulty variant of the next definition: bulkdelete looks at the bolts before the
\* pending list is folded.
lock_without_flush(b) ==
    /\ pc[b] = "lock"
    /\ mutex = NoBackend
    /\ mutex' = b
    /\ Goto(b, CASE job[b] = "insert" -> "merge"
                  [] job[b] = "bulkdelete" -> "bulkdelete"
                  [] OTHER -> "flush")
    /\ UNCHANGED <<heapVars, metaVars, job, row, mergeVars, flushVars, vacVars>>

\* weave_maintenance_lock(): an INSERT takes it to merge a full directory,
\* everyone else to flush the pending list first.
weave_maintenance_lock(b) ==
    /\ pc[b] = "lock"
    /\ mutex = NoBackend
    /\ mutex' = b
    /\ Goto(b, IF job[b] = "insert" THEN "merge" ELSE "flush")
    /\ UNCHANGED <<heapVars, metaVars, job, row, mergeVars, flushVars, vacVars>>

\* An ERROR or a cancel, anywhere outside a record: what is written stays
\* written, what was being built is abandoned, an unfinished row aborts.
Abandon(b) ==
    /\ pc[b] # "idle"
    /\ st' = [t \in Tids |-> IF t = row[b] THEN "dead" ELSE st[t]]
    /\ Rest(b)
    /\ UNCHANGED <<inc, nul, metaVars>>

\* The server crashes and replays its WAL: every record written survives, every
\* session and every lock is gone, open transactions are aborted.
Crash ==
    /\ \E b \in Backends : pc[b] # "idle"
    /\ st' = [t \in Tids |-> IF st[t] \in {"busy", "indexed"} THEN "dead" ELSE st[t]]
    /\ mutex' = NoBackend
    /\ pc' = [b \in Backends |-> "idle"]
    /\ job' = [b \in Backends |-> "none"]
    /\ row' = [b \in Backends |-> NoTid]
    /\ tries' = [b \in Backends |-> 0]
    /\ ret' = [b \in Backends |-> "done"]
    /\ built' = [b \in Backends |-> {}]
    /\ cut' = [b \in Backends |-> 0]
    /\ sel' = [b \in Backends |-> << >>]
    /\ dir' = [b \in Backends |-> << >>]
    /\ slot' = [b \in Backends |-> 1]
    /\ vdead' = [b \in Backends |-> {}]
    /\ UNCHANGED <<inc, nul, metaVars>>

-----------------------------------------------------------------------------
(* Merging: the session holds the mutex.                                   *)

\* The documents a merge of the descriptors in s writes.
MergedDocs(s) == UNION {LiveDocs(s[i]) : i \in DOMAIN s}

\* The inputs are found again by content, not by position.
Consumed(b) == {i \in DOMAIN segs : \E j \in DOMAIN sel[b] : segs[i] = sel[b][j]}

\* segs[] without the positions in S, order preserved, then the bolt g.
ReplaceBolts(S, g) == Rewritten(segs, S, <<g>>)

\* weave_compact_to_one(), at the end of VACUUM's cleanup, rewrites a lone bolt too.
Compacting(b) == job[b] = "vacuumcleanup" /\ ret[b] = "done" /\ nbolt < MaxBolts

\* weave_merge_selected_ex() up to its commit: read the directory, write the output.
weave_merge_selected(b, S) ==
    /\ pc[b] = "merge"
    /\ Cardinality(S) >= 2 \/ (Compacting(b) /\ S # {})
    /\ sel' = [sel EXCEPT ![b] = [i \in S |-> segs[i]]]
    /\ Goto(b, "merge_commit")
    /\ UNCHANGED <<heapVars, metaVars, mutex, job, row, tries, ret, flushVars, vacVars>>

\* A faulty variant of the next definition: an aborted commit taken for a merge.
commit_aborted(b) ==
    /\ pc[b] = "merge_commit"
    /\ Goto(b, "merge")
    /\ sel' = [sel EXCEPT ![b] = << >>]
    /\ UNCHANGED <<heapVars, metaVars, mutex, job, row, tries, ret, flushVars, vacVars>>

\* Its commit record.  An input that is gone means another merge took it: no
\* record is written and the merge loop ends.
weave_merge_commit(b) ==
    LET S == Consumed(b)
    IN  /\ pc[b] = "merge_commit"
        /\ IF Cardinality(S) = Cardinality(DOMAIN sel[b])
           THEN /\ segs' = ReplaceBolts(S, NewBolt(MergedDocs(sel[b])))
                /\ nbolt' = nbolt + 1
                /\ BumpGeneration
                /\ Goto(b, "merge")
           ELSE /\ Goto(b, "merge_stop")
                /\ UNCHANGED <<segs, nbolt, gen>>
        /\ sel' = [sel EXCEPT ![b] = << >>]
        /\ UNCHANGED <<heapVars, pend, mutex, job, row, tries, ret, flushVars, vacVars>>

\* No (further) candidate: the session goes on where it was called from.  An
\* oversized INSERT releases the mutex before it tries the directory again.
weave_merge_stop(b) ==
    /\ pc[b] \in {"merge", "merge_stop"}
    /\ IF ret[b] = "done" THEN Rest(b)
       ELSE /\ Goto(b, ret[b])
            /\ mutex' = IF ret[b] = "add_segment" THEN NoBackend ELSE mutex
            /\ UNCHANGED <<job, row, mergeVars, flushVars, vacVars>>
    /\ UNCHANGED <<heapVars, metaVars>>

-----------------------------------------------------------------------------
(* The pending flush: the session holds the mutex.                         *)

\* Where a maintenance statement goes on once the pending list is folded.
AfterFlush(b) == IF job[b] = "bulkdelete" THEN "bulkdelete" ELSE "done"

\* The walk of the pending pages.  An append goes to the tail page or to a page
\* linked after it, and the walk reads a page's items and its nextblk under one
\* lock, so it sees the list as it stands when it reads the last page.
weave_flush_pending(b) ==
    /\ pc[b] = "flush"
    /\ tries' = [tries EXCEPT ![b] = 0]
    /\ ret' = [ret EXCEPT ![b] = AfterFlush(b)]
    /\ IF pend = << >>
       THEN /\ Goto(b, IF job[b] = "bulkdelete" THEN "bulkdelete" ELSE "merge")
            /\ UNCHANGED flushVars
       ELSE /\ Goto(b, "add_and_cut")
            /\ built' = [built EXCEPT ![b] = {pend[i] : i \in DOMAIN pend}]
            /\ cut' = [cut EXCEPT ![b] = Len(pend)]
    /\ UNCHANGED <<heapVars, metaVars, mutex, job, row, sel, vacVars>>

\* Faulty variants of the next definition: the list is emptied, or not cut.
KeptPending_none(b) == << >>
KeptPending_all(b) == pend

\* The items the cut keeps: those appended since the walk.
KeptPending(b) == SubSeq(pend, cut[b] + 1, Len(pend))

\* The bolt's add and the list's cut, one record; a full directory writes nothing.
weave_flush_add_and_cut(b) ==
    /\ pc[b] = "add_and_cut"
    /\ Len(segs) < MaxSegments
    /\ segs' = Append(segs, NewBolt(built[b]))
    /\ nbolt' = nbolt + 1
    /\ pend' = KeptPending(b)
    /\ BumpGeneration
    /\ Goto(b, "merge")
    /\ ret' = [ret EXCEPT ![b] = AfterFlush(b)]
    /\ built' = [built EXCEPT ![b] = {}]
    /\ cut' = [cut EXCEPT ![b] = 0]
    /\ UNCHANGED <<heapVars, mutex, job, row, tries, sel, vacVars>>

\* weave_add_segment_with_room_ex(): merge and try again, MaxSegments times.  The
\* flush already holds the mutex; the oversized INSERT has to take it.
weave_add_segment_with_room(b) ==
    /\ pc[b] \in {"add_and_cut", "add_segment"}
    /\ Len(segs) >= MaxSegments
    /\ tries[b] < MaxSegments
    /\ tries' = [tries EXCEPT ![b] = @ + 1]
    /\ ret' = [ret EXCEPT ![b] = pc[b]]
    /\ Goto(b, IF pc[b] = "add_and_cut" THEN "merge" ELSE "lock")
    /\ UNCHANGED <<heapVars, metaVars, mutex, job, row, sel, flushVars, vacVars>>

\* It gives up with an ERROR: the flush or the INSERT fails.
weave_directory_full(b) ==
    /\ pc[b] \in {"add_and_cut", "add_segment"}
    /\ Len(segs) >= MaxSegments
    /\ tries[b] >= MaxSegments
    /\ st' = [t \in Tids |-> IF t = row[b] THEN "dead" ELSE st[t]]
    /\ Rest(b)
    /\ UNCHANGED <<inc, nul, metaVars>>

-----------------------------------------------------------------------------
(* INSERT of a document larger than a page: a bolt of its own.             *)

weave_insert_oversized_as_segment(b, t) ==
    /\ pc[b] = "idle"
    /\ st[t] = "busy"
    /\ ~Owned(t)
    /\ row' = [row EXCEPT ![b] = t]
    /\ job' = [job EXCEPT ![b] = "insert"]
    /\ built' = [built EXCEPT ![b] = {EntryOf(t)}]
    /\ tries' = [tries EXCEPT ![b] = 0]
    /\ Goto(b, "add_segment")
    /\ UNCHANGED <<heapVars, metaVars, mutex, ret, sel, cut, vacVars>>

weave_meta_add_segment(b) ==
    /\ pc[b] = "add_segment"
    /\ Len(segs) < MaxSegments
    /\ segs' = Append(segs, NewBolt(built[b]))
    /\ nbolt' = nbolt + 1
    /\ BumpGeneration
    /\ st' = [st EXCEPT ![row[b]] = "indexed"]
    /\ Goto(b, "small_runs")
    /\ built' = [built EXCEPT ![b] = {}]
    /\ UNCHANGED <<inc, nul, pend, mutex, job, row, mergeVars, cut, vacVars>>

\* A faulty variant of the next definition: the merge runs without the mutex.
small_runs_merge_unlocked(b) ==
    /\ pc[b] = "small_runs"
    /\ ret' = [ret EXCEPT ![b] = "done"]
    /\ Goto(b, "merge")
    /\ UNCHANGED <<heapVars, metaVars, mutex, job, row, tries, sel, flushVars, vacVars>>

\* The opportunistic merge of small bolts, if the mutex is free at once.
weave_small_runs_merge(b) ==
    /\ pc[b] = "small_runs"
    /\ mutex = NoBackend
    /\ mutex' = b
    /\ ret' = [ret EXCEPT ![b] = "done"]
    /\ Goto(b, "merge")
    /\ UNCHANGED <<heapVars, metaVars, job, row, tries, sel, flushVars, vacVars>>

weave_small_runs_skip(b) ==
    /\ pc[b] = "small_runs"
    /\ Rest(b)
    /\ UNCHANGED <<heapVars, metaVars>>

-----------------------------------------------------------------------------
(* Maintenance statements.  VACUUM's lock on the table lets one run.       *)

Vacuuming == \E b \in Backends : job[b] \in {"bulkdelete", "vacuumcleanup"}

weave_merge(b) ==
    /\ pc[b] = "idle"
    /\ job' = [job EXCEPT ![b] = "merge"]
    /\ Goto(b, "lock")
    /\ UNCHANGED <<heapVars, metaVars, mutex, row, mergeVars, flushVars, vacVars>>

\* VACUUM's heap pass.  The index is visited only if it found dead rows.
vacuum_heap_scan(b) ==
    LET D == {t \in Tids : st[t] = "dead"}
    IN  /\ pc[b] = "idle"
        /\ ~Vacuuming
        /\ vdead' = [vdead EXCEPT ![b] = D]
        /\ job' = [job EXCEPT ![b] = IF D = {} THEN "vacuumcleanup" ELSE "bulkdelete"]
        /\ Goto(b, "lock")
        /\ UNCHANGED <<heapVars, metaVars, mutex, row, mergeVars, flushVars, dir, slot>>

\* A faulty variant of the next definition: the copy leaves out the bolts that have
\* nothing live, and its positions are no longer the directory's.
bulkdelete_compacted(b) ==
    /\ pc[b] = "bulkdelete"
    /\ dir' = [dir EXCEPT ![b] = SelectSeq(segs, LAMBDA g : LiveDocs(g) # {})]
    /\ slot' = [slot EXCEPT ![b] = 1]
    /\ Goto(b, "swap")
    /\ UNCHANGED <<heapVars, metaVars, mutex, job, row, mergeVars, flushVars, vdead>>

\* weave_bulkdelete() once the pending list is folded: its copy of the directory.
weave_bulkdelete(b) ==
    /\ pc[b] = "bulkdelete"
    /\ dir' = [dir EXCEPT ![b] = segs]
    /\ slot' = [slot EXCEPT ![b] = 1]
    /\ Goto(b, "swap")
    /\ UNCHANGED <<heapVars, metaVars, mutex, job, row, mergeVars, flushVars, vdead>>

\* A faulty variant of the next definition: the blob holds this VACUUM's tombstones only.
NewDead_fresh(b, g) == TidsOf(g.docs) \cap vdead[b]

\* The tombstones bulkdelete writes for a bolt: the old ones, and every document
\* the callback says is dead.
NewDead(b, g) == g.dead \cup (TidsOf(g.docs) \cap vdead[b])

\* The record that swaps in one bolt's new livedocs blob.
weave_bulkdelete_swap(b) ==
    /\ pc[b] = "swap"
    /\ slot[b] <= Len(dir[b])
    /\ IF slot[b] <= Len(segs)
       THEN /\ segs' = [segs EXCEPT ![slot[b]].dead = NewDead(b, dir[b][slot[b]])]
            /\ BumpGeneration
       ELSE UNCHANGED <<segs, gen>>
    /\ slot' = [slot EXCEPT ![b] = @ + 1]
    /\ UNCHANGED <<heapVars, pend, nbolt, mutex, pc, job, row, mergeVars, flushVars, dir, vdead>>

weave_bulkdelete_end(b) ==
    /\ pc[b] = "swap"
    /\ slot[b] > Len(dir[b])
    /\ mutex' = NoBackend
    /\ Goto(b, "heap_vacuum")
    /\ dir' = [dir EXCEPT ![b] = << >>]
    /\ slot' = [slot EXCEPT ![b] = 1]
    /\ UNCHANGED <<heapVars, metaVars, job, row, mergeVars, flushVars, vdead>>

\* VACUUM's second heap pass frees the line pointers, then weave_vacuumcleanup().
vacuum_heap(b) ==
    /\ pc[b] = "heap_vacuum"
    /\ st' = [t \in Tids |-> IF t \in vdead[b] THEN "unused" ELSE st[t]]
    /\ vdead' = [vdead EXCEPT ![b] = {}]
    /\ job' = [job EXCEPT ![b] = "vacuumcleanup"]
    /\ Goto(b, "lock")
    /\ UNCHANGED <<inc, nul, metaVars, mutex, row, mergeVars, flushVars, dir, slot>>

-----------------------------------------------------------------------------
HeapStep ==
    \E t \in Tids :
        \/ \E isnull \in NullFlags : heap_insert(t, isnull)
        \/ heap_commit(t)
        \/ heap_kill(t)

\* The records that also write the corpus counters (WeaveStats).
CountedStep(b) ==
    \/ weave_flush_add_and_cut(b)
    \/ weave_meta_add_segment(b)
    \/ weave_bulkdelete_swap(b)

UncountedStep(b) ==
    \/ weave_maintenance_lock(b)
    \/ \E S \in SUBSET DOMAIN segs : weave_merge_selected(b, S)
    \/ weave_merge_commit(b)
    \/ weave_merge_stop(b)
    \/ weave_flush_pending(b)
    \/ weave_add_segment_with_room(b)
    \/ weave_directory_full(b)
    \/ weave_small_runs_merge(b)
    \/ weave_small_runs_skip(b)
    \/ weave_bulkdelete(b)
    \/ weave_bulkdelete_end(b)
    \/ vacuum_heap(b)

SessionStep(b) == CountedStep(b) \/ UncountedStep(b)

SessionStart(b) ==
    \/ weave_merge(b)
    \/ vacuum_heap_scan(b)
    \/ \E t \in Tids : weave_insert_oversized_as_segment(b, t)

Next ==
    \/ HeapStep
    \/ \E t \in Tids : weave_insert(t)
    \/ \E b \in Backends : SessionStart(b) \/ SessionStep(b) \/ Abandon(b)
    \/ Crash

Spec == Init /\ [][Next]_vars

-----------------------------------------------------------------------------
(* Liveness: no error, no crash.  A session that can take a step takes it;  *)
(* the lock manager queues requests for the mutex in order, so a waiter is  *)
(* not overtaken for ever; autovacuum keeps coming; a full directory has    *)
(* more bolts than merge levels, so some pass over it finds two to merge.   *)

UndisturbedNext ==
    \/ HeapStep
    \/ \E t \in Tids : weave_insert(t)
    \/ \E b \in Backends : SessionStart(b) \/ SessionStep(b)

Fairness ==
    \A b \in Backends :
        /\ WF_vars(SessionStep(b))
        /\ SF_vars(weave_maintenance_lock(b))
        /\ SF_vars(vacuum_heap_scan(b))
        /\ SF_vars(Len(segs) >= MaxSegments
                     /\ \E S \in SUBSET DOMAIN segs : weave_merge_selected(b, S))

LiveSpec == Init /\ [][UndisturbedNext]_vars /\ Fairness

-----------------------------------------------------------------------------
(* Properties *)

HoldsMutex(b) ==
    pc[b] \in {"flush", "add_and_cut", "merge", "merge_commit", "merge_stop",
               "bulkdelete", "swap"}

Labels == {"idle", "lock", "flush", "add_and_cut", "add_segment", "small_runs", "merge",
           "merge_commit", "merge_stop", "bulkdelete", "swap", "heap_vacuum"}

Jobs == {"none", "insert", "merge", "bulkdelete", "vacuumcleanup"}

\* The type invariant: what each variable holds.
TypeOK ==
    /\ st \in [Tids -> {"unused", "busy", "indexed", "live", "dead"}]
    /\ inc \in [Tids -> Nat]
    /\ nul \in [Tids -> BOOLEAN]
    /\ segs \in Seq(Bolt)
    /\ pend \in Seq(Entry)
    /\ gen \in 0..(GenMod - 1)
    /\ nbolt \in Nat
    /\ mutex \in Backends \cup {NoBackend}
    /\ pc \in [Backends -> Labels]
    /\ job \in [Backends -> Jobs]
    /\ row \in [Backends -> Tids \cup {NoTid}]
    /\ tries \in [Backends -> Nat]
    /\ ret \in [Backends -> {"done", "bulkdelete", "add_and_cut", "add_segment"}]
    /\ built \in [Backends -> SUBSET Entry]
    /\ cut \in [Backends -> Nat]
    /\ DOMAIN sel = Backends
    /\ \A b \in Backends : \A i \in DOMAIN sel[b] : sel[b][i] \in Bolt
    /\ dir \in [Backends -> Seq(Bolt)]
    /\ slot \in [Backends -> Nat \ {0}]
    /\ vdead \in [Backends -> SUBSET Tids]

\* Every document a scan of the current metapage would meet.
Indexed(e) ==
    \/ \E i \in DOMAIN segs : e \in LiveDocs(segs[i])
    \/ \E i \in DOMAIN pend : pend[i] = e

\* No row is lost: a row whose index insert is done is met by a scan, until it is
\* dead -- through concurrent flushes that cut the list under running INSERTs,
\* merges, VACUUMs, errors and crashes.
NoRowLost ==
    \A t \in Tids : st[t] \in {"indexed", "live"} => Indexed(EntryOf(t))

\* The entries that stand for a row now in the heap.
CurrentEntries == {EntryOf(t) : t \in {u \in Tids : st[u] \in {"indexed", "live", "dead"}}}

\* No entry outlives its row: an entry that is not tombstoned stands for the row
\* now at its line pointer, so no scan gives a reused line pointer the document,
\* vector or docvalue of the row that was there before.
NoStaleEntry ==
    /\ \A i \in DOMAIN segs : \A e \in LiveDocs(segs[i]) : e \in CurrentEntries
    /\ \A i \in DOMAIN pend : pend[i] \in CurrentEntries

\* No row is met twice: not in two bolts, not twice in the list, not in both.
NoRowTwice ==
    /\ \A i, j \in DOMAIN segs :
         i # j => LiveDocs(segs[i]) \cap LiveDocs(segs[j]) = {}
    /\ \A i, j \in DOMAIN pend : i # j => pend[i] # pend[j]
    /\ \A i \in DOMAIN segs, j \in DOMAIN pend : pend[j] \notin LiveDocs(segs[i])

\* A merge never loses its race: its inputs are in the directory, unchanged, when
\* it commits, because everything that removes or rewrites a bolt holds the mutex.
MergeInputsStay ==
    \A b \in Backends : pc[b] = "merge_commit" =>
        \A j \in DOMAIN sel[b] : \E i \in DOMAIN segs : segs[i] = sel[b][j]

\* bulkdelete writes each tombstone blob to the bolt it was computed from, though
\* it addresses the directory by position and oversized INSERTs append meanwhile.
SwapHitsItsBolt ==
    \A b \in Backends : pc[b] = "swap" =>
        \A i \in slot[b]..Len(dir[b]) : i <= Len(segs) /\ segs[i] = dir[b][i]

\* What every generation-bracketed scan relies on: a step that changes the bolt
\* directory or takes items off the pending list moves the generation; an append
\* to the list is the only change a scan need not notice.
GenerationMoves ==
    [][\/ gen' # gen
       \/ /\ segs' = segs
          /\ Len(pend) <= Len(pend') /\ SubSeq(pend', 1, Len(pend)) = pend]_<<segs, pend, gen>>

\* What the index holds, wherever it is.
Contents ==
    (UNION {LiveDocs(segs[i]) : i \in DOMAIN segs}) \cup {pend[i] : i \in DOMAIN pend}

Promise == INSTANCE WeaveContents WITH contents <- Contents

\* The index is a set of entries: flushes, merges, errors and crashes change none of it,
\* an entry that was taken out never comes back, VACUUM takes out dead rows only and
\* frees no line pointer that an entry is left for.
ImplementsContents == Promise!Spec

\* A session that waits for the maintenance mutex gets it, though INSERTs that
\* meet a full directory and every maintenance statement ask for it as well.
MutexGranted == \A b \in Backends : pc[b] = "lock" ~> pc[b] # "lock"

\* The line pointer of a dead row comes back for reuse: VACUUM gets past the
\* flush, even when the directory is full, and past every bolt's tombstones.
DeadRowReclaimed == \A t \in Tids : st[t] = "dead" ~> st[t] = "unused"

=============================================================================
