----------------------------- MODULE WeaveMerge -----------------------------
(***************************************************************************)
(* Which bolts a merge takes and what it writes: the leveled compaction of *)
(* weave_merge_segments(), the full compaction of weave_merge_all() with   *)
(* its parallel pass, the rules that keep bolts apart (vector geometries,  *)
(* cgram wefts, damage), and the contents of a merged bolt.                *)
(*                                                                         *)
(* One session merges, for it holds the maintenance mutex (WeaveIndex has  *)
(* the mutex); oversized INSERTs append bolts at any time.  A bolt is what *)
(* its wefts say of its documents: which are there, which are tombstoned,  *)
(* which have a vector lane, which have character trigrams, which the      *)
(* document list names.                                                    *)
(***************************************************************************)
EXTENDS WeaveDirectory, FiniteSetsExt, SequencesExt

CONSTANTS
    MaxSegments,   \* WEAVE_MAX_SEGMENTS
    Fanout,        \* WEAVE_MERGE_FANOUT
    Threshold,     \* WEAVE_MERGE_THRESHOLD
    MaxLevels,     \* WEAVE_MERGE_MAX_LEVELS
    MaxPairs,      \* WEAVE_CGRAM_MAX_PAIRS, counted in documents
    Request,       \* parallel workers asked for
    Geometries,    \* the vector geometries: dimension, metric and codes
    Jobs,          \* the statements a session may run
    Directories,   \* the directories to start from, sequences of kinds of bolt
    Arrivals,      \* the kinds of bolt that an INSERT appends
    MaxArrivals    \* bound: how many bolts are appended

ASSUME MergeAssumption ==
    /\ Fanout \in Nat \ {0, 1} /\ MaxLevels \in Nat \ {0}
    /\ MaxSegments \in Nat \ {0, 1} /\ Threshold \in 0..(MaxSegments - 1)
    /\ Request \in Nat /\ MaxArrivals \in Nat /\ MaxPairs \in Nat

\* A kind of bolt: n live documents and tomb dead ones of its own, whether it has
\* the reused line pointer, its wefts and its damage.
Kind == [n : Nat, tomb : Nat, reused : {"no", "dead", "live"}, geom : Geometries \union {"none", "torn"},
         grams : BOOLEAN, complete : BOOLEAN, bad : {"no", "chain", "weft"}]

\* A directory has room for its bolts, and the heap gave the line pointer out once; a
\* bolt an INSERT appends has no tombstones.
ASSUME KindAssumption ==
    /\ \A ks \in Directories :
        /\ ks \in Seq(Kind) /\ Len(ks) <= MaxSegments
        /\ \A i, j \in DOMAIN ks : ks[i].reused = "live" /\ ks[j].reused = "live" => i = j
    /\ \A k \in Arrivals : k \in Kind /\ k.tomb = 0 /\ k.reused # "dead"

VARIABLES
    segs,      \* the bolt directory
    nbolt,     \* bolts written and published so far
    freed,     \* the ids of the bolts whose pages were freed, in order
    job,       \* the statement being run
    pc,        \* where it is
    guard,     \* passes of the present loop
    skip,      \* WeaveMergeSkip: bolts found damaged
    plan,      \* the loop's copy of the directory
    sel,       \* the positions it chose there
    chosen,    \* position |-> descriptor, as read again by the merge
    src,       \* WeaveMergeShared.src: the bolts of the parallel pass
    worker,    \* worker[g]: what became of group g
    outvalid,  \* the groups whose participant wrote a bolt
    arrived,   \* bolts appended so far
    owed,      \* the live documents and what is known of each (history)
    quiet,     \* no bolt arrived during this loop (history)
    ended      \* the loop that ended last, when it ended undisturbed (history)

dirVars == <<segs, nbolt, freed>>
history == <<owed, quiet, ended>>
loopVars == <<guard, skip, plan, sel, chosen>>
parVars == <<src, worker, outvalid>>
vars == <<segs, nbolt, freed, job, pc, guard, skip, plan, sel, chosen, src,
          worker, outvalid, arrived, owed, quiet, ended>>

-----------------------------------------------------------------------------
(* Bolts *)

\* The line pointer that one bolt has tombstoned and another carries again for a later
\* row; a bolt's own documents are <<id, number>>.
Reused == <<0, 0>>

\* The bolt of id i and kind k.
BoltOf(i, k) ==
    LET docs == {<<i, j>> : j \in 1..(k.n + k.tomb)} \union
                (IF k.reused = "no" THEN {} ELSE {Reused})
    IN  [id |-> i, docs |-> docs,
         dead |-> {<<i, j>> : j \in 1..k.tomb} \union
                  (IF k.reused = "dead" THEN {Reused} ELSE {}),
         geom |-> k.geom, lanes |-> IF k.geom = "none" THEN {} ELSE docs,
         grams |-> IF k.grams THEN docs ELSE {},
         listed |-> IF k.complete THEN docs ELSE docs \intersect {<<i, 1>>},
         complete |-> k.complete, bad |-> k.bad]

Live(b) == b.docs \ b.dead

\* What is owed of the live documents of bolt b.
OwedOf(b) == {[doc |-> d, geom |-> b.geom, gram |-> d \in b.grams] : d \in Live(b)}

Bolts(ks) == [i \in DOMAIN ks |-> BoltOf(i, ks[i])]

BoltsIn(s) == {s[i] : i \in DOMAIN s}

-----------------------------------------------------------------------------
(* The rules that keep bolts apart *)

\* weave_vec_merge_geom(): the vector wefts open and are of one geometry.
VecAgree(S) ==
    LET g == {b.geom : b \in S} \ {"none"} IN Cardinality(g) <= 1 /\ "torn" \notin g

\* A faulty variant of the next definition: a weft in some bolts is good enough.
CgramAgree_some(S) == TRUE

\* weave_segs_cgram_agree(): all carry a cgram weft, or none does.
CgramAgree(S) == (\A b \in S : b.grams = {}) \/ (\A b \in S : b.grams # {})

\* weave_seg_mergeable(), with the agreement of the whole directory D.
Mergeable(b, D) ==
    /\ CgramAgree(D) \/ b.grams = {}
    /\ VecAgree(D) \/ b.geom = "none"

-----------------------------------------------------------------------------
(* What a merge of the bolts in S writes: weave_merge_segments_streaming() *)

\* A faulty variant of the next definition: the tombstones of one input applied to all.
LiveIn_global(S, b, D) == D \ UNION {x.dead : x \in S}

\* merge_src_dropped(): the documents D of input b that its own tombstones leave.
LiveIn(S, b, D) == D \ b.dead

\* The list of the output names what the inputs' lists name, and is complete if
\* they all are.
MergedList(S) == UNION {LiveIn(S, b, b.listed) : b \in S}

\* Lanes are copied, never quantized again; documents without one get a dead lane.
MergedLanes(S) == UNION {LiveIn(S, b, b.lanes) : b \in S}

\* The pairs of the inputs' wefts, or no weft at all when they are too many.
MergedGrams(S) ==
    LET g == UNION {LiveIn(S, b, b.grams) : b \in S}
    IN  IF Cardinality(g) <= MaxPairs THEN g ELSE {}

\* A weft without a live lane is not written.
MergedGeom(S) ==
    IF MergedLanes(S) = {} THEN "none"
    ELSE CHOOSE g \in {b.geom : b \in S} : g # "none"

MergedBolt(S, i) ==
    [id |-> i, docs |-> UNION {LiveIn(S, b, b.docs) : b \in S}, dead |-> {},
     geom |-> MergedGeom(S), lanes |-> MergedLanes(S), grams |-> MergedGrams(S),
     listed |-> MergedList(S), complete |-> \A b \in S : b.complete, bad |-> "no"]

-----------------------------------------------------------------------------
(* The choice of the bolts to merge *)

\* The size a bolt is ranked by, at least 1.
MergeSize(b) == Max({1, Cardinality(Live(b))})

\* weave_seg_level(): sizes below Fanout are of level 0, below Fanout^2 of level 1...
Level(b) ==
    CHOOSE l \in 0..(MaxLevels - 1) :
        /\ l < MaxLevels - 1 => MergeSize(b) < Fanout^(l + 1)
        /\ l > 0 => ~(MergeSize(b) < Fanout^l)

\* The positions of D that may be merged.
Candidates(D) ==
    {i \in DOMAIN D : Mergeable(D[i], BoltsIn(D)) /\ D[i] \notin skip}

AtLevel(D, l) == {i \in Candidates(D) : Level(D[i]) = l}

\* The lowest level with so many candidates, or -1.
LowestLevel(D, n) ==
    LET L == {l \in 0..(MaxLevels - 1) : Cardinality(AtLevel(D, l)) >= n}
    IN  IF L = {} THEN -1 ELSE Min(L)

\* A faulty variant of the next definition: only a full level is merged.
Target_full(D) == LowestLevel(D, Fanout)

\* The level weave_merge_segments() merges: a full one, or with too many bolts the
\* lowest where two can be merged.
Target(D) ==
    IF LowestLevel(D, Fanout) >= 0 \/ Len(D) <= Threshold
    THEN LowestLevel(D, Fanout) ELSE LowestLevel(D, 2)

\* The positions the running loop chooses from.
Pool(D) ==
    IF job \in {"segments", "build"}
    THEN AtLevel(D, Target(D))
    ELSE Candidates(D)

\* The smallest bolts of a pool, as many as one merge takes (cmp_mergecand); qsort
\* leaves the order of equal ones open.
Smallest(D, C) ==
    {T \in kSubset(Min({Fanout, Cardinality(C)}), C) :
        \A i \in T, j \in C \ T : MergeSize(D[i]) <= MergeSize(D[j])}

-----------------------------------------------------------------------------
Init ==
    /\ \E ks \in Directories :
        /\ segs = Bolts(ks)
        /\ nbolt = Len(ks)
        /\ owed = UNION {OwedOf(BoltOf(i, ks[i])) : i \in DOMAIN ks}
    /\ freed = << >>
    /\ job = "none" /\ pc = "idle"
    /\ guard = 0 /\ skip = {} /\ plan = << >> /\ sel = {} /\ chosen = << >>
    /\ src = << >> /\ worker = << >> /\ outvalid = {}
    /\ arrived = 0 /\ quiet = TRUE /\ ended = "none"

\* weave_add_segment() of an oversized INSERT, whose row may have a line pointer that is
\* tombstoned in some bolt and live in none (NoRowTwice of WeaveIndex).
weave_add_segment(k) ==
    LET b == BoltOf(nbolt + 1, k)
    IN  /\ Len(segs) < MaxSegments
        /\ arrived < MaxArrivals
        /\ k.reused = "live" => \A i \in DOMAIN segs : Reused \notin Live(segs[i])
        /\ arrived' = arrived + 1
        /\ segs' = Append(segs, b)
        /\ nbolt' = nbolt + 1
        /\ owed' = owed \union OwedOf(b)
        /\ quiet' = FALSE
        /\ ended' = "none"
        /\ UNCHANGED <<freed, job, pc, loopVars, parVars>>

\* A statement begins: a flush or VACUUM runs weave_merge_segments(), weave_merge()
\* runs weave_merge_all() with or without a parallel pass, a build finalizes.
Begin(j) ==
    /\ pc = "idle"
    /\ job' = j
    /\ pc' = IF j = "parallel" /\ Request > 0 THEN "parallel" ELSE "loop"
    /\ guard' = 0 /\ skip' = {}
    /\ quiet' = TRUE /\ ended' = "none"
    /\ UNCHANGED <<dirVars, plan, sel, chosen, parVars, arrived, owed>>

\* The loop is over; finished says that no refused merge ended it.
EndLoop(finished) ==
    /\ ended' = IF finished /\ quiet THEN job ELSE "none"
    /\ pc' = IF job = "build" THEN "finalize" ELSE "idle"
    /\ plan' = << >> /\ sel' = {} /\ chosen' = << >>
    /\ UNCHANGED <<guard, skip, job, quiet>>

\* weave_build_finalize(): the whole index is collapsed if it is small.
weave_build_finalize ==
    /\ pc = "finalize"
    /\ \/ /\ pc' = "loop" /\ job' = "all" /\ guard' = 0 /\ skip' = {} /\ quiet' = TRUE
          /\ ended' = "none"
       \/ /\ pc' = "idle"
          /\ UNCHANGED <<job, guard, skip, quiet, ended>>
    /\ UNCHANGED <<dirVars, plan, sel, chosen, parVars, arrived, owed>>

-----------------------------------------------------------------------------
(* One pass of the loop: plan, merge, commit *)

\* The pass reads the directory and chooses.
weave_merge_plan ==
    /\ pc = "loop"
    /\ \E pool \in {Pool(segs)} :
        IF guard >= MaxSegments \/ Len(segs) <= 1 \/ Cardinality(pool) < 2
        THEN EndLoop(TRUE)
        ELSE /\ sel' \in Smallest(segs, pool)
             /\ plan' = segs
             /\ pc' = "merge"
             /\ UNCHANGED <<guard, skip, chosen, job, quiet, ended>>
    /\ UNCHANGED <<dirVars, parVars, arrived, owed>>

\* The damaged inputs that may be met first: the loop checks them by size.
FirstDamaged(S) ==
    LET D == {i \in S : segs[i].bad = "chain"}
    IN  {i \in D : \A j \in D : MergeSize(segs[i]) <= MergeSize(segs[j])}

\* A faulty variant of the next definition: the damaged bolt is not remembered.
SkipDamaged_forget(i) == skip' = skip

\* weave_merge_selected_or_skip(): the caller's copy of the damaged bolt is remembered.
SkipDamaged(i) == skip' = skip \union {plan[i]}

\* weave_merge_selected_ex() up to its commit.  A refusal for a damaged input lets the
\* loop go on without it, any other refusal ends the loop.
weave_merge_selected ==
    LET S == {segs[i] : i \in sel}
    IN  /\ pc = "merge"
        /\ sel \subseteq DOMAIN segs
        /\ \/ /\ ~(VecAgree(S) /\ CgramAgree(S))
              /\ EndLoop(FALSE)
           \/ /\ VecAgree(S) /\ CgramAgree(S)
              /\ \E i \in FirstDamaged(sel) :
                    IF Cardinality(skip) < MaxSegments
                    THEN /\ SkipDamaged(i)
                         /\ pc' = "loop"
                         /\ guard' = guard + 1
                         /\ UNCHANGED <<plan, sel, chosen, job, quiet, ended>>
                    ELSE EndLoop(FALSE)
           \/ /\ VecAgree(S) /\ CgramAgree(S)
              /\ FirstDamaged(sel) = {}
              /\ IF \E b \in S : b.bad = "weft"
                 THEN EndLoop(FALSE)
                 ELSE /\ chosen' = [i \in sel |-> segs[i]]
                      /\ pc' = "commit"
                      /\ UNCHANGED <<guard, skip, plan, sel, job, quiet, ended>>
        /\ UNCHANGED <<dirVars, parVars, arrived, owed>>

\* The positions of the directory that hold the bolts of S.
Found(S) == {i \in DOMAIN segs : segs[i] \in S}

\* A faulty variant of the next definition: one input's descriptor is left in.
Replaced_one(C, new) == Rewritten(segs, C \ {Min(C)}, new)

\* The directory without the positions in C, then the bolts of new.
Replaced(C, new) == Rewritten(segs, C, new)

\* Its commit: the inputs are found again by content, replaced and freed; an input
\* that is gone ends the loop.
weave_merge_commit ==
    LET S == BoltsIn(chosen)
    IN  /\ pc = "commit"
        /\ IF Cardinality(Found(S)) = Cardinality(S)
           THEN /\ segs' = Replaced(Found(S), <<MergedBolt(S, nbolt + 1)>>)
                /\ nbolt' = nbolt + 1
                /\ freed' = freed \o SetToSeq({b.id : b \in S})
                /\ pc' = "loop"
                /\ guard' = guard + 1
                /\ UNCHANGED <<skip, plan, sel, chosen, job, quiet, ended>>
           ELSE /\ EndLoop(FALSE)
                /\ UNCHANGED dirVars
        /\ UNCHANGED <<parVars, arrived, owed>>

-----------------------------------------------------------------------------
(* The parallel pass of weave_merge_all() *)

Ngroups == Min({Request + 1, Len(src)})

\* groupoff[]: the sources of group g.
Group(g) == {src[i] : i \in ((g * Len(src)) \div Ngroups + 1)..(((g + 1) * Len(src)) \div Ngroups)}

\* weave_merge_all_parallel() up to the launch: n workers start, worker k for group
\* k + 1; without a worker, or with two sources, there is no parallel pass.
weave_merge_all_parallel(n) ==
    LET s == Rewritten(segs, {i \in DOMAIN segs : ~Mergeable(segs[i], BoltsIn(segs))}, << >>)
        groups == Min({Request + 1, Len(s)})
    IN  /\ pc = "parallel"
        /\ IF Len(segs) <= 2 \/ Len(s) <= 2 \/ n = 0
           THEN /\ pc' = "loop"
                /\ UNCHANGED parVars
           ELSE /\ src' = s
                /\ worker' = [g \in 0..(groups - 1) |-> IF g <= n THEN "runs" ELSE "absent"]
                /\ outvalid' = {}
                /\ pc' = "workers"
        /\ UNCHANGED <<dirVars, job, loopVars, arrived, history>>

\* weave_merge_one_group(), in the leader for group 0: one source, disagreeing or
\* damaged sources leave the group as it is.
weave_merge_one_group(g) ==
    LET S == Group(g)
    IN  /\ pc = "workers"
        /\ worker[g] = "runs"
        /\ worker' = [worker EXCEPT ![g] = "done"]
        /\ outvalid' = IF /\ Cardinality(S) > 1
                          /\ VecAgree(S) /\ CgramAgree(S)
                          /\ \A b \in S : b.bad = "no"
                       THEN outvalid \union {g} ELSE outvalid
        /\ UNCHANGED <<dirVars, job, pc, loopVars, src, arrived, history>>

\* The groups whose output is installed: their sources are all still there.
Committed == {g \in outvalid : Cardinality(Found(Group(g))) = Cardinality(Group(g))}

\* A faulty variant of the next definition: the leader waits for a worker per group.
WorkersDone_all == \A g \in DOMAIN worker : worker[g] = "done"

\* WaitForParallelWorkersToFinish() waits for the workers that were launched.
WorkersDone == \A g \in DOMAIN worker : worker[g] # "runs"

\* The leader's one directory update for all the groups, and the frees after it.
weave_merge_parallel_commit ==
    LET G == Rewritten([k \in 1..Ngroups |-> k - 1],
                       {k \in 1..Ngroups : k - 1 \notin Committed}, << >>)
        S == UNION {Group(g) : g \in Committed}
    IN  /\ pc = "workers"
        /\ WorkersDone
        /\ segs' = Replaced(Found(S), [k \in DOMAIN G |-> MergedBolt(Group(G[k]), nbolt + k)])
        /\ nbolt' = nbolt + Len(G)
        /\ freed' = freed \o SetToSeq({b.id : b \in S})
        /\ pc' = "loop"
        /\ src' = << >> /\ worker' = << >> /\ outvalid' = {}
        /\ UNCHANGED <<job, loopVars, arrived, history>>

\* An error in the session or in a worker, or a crash: nothing is published, what was
\* written is stranded.
Abort ==
    /\ pc # "idle"
    /\ pc' = "idle"
    /\ guard' = 0 /\ skip' = {} /\ plan' = << >> /\ sel' = {} /\ chosen' = << >>
    /\ src' = << >> /\ worker' = << >> /\ outvalid' = {}
    /\ ended' = "none"
    /\ UNCHANGED <<dirVars, job, arrived, owed, quiet>>

Session ==
    \/ weave_build_finalize
    \/ weave_merge_plan
    \/ weave_merge_selected
    \/ weave_merge_commit
    \/ \E n \in 0..Request : weave_merge_all_parallel(n)
    \/ weave_merge_parallel_commit

Next ==
    \/ \E k \in Arrivals : weave_add_segment(k)
    \/ \E j \in Jobs : Begin(j)
    \/ Session
    \/ \E g \in DOMAIN worker : weave_merge_one_group(g)
    \/ Abort

\* The session and its workers run until they are done.
Fairness ==
    /\ WF_vars(Session)
    /\ WF_vars(\E g \in DOMAIN worker : weave_merge_one_group(g))

Spec == Init /\ [][Next]_vars /\ Fairness

-----------------------------------------------------------------------------
(* Properties *)
\* Whatever is merged with whatever, by whichever participant, every live document is
\* live in exactly one bolt of the directory, its vector is there with the geometry it
\* was quantized with, and no tombstoned document has come back.
DocsKept ==
    /\ \A r \in owed : \E i \in DOMAIN segs :
        /\ r.doc \in Live(segs[i])
        /\ \A j \in DOMAIN segs : r.doc \in Live(segs[j]) => j = i
        /\ r.geom # "none" => r.doc \in segs[i].lanes /\ segs[i].geom = r.geom
    /\ \A i \in DOMAIN segs : Live(segs[i]) \subseteq {r.doc : r \in owed}

\* A bolt that has a cgram weft, or a document list that says it is complete, has it
\* for every live document it holds: a scan that trusts the weft would drop the others.
WeftsCover ==
    \A i \in DOMAIN segs :
        /\ segs[i].grams # {} =>
              \A r \in owed : r.doc \in Live(segs[i]) /\ r.gram => r.doc \in segs[i].grams
        /\ segs[i].complete => Live(segs[i]) \subseteq segs[i].listed

\* The pages of a bolt are freed at most once, and not while the directory names it.
FreedOnce ==
    /\ IsInjective(freed)
    /\ \A i \in DOMAIN segs : segs[i].id \notin ToSet(freed)

\* A loop that ran undisturbed ended because it was finished, not because its guard
\* ran out or a damaged bolt stopped it: nothing it may merge is left to merge.
Converged ==
    pc = "idle" =>
        /\ ended \in {"all", "parallel"} =>
              Len(segs) <= 1 \/ Cardinality(Candidates(segs)) <= 1
        /\ ended = "segments" => Len(segs) <= 1 \/ Target(segs) < 0

\* After an undisturbed leveled compaction a directory whose bolts are sound and agree
\* about their wefts has room: there are fewer levels than places.
RoomMade ==
    (/\ pc = "idle" /\ ended = "segments" /\ skip = {}
     /\ VecAgree(BoltsIn(segs)) /\ CgramAgree(BoltsIn(segs)))
    => Len(segs) <= Max({Threshold, MaxLevels, 1})

\* A merge statement comes to its end, however many workers were launched and whatever
\* is appended to the directory while it runs.
MergeEnds == pc # "idle" ~> pc = "idle"
=============================================================================
