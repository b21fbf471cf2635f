-------------------------- MODULE WeaveMergeProofs --------------------------
(***************************************************************************)
(* Proofs about WeaveMerge, for every directory, every fanout, threshold,  *)
(* capacity and number of workers: what a merge writes has every live      *)
(* document, vector and gram of what it replaces, no bolt is freed twice,  *)
(* and a compaction that runs undisturbed ends because it is finished.     *)
(***************************************************************************)
EXTENDS WeaveMerge, WeaveDirectoryProofs

-----------------------------------------------------------------------------
(* The inductive invariant *)

Doc == Nat \X Nat

BoltRecord ==
    [id : Nat, docs : SUBSET Doc, dead : SUBSET Doc, geom : Geometries \union {"none", "torn"},
     lanes : SUBSET Doc, grams : SUBSET Doc, listed : SUBSET Doc, complete : BOOLEAN, bad : {"no", "chain", "weft"}]

\* A bolt with vector lanes has a vector weft.
Bolt == {b \in BoltRecord : b.geom = "none" => b.lanes = {}}

\* The directory d names each bolt once, n is the last name given, and no bolt that was
\* freed is named.
NameInv(d, n, f) ==
    /\ \A i \in DOMAIN d : d[i].id \in 1..n
    /\ \A i, j \in DOMAIN d : d[i].id = d[j].id => i = j
    /\ \A k \in DOMAIN f : f[k] \in 1..n
    /\ \A k, l \in DOMAIN f : f[k] = f[l] => k = l
    /\ \A i \in DOMAIN d, k \in DOMAIN f : d[i].id # f[k]

\* A document's name tells the bolt it came with, which is older than the next one; it
\* is live in one bolt.
DocInv(d, n) ==
    /\ \A i \in DOMAIN d : \A e \in d[i].docs : e = Reused \/ e[1] \in 1..n
    /\ \A i, j \in DOMAIN d : \A e \in Live(d[i]) \cap Live(d[j]) : i = j

\* What bolt b has of what r says is owed.
Pays(b, r) ==
    /\ r.doc \in Live(b)
    /\ r.geom # "none" => r.doc \in b.lanes /\ b.geom = r.geom
    /\ r.gram /\ b.grams # {} => r.doc \in b.grams

\* Everything owed is there, and nothing else is live.
OwedInv(d, o) ==
    /\ \A r \in o : \E i \in DOMAIN d : Pays(d[i], r)
    /\ \A i \in DOMAIN d : \A e \in Live(d[i]) : \E r \in o : e = r.doc

\* A list that says it is complete is.
ListInv(d) == \A i \in DOMAIN d : d[i].complete => Live(d[i]) \subseteq d[i].listed

DirInv(d, n, o, f) ==
    /\ d \in Seq(Bolt) /\ n \in Nat /\ f \in Seq(Nat)
    /\ NameInv(d, n, f) /\ DocInv(d, n) /\ OwedInv(d, o) /\ ListInv(d)

\* The statement, its loop and what its loop remembers.
LoopInv ==
    /\ pc \in {"idle", "loop", "merge", "commit", "finalize", "parallel", "workers"}
    /\ guard \in Nat
    /\ Len(segs) <= MaxSegments
    /\ pc \notin {"idle", "finalize"} => ended = "none"
    /\ pc \in {"parallel", "workers"} => guard = 0 /\ skip = {}
    /\ pc \in {"merge", "commit"} =>
        /\ sel \subseteq DOMAIN segs /\ Cardinality(sel) >= 2
        /\ \A i \in sel : segs[i] \notin skip
    /\ pc = "merge" =>
        /\ DOMAIN plan \subseteq DOMAIN segs /\ sel \subseteq DOMAIN plan
        /\ \A i \in DOMAIN plan : plan[i] = segs[i]
    /\ pc = "commit" =>
        /\ DOMAIN chosen = sel /\ \A i \in sel : chosen[i] = segs[i]
        /\ VecAgree(BoltsIn(chosen)) /\ CgramAgree(BoltsIn(chosen))

\* The sources of the parallel pass, and what its participants found.
ParInv ==
    pc = "workers" =>
        /\ src \in Seq(Bolt) /\ Len(src) >= 1
        /\ \A i \in DOMAIN src : \E j \in DOMAIN segs : src[i] = segs[j]
        /\ \A i, j \in DOMAIN src : src[i] = src[j] => i = j
        /\ DOMAIN worker = 0..(Ngroups - 1) /\ outvalid \subseteq DOMAIN worker
        /\ \A g \in outvalid : Group(g) # {} /\ VecAgree(Group(g)) /\ CgramAgree(Group(g))

\* A loop nobody disturbs gains on its guard: a pass takes a bolt off the directory or
\* remembers one more as damaged.
PaceInv ==
    /\ quiet /\ pc # "idle" =>
        /\ skip \subseteq BoltsIn(segs)
        /\ guard + Len(segs) <= MaxSegments + Cardinality(skip)
    /\ ended \in {"all", "parallel"} =>
          Len(segs) <= 1 \/ Cardinality(Candidates(segs)) <= 1
    /\ ended = "segments" => Len(segs) <= 1 \/ Target(segs) < 0

MInv == DirInv(segs, nbolt, owed, freed) /\ LoopInv /\ ParInv /\ PaceInv

-----------------------------------------------------------------------------
(* What a merged bolt has *)

\* The values of a function on a finite set are finitely many.
LEMMA ValuesFinite ==
    ASSUME NEW d, IsFiniteSet(DOMAIN d)
    PROVE  IsFiniteSet(BoltsIn(d))
<1> DEFINE f == [i \in DOMAIN d |-> d[i]]
<1>1. f \in Surjection(DOMAIN d, BoltsIn(d))
  BY DEF Surjection, BoltsIn
<1> HIDE DEF f
<1> QED
  BY <1>1, FS_Surjection

\* A directory has finitely many bolts.
LEMMA BoltsFinite ==
    ASSUME NEW T, NEW d \in Seq(T)
    PROVE  IsFiniteSet(DOMAIN d) /\ IsFiniteSet(BoltsIn(d)) /\ BoltsIn(d) \subseteq T
<1>1. DOMAIN d = 1..Len(d) /\ Len(d) \in Nat
  OBVIOUS
<1>2. IsFiniteSet(DOMAIN d)
  BY <1>1, FS_Interval
<1>3. BoltsIn(d) \subseteq T
  BY DEF BoltsIn
<1> QED
  BY <1>2, <1>3, ValuesFinite

\* Bolts that agree are of one geometry.
LEMMA OneGeometry ==
    ASSUME NEW S, IsFiniteSet(S), VecAgree(S), NEW a \in S, NEW b \in S,
           a.geom # "none", b.geom # "none"
    PROVE  a.geom = b.geom
<1> DEFINE G == {x.geom : x \in S}
           H == G \ {"none"}
           f == [x \in S |-> x.geom]
<1>1. f \in Surjection(S, G)
  BY DEF Surjection
<1> HIDE DEF f
<1>2. IsFiniteSet(G)
  BY <1>1, FS_Surjection
<1>3. IsFiniteSet(H)
  BY <1>2, FS_Subset
<1>4. Cardinality(H) <= 1 /\ a.geom \in H /\ b.geom \in H
  BY DEF VecAgree
<1> HIDE DEF G, H
<1>5. SUFFICES ASSUME a.geom # b.geom PROVE FALSE
  OBVIOUS
<1>6. IsFiniteSet({a.geom}) /\ Cardinality({a.geom}) = 1
  BY FS_Singleton
<1>7. Cardinality({a.geom} \cup {b.geom}) = 2
  <2>1. b.geom \notin {a.geom}
    BY <1>5
  <2>2. Cardinality({a.geom} \cup {b.geom}) = Cardinality({a.geom}) + 1
    BY <1>6, <2>1, FS_AddElement
  <2> QED
    BY <1>6, <2>2
<1>8. {a.geom} \cup {b.geom} \in SUBSET H
  BY <1>4
<1>9. Cardinality({a.geom} \cup {b.geom}) <= Cardinality(H)
  BY <1>3, <1>8, FS_Subset
<1>10. Cardinality(H) \in Nat
  BY <1>3, FS_CardinalityType
<1> QED
  BY <1>4, <1>7, <1>9, <1>10

\* A merged bolt has the live documents of its inputs.
LEMMA MergedLive ==
    ASSUME NEW S, NEW n
    PROVE  Live(MergedBolt(S, n)) = UNION {Live(b) : b \in S}
BY DEF Live, MergedBolt, LiveIn

\* What the inputs owe, the output pays.
LEMMA MergedPays ==
    ASSUME NEW S, IsFiniteSet(S), VecAgree(S), CgramAgree(S), NEW n, NEW b \in S, NEW r, Pays(b, r)
    PROVE  Pays(MergedBolt(S, n), r)
<1> DEFINE x == MergedBolt(S, n)
<1>1. r.doc \in Live(x)
  BY MergedLive DEF Pays
<1>2. ASSUME r.geom # "none" PROVE r.doc \in x.lanes /\ x.geom = r.geom
  <2>1. r.doc \in b.lanes /\ b.geom = r.geom /\ r.doc \notin b.dead
    BY <1>2 DEF Pays, Live
  <2>2. r.doc \in MergedLanes(S)
    BY <2>1 DEF MergedLanes, LiveIn
  <2>3. PICK g \in {y.geom : y \in S} : g # "none" /\ MergedGeom(S) = g
    BY <1>2, <2>1, <2>2 DEF MergedGeom
  <2>4. g = b.geom
    BY <1>2, <2>1, <2>3, OneGeometry
  <2> QED
    BY <2>1, <2>2, <2>3, <2>4 DEF MergedBolt
<1>3. ASSUME r.gram, x.grams # {} PROVE r.doc \in x.grams
  <2>1. x.grams = UNION {LiveIn(S, y, y.grams) : y \in S}
    BY <1>3 DEF MergedBolt, MergedGrams
  <2>2. b.grams # {}
    <3>1. PICK y \in S : LiveIn(S, y, y.grams) # {}
      BY <1>3, <2>1
    <3>2. y.grams # {}
      BY <3>1 DEF LiveIn
    <3> QED
      BY <3>2 DEF CgramAgree
  <2>3. r.doc \in LiveIn(S, b, b.grams)
    BY <1>3, <2>2 DEF Pays, Live, LiveIn
  <2> QED
    BY <2>1, <2>3
<1> QED
  BY <1>1, <1>2, <1>3 DEF Pays

\* Its list is complete if it says so.
LEMMA MergedListed ==
    ASSUME NEW S, NEW n, \A b \in S : b.complete => Live(b) \subseteq b.listed
    PROVE  MergedBolt(S, n).complete => Live(MergedBolt(S, n)) \subseteq MergedBolt(S, n).listed
<1>1. ASSUME \A b \in S : b.complete, NEW e \in Live(MergedBolt(S, n)) PROVE e \in MergedList(S)
  <2>1. PICK b \in S : e \in Live(b)
    BY <1>1, MergedLive
  <2>2. e \in LiveIn(S, b, b.listed)
    BY <1>1, <2>1 DEF Live, LiveIn
  <2> QED
    BY <2>2 DEF MergedList
<1> QED
  BY <1>1 DEF MergedBolt

\* It is a bolt.
LEMMA MergedType ==
    ASSUME NEW S \in SUBSET Bolt, NEW n \in Nat
    PROVE  MergedBolt(S, n) \in Bolt
<1>1. \A b \in S : b \in BoltRecord /\ (b.geom = "none" => b.lanes = {})
  BY DEF Bolt
<1>2. MergedLanes(S) \in SUBSET Doc /\ MergedList(S) \in SUBSET Doc
      /\ UNION {LiveIn(S, b, b.docs) : b \in S} \in SUBSET Doc
      /\ UNION {LiveIn(S, b, b.grams) : b \in S} \in SUBSET Doc
  BY <1>1 DEF MergedLanes, MergedList, LiveIn, BoltRecord
<1>3. MergedGrams(S) \in SUBSET Doc
  BY <1>2 DEF MergedGrams
<1>4. MergedGeom(S) \in Geometries \union {"none", "torn"} /\ (MergedGeom(S) = "none" => MergedLanes(S) = {})
  <2>1. CASE MergedLanes(S) = {}
    <3>1. MergedGeom(S) = "none"
      BY <2>1 DEF MergedGeom
    <3> QED
      BY <2>1, <3>1
  <2>2. CASE MergedLanes(S) # {}
    <3>1. PICK b \in S : b.lanes # {}
      BY <2>2 DEF MergedLanes, LiveIn
    <3>2. b.geom # "none"
      BY <1>1, <3>1
    <3>3. PICK g \in {y.geom : y \in S} : g # "none" /\ MergedGeom(S) = g
      BY <2>2, <3>2 DEF MergedGeom
    <3>4. g \in Geometries \union {"none", "torn"}
      BY <1>1, <3>3 DEF BoltRecord
    <3> QED
      BY <3>3, <3>4
  <2> QED
    BY <2>1, <2>2
<1>5. (\A b \in S : b.complete) \in BOOLEAN
  OBVIOUS
<1>6. MergedBolt(S, n) \in BoltRecord
  BY <1>2, <1>3, <1>4, <1>5 DEF MergedBolt, BoltRecord
<1> QED
  BY <1>4, <1>6 DEF MergedBolt, Bolt

-----------------------------------------------------------------------------
(* The directory after a merge *)

\* r is d with the groups P[1], ..., P[m] of its bolts merged into the bolts n + 1, ...,
\* n + m: what is in r, each bolt once.
Merges(d, n, m, P, r) ==
    LET gone(i) == \E k \in 1..m : d[i] \in P[k]
    IN  /\ \A k \in DOMAIN r :
            \/ \E i \in DOMAIN d : ~gone(i) /\ r[k] = d[i]
            \/ \E j \in 1..m : r[k] = MergedBolt(P[j], n + j)
        /\ \A i \in DOMAIN d : ~gone(i) => \E k \in DOMAIN r : r[k] = d[i]
        /\ \A j \in 1..m : \E k \in DOMAIN r : r[k] = MergedBolt(P[j], n + j)
        /\ \A k, l \in DOMAIN r : r[k].id = r[l].id => k = l

\* The positions of the bolts of P[1], ..., P[m], and what is made of these.
Inputs(d, m, P) == {i \in DOMAIN d : \E k \in 1..m : d[i] \in P[k]}

Outputs(n, m, P) == [k \in 1..m |-> MergedBolt(P[k], n + k)]

\* The rewrite of segs[] puts the merged bolts where what they replace was.
LEMMA RewriteMerges ==
    ASSUME NEW d \in Seq(Bolt), NEW n \in Nat, NEW m \in Nat,
           NEW P, DOMAIN P = 1..m, \A k \in 1..m : P[k] \in SUBSET BoltsIn(d),
           \A i \in DOMAIN d : d[i].id \in 1..n,
           \A i, j \in DOMAIN d : d[i].id = d[j].id => i = j
    PROVE  /\ Rewritten(d, Inputs(d, m, P), Outputs(n, m, P)) \in Seq(Bolt)
           /\ Merges(d, n, m, P, Rewritten(d, Inputs(d, m, P), Outputs(n, m, P)))
           /\ Cardinality(Inputs(d, m, P)) \in Nat
           /\ Len(Rewritten(d, Inputs(d, m, P), Outputs(n, m, P)))
                = Len(d) - Cardinality(Inputs(d, m, P)) + m
<1> DEFINE F == Inputs(d, m, P)
           new == Outputs(n, m, P)
           r == Rewritten(d, F, new)
           q == KeptLen(d, F)
<1> HIDE DEF F, new
<1>17. /\ F = {i \in DOMAIN d : \E k \in 1..m : d[i] \in P[k]}
       /\ new = [k \in 1..m |-> MergedBolt(P[k], n + k)]
  BY DEF F, new, Inputs, Outputs
<1>1. BoltsIn(d) \subseteq Bolt
  BY BoltsFinite
<1>2. \A k \in 1..m : MergedBolt(P[k], n + k) \in Bolt /\ MergedBolt(P[k], n + k).id = n + k
  <2>1. ASSUME NEW k \in 1..m PROVE MergedBolt(P[k], n + k) \in Bolt
    <3>1. P[k] \in SUBSET Bolt /\ n + k \in Nat
      BY <1>1
    <3> QED
      BY <3>1, MergedType
  <2>2. \A k \in 1..m : MergedBolt(P[k], n + k).id = n + k
    BY DEF MergedBolt
  <2> QED
    BY <2>1, <2>2
<1>3. new \in Seq(Bolt) /\ Len(new) = m /\ DOMAIN new = 1..m
  <2>1. new \in [1..m -> Bolt]
    BY <1>17, <1>2
  <2> QED
    BY <2>1, FunctionIsSeq
<1>4. F \in SUBSET DOMAIN d
  BY <1>17
<1>5. Rewrites(d, F, new, r, Bolt)
  BY <1>3, <1>4, RewrittenFacts
<1> HIDE DEF r, q
<1>6. /\ r \in Seq(Bolt) /\ q \in Nat /\ Len(r) = q + m
      /\ \A k \in 1..q :
           k \in DOMAIN r /\ OldPos(d, F, k) \in (DOMAIN d) \ F /\ r[k] = d[OldPos(d, F, k)]
      /\ \A k, l \in 1..q : OldPos(d, F, k) = OldPos(d, F, l) => k = l
      /\ \A i \in (DOMAIN d) \ F : \E k \in 1..q : OldPos(d, F, k) = i
      /\ \A k \in 1..m : q + k \in DOMAIN r /\ r[q + k] = new[k]
      /\ \A k \in DOMAIN r : k \in 1..q \/ (k - q) \in 1..m
  <2>1. /\ r \in Seq(Bolt) /\ q \in Nat /\ Len(r) = q + Len(new)
        /\ \A k \in 1..q :
             k \in DOMAIN r /\ OldPos(d, F, k) \in (DOMAIN d) \ F /\ r[k] = d[OldPos(d, F, k)]
        /\ \A k, l \in 1..q : OldPos(d, F, k) = OldPos(d, F, l) => k = l
        /\ \A i \in (DOMAIN d) \ F : \E k \in 1..q : OldPos(d, F, k) = i
        /\ \A k \in DOMAIN new : q + k \in DOMAIN r /\ r[q + k] = new[k]
        /\ \A k \in DOMAIN r : k \in 1..q \/ (k - q) \in DOMAIN new
    BY <1>5, Zenon DEF Rewrites, q
  <2> QED
    BY <1>3, <2>1, Zenon
<1>0. DOMAIN r \subseteq Nat
  BY <1>6
<1>7. \A i \in DOMAIN d : i \in F <=> \E k \in 1..m : d[i] \in P[k]
  BY <1>17
<1>8. \A k \in DOMAIN r : (k - q) \in 1..m =>
        k = q + (k - q) /\ r[k] = MergedBolt(P[k - q], n + (k - q))
  <2>1. ASSUME NEW k \in DOMAIN r, (k - q) \in 1..m PROVE k = q + (k - q)
    BY <1>0, <1>6
  <2> QED
    BY <1>17, <1>6, <2>1
<1>9. ASSUME NEW k \in DOMAIN r
      PROVE  \/ \E i \in DOMAIN d : i \notin F /\ r[k] = d[i]
             \/ \E j \in 1..m : r[k] = MergedBolt(P[j], n + j)
  BY <1>6, <1>8
<1>10. ASSUME NEW i \in DOMAIN d, i \notin F PROVE \E k \in DOMAIN r : r[k] = d[i]
  <2>1. PICK k \in 1..q : OldPos(d, F, k) = i
    BY <1>6, <1>10
  <2> QED
    BY <1>6, <2>1
<1>11. \A j \in 1..m : \E k \in DOMAIN r : r[k] = MergedBolt(P[j], n + j)
  BY <1>17, <1>6
<1>12. ASSUME NEW k \in DOMAIN r, NEW l \in DOMAIN r, r[k].id = r[l].id PROVE k = l
  <2>1. ASSUME NEW x \in 1..q PROVE r[x].id \in 1..n
    <3>1. OldPos(d, F, x) \in DOMAIN d /\ r[x] = d[OldPos(d, F, x)]
      BY <1>6
    <3> QED
      BY <3>1
  <2>2. \A x \in DOMAIN r : (x - q) \in 1..m => r[x].id = n + (x - q)
    BY <1>2, <1>8
  <2>3. CASE k \in 1..q /\ l \in 1..q
    <3>1. /\ OldPos(d, F, k) \in DOMAIN d /\ r[k] = d[OldPos(d, F, k)]
          /\ OldPos(d, F, l) \in DOMAIN d /\ r[l] = d[OldPos(d, F, l)]
      BY <1>6, <2>3
    <3>2. OldPos(d, F, k) = OldPos(d, F, l)
      BY <1>12, <3>1
    <3> QED
      BY <1>6, <2>3, <3>2
  <2>4. CASE k \in 1..q /\ (l - q) \in 1..m
    BY <1>12, <2>1, <2>2, <2>4
  <2>5. CASE (k - q) \in 1..m /\ l \in 1..q
    BY <1>12, <2>1, <2>2, <2>5
  <2>6. CASE (k - q) \in 1..m /\ (l - q) \in 1..m
    <3>1. n + (k - q) = n + (l - q)
      BY <1>12, <2>2, <2>6
    <3> QED
      BY <1>0, <1>6, <2>6, <3>1
  <2> QED
    BY <1>6, <2>3, <2>4, <2>5, <2>6
<1>13. Cardinality(F) \in Nat
  BY <1>4, BoltsFinite, FS_Subset, FS_CardinalityType
<1>14. Len(r) = Len(d) - Cardinality(F) + m
  BY <1>6, <1>13 DEF q, KeptLen
<1>15. Merges(d, n, m, P, r)
  BY <1>7, <1>9, <1>10, <1>11, <1>12 DEF Merges
<1> QED
  BY <1>6, <1>13, <1>14, <1>15 DEF r, F, new

\* What it keeps: the names, the documents, what is owed and the lists.
LEMMA MergedDirectory ==
    ASSUME NEW d, NEW n, NEW o, NEW f, DirInv(d, n, o, f),
           NEW m \in Nat, NEW P, NEW r \in Seq(Bolt), Merges(d, n, m, P, r),
           \A k \in 1..m : P[k] \in SUBSET BoltsIn(d) /\ VecAgree(P[k]) /\ CgramAgree(P[k]),
           \A k, l \in 1..m : \A b \in P[k] \cap P[l] : k = l,
           NEW q \in Seq(Nat), \A k, l \in DOMAIN q : q[k] = q[l] => k = l,
           \A k \in DOMAIN q : \E i \in DOMAIN d : q[k] = d[i].id /\ \E j \in 1..m : d[i] \in P[j]
    PROVE  DirInv(r, n + m, o, f \o q)
<1> DEFINE gone(i) == \E k \in 1..m : d[i] \in P[k]
           out(j) == MergedBolt(P[j], n + j)
<1>1. /\ d \in Seq(Bolt) /\ n \in Nat /\ f \in Seq(Nat)
      /\ NameInv(d, n, f) /\ DocInv(d, n) /\ OwedInv(d, o) /\ ListInv(d)
  BY DEF DirInv
<1>2. /\ \A k \in DOMAIN r :
           \/ \E i \in DOMAIN d : ~gone(i) /\ r[k] = d[i]
           \/ \E j \in 1..m : r[k] = out(j)
      /\ \A i \in DOMAIN d : ~gone(i) => \E k \in DOMAIN r : r[k] = d[i]
      /\ \A j \in 1..m : \E k \in DOMAIN r : r[k] = out(j)
      /\ \A k, l \in DOMAIN r : r[k].id = r[l].id => k = l
  BY DEF Merges
<1>3. ASSUME NEW j \in 1..m, NEW b \in P[j] PROVE \E i \in DOMAIN d : gone(i) /\ b = d[i]
  <2>1. PICK i \in DOMAIN d : b = d[i]
    BY DEF BoltsIn
  <2> QED
    BY <2>1
<1>4. \A j \in 1..m : Live(out(j)) = UNION {Live(b) : b \in P[j]} /\ out(j).id = n + j
                     /\ out(j).docs = UNION {b.docs \ b.dead : b \in P[j]}
  BY MergedLive DEF MergedBolt, LiveIn
<1>5. \A j \in 1..m : IsFiniteSet(P[j])
  BY <1>1, BoltsFinite, FS_Subset
<1> HIDE DEF out
<1>6. NameInv(r, n + m, f \o q)
  <2>1. ASSUME NEW k \in DOMAIN r PROVE r[k].id \in 1..(n + m)
    <3>0. \A x \in 1..n : x \in 1..(n + m)
      BY <1>1
    <3>1. CASE \E i \in DOMAIN d : r[k] = d[i]
      BY <1>1, <3>0, <3>1 DEF NameInv
    <3>2. CASE \E j \in 1..m : r[k] = out(j)
      BY <1>1, <1>4, <3>2
    <3> QED
      BY <1>2, <3>1, <3>2
  <2>2. ASSUME NEW k \in DOMAIN q PROVE q[k] \in 1..n /\ \A l \in DOMAIN f : f[l] # q[k]
    <3>1. PICK i \in DOMAIN d : q[k] = d[i].id
      OBVIOUS
    <3> QED
      BY <1>1, <3>1 DEF NameInv
  <2>3. ASSUME NEW k \in DOMAIN r, NEW l \in DOMAIN q PROVE r[k].id # q[l]
    <3>1. PICK i \in DOMAIN d : q[l] = d[i].id /\ gone(i)
      OBVIOUS
    <3>2. CASE \E x \in DOMAIN d : ~gone(x) /\ r[k] = d[x]
      BY <1>1, <3>1, <3>2 DEF NameInv
    <3>3. CASE \E j \in 1..m : r[k] = out(j)
      BY <1>1, <1>4, <2>2, <3>3
    <3> QED
      BY <1>2, <3>2, <3>3
  <2>4. ASSUME NEW k \in DOMAIN r, NEW l \in DOMAIN f PROVE r[k].id # f[l]
    <3>1. f[l] \in 1..n /\ \A i \in DOMAIN d : d[i].id # f[l]
      BY <1>1 DEF NameInv
    <3> QED
      BY <1>1, <1>2, <1>4, <3>1
  <2>5. \A x \in DOMAIN (f \o q) :
          \/ x \in DOMAIN f /\ (f \o q)[x] = f[x]
          \/ x - Len(f) \in DOMAIN q /\ (f \o q)[x] = q[x - Len(f)]
    BY <1>1
  <2>6. \A x \in DOMAIN (f \o q) : (f \o q)[x] \in 1..(n + m)
    <3>1. \A x \in DOMAIN f : f[x] \in 1..n
      BY <1>1 DEF NameInv
    <3>2. \A v \in 1..n : v \in 1..(n + m)
      BY <1>1
    <3> QED
      BY <2>2, <2>5, <3>1, <3>2
  <2>7. ASSUME NEW x \in DOMAIN (f \o q), NEW y \in DOMAIN (f \o q), (f \o q)[x] = (f \o q)[y]
        PROVE  x = y
    <3>1. x \in Int /\ y \in Int /\ Len(f) \in Nat
      BY <1>1
    <3>2. \A k, l \in DOMAIN f : f[k] = f[l] => k = l
      BY <1>1 DEF NameInv
    <3>3. x - Len(f) = y - Len(f) => x = y
      BY <3>1
    <3> QED
      BY <2>2, <2>5, <2>7, <3>2, <3>3
  <2>8. \A k \in DOMAIN r, x \in DOMAIN (f \o q) : r[k].id # (f \o q)[x]
    BY <2>3, <2>4, <2>5
  <2> QED
    BY <1>2, <2>1, <2>6, <2>7, <2>8 DEF NameInv
<1>7. DocInv(r, n + m)
  <2>1. ASSUME NEW k \in DOMAIN r, NEW e \in r[k].docs PROVE e = Reused \/ e[1] \in 1..(n + m)
    <3>1. PICK i \in DOMAIN d : e \in d[i].docs
      <4>1. CASE \E i \in DOMAIN d : r[k] = d[i]
        BY <4>1
      <4>2. CASE \E j \in 1..m : r[k] = out(j)
        <5>1. PICK j \in 1..m : r[k] = out(j)
          BY <4>2
        <5>2. PICK b \in P[j] : e \in b.docs
          BY <1>4, <5>1
        <5> QED
          BY <1>3, <5>2
      <4> QED
        BY <1>2, <4>1, <4>2
    <3>2. e = Reused \/ e[1] \in 1..n
      BY <1>1, <3>1 DEF DocInv
    <3> QED
      BY <1>1, <3>2
  <2>2. ASSUME NEW k \in DOMAIN r, NEW l \in DOMAIN r, NEW e \in Live(r[k]) \cap Live(r[l])
        PROVE  r[k] = r[l]
    <3>1. \A i, j \in DOMAIN d : e \in Live(d[i]) /\ e \in Live(d[j]) => i = j
      BY <1>1 DEF DocInv
    <3>2. \A j \in 1..m : e \in Live(out(j)) => \E i \in DOMAIN d : d[i] \in P[j] /\ e \in Live(d[i])
      BY <1>3, <1>4
    <3>3. CASE (\E i \in DOMAIN d : ~gone(i) /\ r[k] = d[i]) /\ \E i \in DOMAIN d : ~gone(i) /\ r[l] = d[i]
      BY <2>2, <3>1, <3>3
    <3>4. CASE (\E i \in DOMAIN d : ~gone(i) /\ r[k] = d[i]) /\ \E j \in 1..m : r[l] = out(j)
      BY <2>2, <3>1, <3>2, <3>4
    <3>5. CASE (\E j \in 1..m : r[k] = out(j)) /\ \E i \in DOMAIN d : ~gone(i) /\ r[l] = d[i]
      BY <2>2, <3>1, <3>2, <3>5
    <3>6. CASE (\E j \in 1..m : r[k] = out(j)) /\ \E j \in 1..m : r[l] = out(j)
      BY <2>2, <3>1, <3>2, <3>6
    <3> QED
      BY <1>2, <3>3, <3>4, <3>5, <3>6
  <2> QED
    BY <1>2, <2>1, <2>2 DEF DocInv
<1>8. OwedInv(r, o)
  <2>1. ASSUME NEW x \in o PROVE \E k \in DOMAIN r : Pays(r[k], x)
    <3>1. PICK i \in DOMAIN d : Pays(d[i], x)
      BY <1>1 DEF OwedInv
    <3>2. CASE ~gone(i)
      BY <1>2, <3>1, <3>2
    <3>3. CASE gone(i)
      <4>1. PICK j \in 1..m : d[i] \in P[j]
        BY <3>3
      <4>2. Pays(out(j), x)
        BY <1>5, <3>1, <4>1, MergedPays DEF out
      <4> QED
        BY <1>2, <4>2
    <3> QED
      BY <3>2, <3>3
  <2>2. ASSUME NEW k \in DOMAIN r, NEW e \in Live(r[k]) PROVE \E x \in o : e = x.doc
    <3>1. PICK i \in DOMAIN d : e \in Live(d[i])
      BY <1>2, <1>3, <1>4
    <3> QED
      BY <1>1, <3>1 DEF OwedInv
  <2> QED
    BY <2>1, <2>2 DEF OwedInv
<1>9. ListInv(r)
  <2>1. ASSUME NEW j \in 1..m PROVE out(j).complete => Live(out(j)) \subseteq out(j).listed
    <3>1. \A b \in P[j] : b.complete => Live(b) \subseteq b.listed
      BY <1>1, <1>3 DEF ListInv
    <3> QED
      BY <3>1, MergedListed DEF out
  <2>2. \A i \in DOMAIN d : d[i].complete => Live(d[i]) \subseteq d[i].listed
    BY <1>1 DEF ListInv
  <2>3. ASSUME NEW k \in DOMAIN r PROVE r[k].complete => Live(r[k]) \subseteq r[k].listed
    <3>1. CASE \E i \in DOMAIN d : r[k] = d[i]
      BY <2>2, <3>1
    <3>2. CASE \E j \in 1..m : r[k] = out(j)
      BY <2>1, <3>2
    <3> QED
      BY <1>2, <3>1, <3>2
  <2> QED
    BY <2>3 DEF ListInv
<1>10. n + m \in Nat /\ f \o q \in Seq(Nat)
  BY <1>1
<1> QED
  BY <1>6, <1>7, <1>8, <1>9, <1>10 DEF DirInv

-----------------------------------------------------------------------------
(* The directory at first, and when a bolt arrives *)

\* What a bolt of a kind has.
LEMMA BoltOfFacts ==
    ASSUME NEW k \in Kind, NEW i \in Nat \ {0}
    PROVE  LET b == BoltOf(i, k)
           IN  /\ b \in Bolt /\ b.id = i
               /\ \A e \in b.docs : e = Reused \/ e[1] = i
               /\ b.complete => Live(b) \subseteq b.listed
               /\ Reused \in Live(b) => k.reused = "live"
               /\ \A r \in OwedOf(b) : Pays(b, r)
               /\ \A e \in Live(b) : \E r \in OwedOf(b) : e = r.doc
<1> DEFINE own == {<<i, j>> : j \in 1..(k.n + k.tomb)}
           docs == own \union (IF k.reused = "no" THEN {} ELSE {Reused})
           dead == {<<i, j>> : j \in 1..k.tomb} \union (IF k.reused = "dead" THEN {Reused} ELSE {})
           b == BoltOf(i, k)
<1>1. /\ b.id = i /\ b.docs = docs /\ b.dead = dead /\ b.geom = k.geom
      /\ b.lanes = (IF k.geom = "none" THEN {} ELSE docs)
      /\ b.grams = (IF k.grams THEN docs ELSE {})
      /\ b.listed = (IF k.complete THEN docs ELSE docs \intersect {<<i, 1>>})
      /\ b.complete = k.complete /\ b.bad = k.bad
      /\ b = [id |-> b.id, docs |-> b.docs, dead |-> b.dead, geom |-> b.geom, lanes |-> b.lanes,
              grams |-> b.grams, listed |-> b.listed, complete |-> b.complete, bad |-> b.bad]
  BY DEF BoltOf
<1>2. /\ k.n \in Nat /\ k.tomb \in Nat /\ k.reused \in {"no", "dead", "live"}
      /\ k.geom \in Geometries \union {"none", "torn"} /\ k.complete \in BOOLEAN
      /\ k.bad \in {"no", "chain", "weft"}
  BY DEF Kind
<1> HIDE DEF b
<1>3. docs \in SUBSET Doc /\ dead \in SUBSET Doc
  <2>1. own \in SUBSET Doc /\ {<<i, j>> : j \in 1..k.tomb} \in SUBSET Doc
    BY <1>2 DEF Doc
  <2>2. Reused \in Doc
    BY DEF Doc, Reused
  <2> QED
    BY <2>1, <2>2
<1>4. \A e \in docs : e = Reused \/ e[1] = i
  OBVIOUS
<1>5. Reused \notin own
  BY DEF Reused
<1>6. Reused \in docs \ dead => k.reused = "live"
  BY <1>2, <1>5
<1> HIDE DEF docs, dead, own
<1>7. b \in Bolt
  <2>1. b.lanes \in SUBSET Doc /\ b.grams \in SUBSET Doc /\ b.listed \in SUBSET Doc
    BY <1>1, <1>3
  <2>2. b \in BoltRecord
    BY <1>1, <1>2, <1>3, <2>1 DEF BoltRecord
  <2> QED
    BY <1>1, <2>2 DEF Bolt
<1>8. b.complete => Live(b) \subseteq b.listed
  BY <1>1 DEF Live
<1>9. Reused \in Live(b) => k.reused = "live"
  BY <1>1, <1>6 DEF Live
<1>10. ASSUME NEW r \in OwedOf(b) PROVE Pays(b, r)
  <2>1. PICK e \in Live(b) : r = [doc |-> e, geom |-> b.geom, gram |-> e \in b.grams]
    BY DEF OwedOf
  <2>2. e \in docs
    BY <1>1 DEF Live
  <2>3. r.doc = e /\ r.geom = b.geom /\ (r.gram => e \in b.grams)
    BY <2>1
  <2> QED
    BY <1>1, <2>1, <2>2, <2>3 DEF Pays
<1>11. ASSUME NEW e \in Live(b) PROVE \E r \in OwedOf(b) : e = r.doc
  <2> DEFINE r == [doc |-> e, geom |-> b.geom, gram |-> e \in b.grams]
  <2>1. r \in OwedOf(b) /\ r.doc = e
    BY DEF OwedOf
  <2> QED
    BY <2>1
<1>12. \A e \in b.docs : e = Reused \/ e[1] = i
  BY <1>1, <1>4
<1> QED
  BY <1>1, <1>7, <1>8, <1>9, <1>10, <1>11, <1>12 DEF b

\* An oversized INSERT's bolt joins the directory under the next name.
LEMMA ArrivedDirectory ==
    ASSUME NEW d, NEW n, NEW o, NEW f, DirInv(d, n, o, f), NEW k \in Kind,
           k.reused = "live" => \A i \in DOMAIN d : Reused \notin Live(d[i])
    PROVE  LET b == BoltOf(n + 1, k)
           IN  DirInv(Append(d, b), n + 1, o \union OwedOf(b), f)
<1> DEFINE b == BoltOf(n + 1, k)
           r == Append(d, b)
<1>1. /\ d \in Seq(Bolt) /\ n \in Nat /\ f \in Seq(Nat)
      /\ NameInv(d, n, f) /\ DocInv(d, n) /\ OwedInv(d, o) /\ ListInv(d)
  BY DEF DirInv
<1>2. /\ b \in Bolt /\ b.id = n + 1
      /\ \A e \in b.docs : e = Reused \/ e[1] = n + 1
      /\ b.complete => Live(b) \subseteq b.listed
      /\ Reused \in Live(b) => k.reused = "live"
      /\ \A x \in OwedOf(b) : Pays(b, x)
      /\ \A e \in Live(b) : \E x \in OwedOf(b) : e = x.doc
  <2>1. n + 1 \in Nat \ {0}
    BY <1>1
  <2> QED
    BY <2>1, BoltOfFacts
<1> HIDE DEF b
<1>3. /\ r \in Seq(Bolt) /\ DOMAIN r = (DOMAIN d) \union {Len(d) + 1}
      /\ r[Len(d) + 1] = b /\ \A i \in DOMAIN d : r[i] = d[i] /\ i # Len(d) + 1
  BY <1>1, <1>2
<1> HIDE DEF r
<1>4. NameInv(r, n + 1, f)
  <2>1. \A x \in 1..n : x \in 1..(n + 1) /\ x # n + 1
    BY <1>1
  <2>2. n + 1 \in 1..(n + 1)
    BY <1>1
  <2> QED
    BY <1>1, <1>2, <1>3, <2>1, <2>2 DEF NameInv
<1>5. DocInv(r, n + 1)
  <2>1. \A x \in 1..n : x \in 1..(n + 1) /\ x # n + 1
    BY <1>1
  <2>2. n + 1 \in 1..(n + 1)
    BY <1>1
  <2>3. \A i \in DOMAIN d : \A e \in d[i].docs : e = Reused \/ e[1] \in 1..n
    BY <1>1 DEF DocInv
  <2>4. \A i \in DOMAIN r : \A e \in r[i].docs : e = Reused \/ e[1] \in 1..(n + 1)
    BY <1>2, <1>3, <2>1, <2>2, <2>3
  <2>5. ASSUME NEW i \in DOMAIN d, NEW e \in Live(d[i]) \cap Live(b) PROVE FALSE
    <3>1. e \in d[i].docs /\ e \in b.docs
      BY DEF Live
    <3>2. e = Reused
      BY <1>2, <2>1, <2>3, <3>1
    <3> QED
      BY <1>2, <3>2
  <2>6. \A i, j \in DOMAIN d : \A e \in Live(d[i]) \cap Live(d[j]) : i = j
    BY <1>1 DEF DocInv
  <2> QED
    BY <1>3, <2>4, <2>5, <2>6 DEF DocInv
<1>6. OwedInv(r, o \union OwedOf(b))
  <2>1. \A x \in o : \E i \in DOMAIN r : Pays(r[i], x)
    BY <1>1, <1>3 DEF OwedInv
  <2>2. \A x \in OwedOf(b) : \E i \in DOMAIN r : Pays(r[i], x)
    BY <1>2, <1>3
  <2>3. \A i \in DOMAIN d : \A e \in Live(d[i]) : \E x \in o : e = x.doc
    BY <1>1 DEF OwedInv
  <2>4. \A i \in DOMAIN r : \A e \in Live(r[i]) : \E x \in o \union OwedOf(b) : e = x.doc
    BY <1>2, <1>3, <2>3
  <2> QED
    BY <2>1, <2>2, <2>4 DEF OwedInv
<1>7. ListInv(r)
  BY <1>1, <1>2, <1>3 DEF ListInv
<1> QED
  BY <1>1, <1>3, <1>4, <1>5, <1>6, <1>7 DEF DirInv, b, r

\* The directory a run starts from.
LEMMA FirstDirectory ==
    ASSUME NEW ks \in Directories
    PROVE  DirInv(Bolts(ks), Len(ks), UNION {OwedOf(BoltOf(i, ks[i])) : i \in DOMAIN ks}, << >>)
<1> DEFINE n == Len(ks)
           d == Bolts(ks)
           o == UNION {OwedOf(BoltOf(i, ks[i])) : i \in DOMAIN ks}
<1>1. /\ ks \in Seq(Kind)
      /\ \A i, j \in DOMAIN ks : ks[i].reused = "live" /\ ks[j].reused = "live" => i = j
  BY KindAssumption
<1>2. n \in Nat /\ DOMAIN ks = 1..n /\ \A i \in 1..n : ks[i] \in Kind /\ i \in Nat \ {0}
  BY <1>1
<1>3. DOMAIN d = 1..n /\ \A i \in 1..n : d[i] = BoltOf(i, ks[i])
  BY <1>2 DEF Bolts
<1>4. \A i \in 1..n :
        /\ d[i] \in Bolt /\ d[i].id = i
        /\ \A e \in d[i].docs : e = Reused \/ e[1] = i
        /\ d[i].complete => Live(d[i]) \subseteq d[i].listed
        /\ Reused \in Live(d[i]) => ks[i].reused = "live"
        /\ \A x \in OwedOf(d[i]) : Pays(d[i], x)
        /\ \A e \in Live(d[i]) : \E x \in OwedOf(d[i]) : e = x.doc
  BY <1>2, <1>3, BoltOfFacts
<1>5. o = UNION {OwedOf(d[i]) : i \in 1..n}
  BY <1>2, <1>3
<1>6. d \in Seq(Bolt)
  <2>1. d \in [1..n -> Bolt]
    BY <1>2, <1>3, <1>4 DEF Bolts
  <2> HIDE DEF n, d
  <2> QED
    BY <1>2, <2>1, FunctionIsSeq
<1> HIDE DEF d, o, n
<1>7. NameInv(d, n, << >>)
  BY <1>3, <1>4 DEF NameInv
<1>8. DocInv(d, n)
  <2>1. \A i \in DOMAIN d : \A e \in d[i].docs : e = Reused \/ e[1] \in 1..n
    BY <1>3, <1>4
  <2>2. ASSUME NEW i \in 1..n, NEW j \in 1..n, NEW e \in Live(d[i]) \cap Live(d[j]) PROVE i = j
    <3>1. e \in d[i].docs /\ e \in d[j].docs
      BY DEF Live
    <3>2. CASE e = Reused
      BY <1>1, <1>2, <1>4, <3>2
    <3>3. CASE e # Reused
      BY <1>4, <3>1, <3>3
    <3> QED
      BY <3>2, <3>3
  <2> QED
    BY <1>3, <2>1, <2>2 DEF DocInv
<1>9. OwedInv(d, o)
  <2>1. ASSUME NEW x \in o PROVE \E i \in DOMAIN d : Pays(d[i], x)
    <3>1. PICK i \in 1..n : x \in OwedOf(d[i])
      BY <1>5
    <3> QED
      BY <1>3, <1>4, <3>1
  <2>2. ASSUME NEW i \in DOMAIN d, NEW e \in Live(d[i]) PROVE \E x \in o : e = x.doc
    <3>1. PICK x \in OwedOf(d[i]) : e = x.doc
      BY <1>3, <1>4
    <3> QED
      BY <1>3, <1>5, <3>1
  <2> QED
    BY <2>1, <2>2 DEF OwedInv
<1>10. ListInv(d)
  BY <1>3, <1>4 DEF ListInv
<1>11. << >> \in Seq(Nat)
  OBVIOUS
<1> QED
  BY <1>2, <1>6, <1>7, <1>8, <1>9, <1>10, <1>11 DEF DirInv, d, o, n

-----------------------------------------------------------------------------
(* Arithmetic *)

\* The smaller of two integers.
LEMMA MinOfTwo ==
    ASSUME NEW a \in Int, NEW b \in Int
    PROVE  Min({a, b}) = IF a <= b THEN a ELSE b
<1>1. \E x \in {a, b} : \A y \in {a, b} : x =< y
  OBVIOUS
<1>2. Min({a, b}) \in {a, b} /\ \A y \in {a, b} : Min({a, b}) =< y
  BY <1>1 DEF Min
<1> QED
  BY <1>2

\* What integer division computes.
LEMMA DivFacts ==
    ASSUME NEW a \in Nat, NEW n \in Nat \ {0}
    PROVE  a \div n \in Nat /\ n * (a \div n) <= a /\ a < n * (a \div n) + n
OBVIOUS

\* It is monotonic.
LEMMA DivMonotonic ==
    ASSUME NEW a \in Nat, NEW b \in Nat, NEW n \in Nat \ {0}, a <= b
    PROVE  a \div n <= b \div n
<1> DEFINE x == a \div n
           y == b \div n
<1>1. x \in Nat /\ y \in Nat /\ n * x <= a /\ b < n * y + n
  BY DivFacts
<1> HIDE DEF x, y
<1>2. n * x < n * (y + 1)
  BY <1>1
<1>3. x < y + 1
  BY <1>1, <1>2
<1> QED
  BY <1>1, <1>3 DEF x, y

\* A whole number of parts.
LEMMA DivWhole ==
    ASSUME NEW l \in Nat, NEW n \in Nat \ {0}
    PROVE  (n * l) \div n = l
OBVIOUS

\* Multiples are in order.
LEMMA MultipleOrder ==
    ASSUME NEW g \in Nat, NEW h \in Nat, NEW l \in Nat, g < h
    PROVE  (g + 1) * l <= h * l
OBVIOUS

-----------------------------------------------------------------------------
(* The groups of the parallel pass *)

\* There is a group, and no bolt is in two of them.
LEMMA GroupsApart ==
    ASSUME src \in Seq(Bolt), Len(src) >= 1, \A i, j \in DOMAIN src : src[i] = src[j] => i = j
    PROVE  /\ Ngroups \in Nat \ {0}
           /\ \A g \in 0..(Ngroups - 1) : Group(g) \subseteq BoltsIn(src)
           /\ \A g, h \in 0..(Ngroups - 1) : \A b \in Group(g) \cap Group(h) : g = h
<1> DEFINE l == Len(src)
           n == Ngroups
           at(g) == (g * l) \div n
<1>1. l \in Nat \ {0} /\ DOMAIN src = 1..l
  OBVIOUS
<1>2. n \in Nat \ {0}
  <2>1. Request + 1 \in Int /\ l \in Int /\ Request + 1 >= 1
    BY <1>1, MergeAssumption
  <2>2. n = IF Request + 1 <= l THEN Request + 1 ELSE l
    BY <2>1, MinOfTwo DEF Ngroups
  <2> HIDE DEF n
  <2>3. CASE Request + 1 <= l
    BY <1>1, <2>1, <2>2, <2>3
  <2>4. CASE ~(Request + 1 <= l)
    BY <1>1, <2>1, <2>2, <2>4
  <2> QED
    BY <2>3, <2>4
<1>3. \A g : Group(g) = {src[i] : i \in (at(g) + 1)..at(g + 1)}
  BY DEF Group
<1> HIDE DEF l, n
<1>4. ASSUME NEW g \in Nat PROVE g * l \in Nat /\ at(g) \in Nat
  <2>1. g * l \in Nat
    BY <1>1
  <2> QED
    BY <1>2, <2>1, DivFacts
<1>5. ASSUME NEW g \in Nat, NEW h \in Nat, g < h PROVE at(g + 1) <= at(h)
  <2>0. g + 1 \in Nat
    OBVIOUS
  <2>1. (g + 1) * l \in Nat /\ h * l \in Nat
    BY <1>4, <2>0
  <2>2. (g + 1) * l <= h * l
    BY <1>1, <1>5, MultipleOrder
  <2> QED
    BY <1>2, <2>1, <2>2, DivMonotonic
<1>6. at(n) = l
  BY <1>1, <1>2, DivWhole
<1> HIDE DEF at
<1>7. ASSUME NEW g \in 0..(n - 1), NEW i \in (at(g) + 1)..at(g + 1) PROVE i \in DOMAIN src
  <2>1. at(g + 1) <= l
    <3>1. CASE g + 1 = n
      BY <1>1, <1>6, <3>1
    <3>2. CASE g + 1 # n
      <4>1. g + 1 \in Nat /\ n \in Nat /\ g + 1 < n
        BY <1>2, <3>2
      <4>2. at((g + 1) + 1) <= l
        BY <1>2, <1>5, <1>6, <4>1
      <4>3. at(g + 1) <= at((g + 1) + 1)
        BY <1>5, <4>1
      <4> QED
        BY <1>1, <1>4, <4>1, <4>2, <4>3
    <3> QED
      BY <3>1, <3>2
  <2>2. at(g) \in Nat /\ at(g + 1) \in Nat
    BY <1>2, <1>4
  <2> QED
    BY <1>1, <2>1, <2>2
<1>8. \A g \in 0..(n - 1) : Group(g) \subseteq BoltsIn(src)
  BY <1>3, <1>7 DEF BoltsIn
<1>9. ASSUME NEW g \in 0..(n - 1), NEW h \in 0..(n - 1), g < h, NEW b \in Group(g) \cap Group(h)
      PROVE  FALSE
  <2>1. PICK i \in (at(g) + 1)..at(g + 1) : b = src[i]
    BY <1>3
  <2>2. PICK j \in (at(h) + 1)..at(h + 1) : b = src[j]
    BY <1>3
  <2>3. i = j
    BY <1>7, <2>1, <2>2
  <2>4. at(g + 1) <= at(h)
    BY <1>2, <1>5, <1>9
  <2>5. at(g + 1) \in Nat /\ at(h) \in Nat
    BY <1>2, <1>4
  <2> QED
    BY <2>3, <2>4, <2>5
<1>10. ASSUME NEW g \in 0..(n - 1), NEW h \in 0..(n - 1), NEW b \in Group(g) \cap Group(h)
       PROVE  g = h
  <2>1. g \in Int /\ h \in Int
    OBVIOUS
  <2> QED
    BY <1>9, <1>10, <2>1
<1> QED
  BY <1>2, <1>8, <1>10 DEF n

\* The groups of C in order, of n groups.
InOrder(n, C) == Rewritten([k \in 1..n |-> k - 1], {k \in 1..n : k - 1 \notin C}, << >>)

\* The outputs that are installed, in the order of their groups.
LEMMA GroupsInOrder ==
    ASSUME NEW n \in Nat, NEW C \in SUBSET (0..(n - 1))
    PROVE  LET G == InOrder(n, C)
           IN  /\ Len(G) \in Nat /\ DOMAIN G = 1..Len(G)
               /\ \A k \in DOMAIN G : G[k] \in C
               /\ \A k, l \in DOMAIN G : G[k] = G[l] => k = l
               /\ \A c \in C : \E k \in DOMAIN G : G[k] = c
<1> DEFINE d == [k \in 1..n |-> k - 1]
           S == {k \in 1..n : k - 1 \notin C}
           G == Rewritten(d, S, << >>)
           q == KeptLen(d, S)
<1>1. d \in Seq(Int) /\ DOMAIN d = 1..n /\ << >> \in Seq(Int) /\ \A k \in 1..n : d[k] = k - 1
  <2>1. d \in [1..n -> Int]
    OBVIOUS
  <2> QED
    BY <2>1, FunctionIsSeq
<1>2. S \in SUBSET DOMAIN d
  OBVIOUS
<1>3. \A k \in (DOMAIN d) \ S : k \in 1..n /\ k - 1 \in C
  OBVIOUS
<1>4. ASSUME NEW c \in C PROVE c + 1 \in (DOMAIN d) \ S /\ (c + 1) - 1 = c
  OBVIOUS
<1> HIDE DEF d, S
<1>5. Rewrites(d, S, << >>, G, Int)
  BY <1>1, <1>2, RewrittenFacts
<1> HIDE DEF G, q
<1>6. /\ G \in Seq(Int) /\ q \in Nat /\ Len(G) = q + Len(<< >>)
      /\ \A k \in 1..q :
           k \in DOMAIN G /\ OldPos(d, S, k) \in (DOMAIN d) \ S /\ G[k] = d[OldPos(d, S, k)]
      /\ \A k, l \in 1..q : OldPos(d, S, k) = OldPos(d, S, l) => k = l
      /\ \A i \in (DOMAIN d) \ S : \E k \in 1..q : OldPos(d, S, k) = i
  BY <1>5, Zenon DEF Rewrites, q
<1>7. Len(G) = q /\ DOMAIN G = 1..q
  BY <1>6
<1>8. \A k \in 1..q : OldPos(d, S, k) \in 1..n /\ G[k] = OldPos(d, S, k) - 1 /\ G[k] \in C
  BY <1>1, <1>3, <1>6
<1>9. ASSUME NEW k \in 1..q, NEW l \in 1..q, G[k] = G[l] PROVE k = l
  <2>1. OldPos(d, S, k) = OldPos(d, S, l)
    BY <1>8, <1>9
  <2> QED
    BY <1>6, <2>1
<1>10. ASSUME NEW c \in C PROVE \E k \in 1..q : G[k] = c
  <2>1. PICK k \in 1..q : OldPos(d, S, k) = c + 1
    BY <1>4, <1>6
  <2> QED
    BY <1>4, <1>8, <2>1
<1> QED
  BY <1>6, <1>7, <1>8, <1>9, <1>10 DEF InOrder, G, d, S

-----------------------------------------------------------------------------
(* A commit *)

\* A finite set written down as a sequence: each element once.
LEMMA SetToSeqFacts ==
    ASSUME NEW T, NEW S \in SUBSET T, IsFiniteSet(S)
    PROVE  LET q == SetToSeq(S)
           IN  /\ q \in Seq(T) /\ \A k \in DOMAIN q : q[k] \in S
               /\ \A k, l \in DOMAIN q : q[k] = q[l] => k = l
<1> DEFINE c == Cardinality(S)
           q == SetToSeq(S)
<1>1. c \in Nat /\ ExistsBijection(1..c, S)
  BY FS_CardinalityType
<1>2. \E x \in [1..c -> S] : IsInjective(x)
  BY <1>1 DEF ExistsBijection, Bijection, Injection
<1>3. q \in [1..c -> S] /\ IsInjective(q)
  BY <1>2 DEF SetToSeq
<1> HIDE DEF c, q
<1>4. q \in Seq(S)
  BY <1>1, <1>3, FunctionIsSeq
<1>5. q \in Seq(T)
  BY <1>4
<1>6. \A k, l \in DOMAIN q : q[k] = q[l] => k = l
  BY <1>3 DEF IsInjective
<1> QED
  BY <1>3, <1>5, <1>6 DEF q

\* The names of the bolts in S, whose pages a commit frees.
IdsOf(S) == {b.id : b \in S}

\* S holds m groups of the directory's bolts, each of which may be merged.
Gathers(m, P, S) ==
    /\ DOMAIN P = 1..m
    /\ \A k \in 1..m : /\ P[k] \in SUBSET BoltsIn(segs) /\ P[k] # {}
                       /\ VecAgree(P[k]) /\ CgramAgree(P[k])
    /\ \A k, l \in 1..m : \A b \in P[k] \cap P[l] : k = l
    /\ S = UNION {P[k] : k \in 1..m}

\* q is the directory when what is made of the groups stands for the bolts of S.
Commits(m, S, q) ==
    /\ DirInv(q, nbolt + m, owed, freed \o SetToSeq(IdsOf(S)))
    /\ Cardinality(Found(S)) \in Nat /\ m <= Cardinality(Found(S))
    /\ Len(q) = Len(segs) - Cardinality(Found(S)) + m
    /\ \A i \in DOMAIN segs : segs[i] \notin S => \E k \in DOMAIN q : q[k] = segs[i]

\* A commit replaces the groups by what is made of them and frees their bolts.
LEMMA CommitDirectory ==
    ASSUME DirInv(segs, nbolt, owed, freed), NEW m \in Nat, NEW P, NEW S, Gathers(m, P, S)
    PROVE  Commits(m, S, Replaced(Found(S), Outputs(nbolt, m, P)))
<1>0. /\ DOMAIN P = 1..m
      /\ \A k \in 1..m : /\ P[k] \in SUBSET BoltsIn(segs) /\ P[k] # {}
                         /\ VecAgree(P[k]) /\ CgramAgree(P[k])
      /\ \A k, l \in 1..m : \A b \in P[k] \cap P[l] : k = l
      /\ S = UNION {P[k] : k \in 1..m}
  BY DEF Gathers
<1> USE <1>0
<1> DEFINE F == Found(S)
           r == Rewritten(segs, F, Outputs(nbolt, m, P))
           ids == IdsOf(S)
<1>1. /\ segs \in Seq(Bolt) /\ nbolt \in Nat /\ freed \in Seq(Nat) /\ NameInv(segs, nbolt, freed)
  BY DEF DirInv
<1>2. F = {i \in DOMAIN segs : \E k \in 1..m : segs[i] \in P[k]}
  BY DEF Found
<1>3. /\ \A i \in DOMAIN segs : segs[i].id \in 1..nbolt
      /\ \A i, j \in DOMAIN segs : segs[i].id = segs[j].id => i = j
  BY <1>1 DEF NameInv
<1>4. /\ r \in Seq(Bolt) /\ Merges(segs, nbolt, m, P, r)
      /\ Cardinality(F) \in Nat /\ Len(r) = Len(segs) - Cardinality(F) + m
  <2> HIDE DEF F, r
  <2>1. \A k \in 1..m : P[k] \in SUBSET BoltsIn(segs)
    OBVIOUS
  <2>2. F = Inputs(segs, m, P)
    BY <1>2 DEF Inputs
  <2>3. r = Rewritten(segs, Inputs(segs, m, P), Outputs(nbolt, m, P))
    BY <2>2 DEF r
  <2> QED
    BY <1>1, <1>3, <2>1, <2>2, <2>3, RewriteMerges
<1>5. S \subseteq BoltsIn(segs)
  OBVIOUS
<1>6. IsFiniteSet(ids) /\ ids \in SUBSET Nat
  <2> DEFINE f == [b \in S |-> b.id]
  <2>1. IsFiniteSet(S)
    BY <1>1, <1>5, BoltsFinite, FS_Subset
  <2>2. f \in Surjection(S, ids)
    BY DEF Surjection, IdsOf
  <2> HIDE DEF f
  <2>3. IsFiniteSet(ids)
    BY <2>1, <2>2, FS_Surjection
  <2>4. \A b \in S : b.id \in Nat
    BY <1>1, <1>3, <1>5 DEF BoltsIn
  <2> QED
    BY <2>3, <2>4 DEF IdsOf
<1> DEFINE q == SetToSeq(ids)
<1>7. /\ q \in Seq(Nat) /\ \A k \in DOMAIN q : q[k] \in ids
      /\ \A k, l \in DOMAIN q : q[k] = q[l] => k = l
  BY <1>6, SetToSeqFacts
<1>8. ASSUME NEW x \in ids
      PROVE  \E i \in DOMAIN segs : x = segs[i].id /\ \E j \in 1..m : segs[i] \in P[j]
  <2>1. PICK b \in S : x = b.id
    BY DEF IdsOf
  <2>2. PICK j \in 1..m : b \in P[j]
    OBVIOUS
  <2>3. PICK i \in DOMAIN segs : b = segs[i]
    BY <1>5 DEF BoltsIn
  <2> QED
    BY <2>1, <2>2, <2>3
<1> HIDE DEF q, r, F, ids
<1>9. DirInv(r, nbolt + m, owed, freed \o q)
  <2>1. \A k \in DOMAIN q :
          \E i \in DOMAIN segs : q[k] = segs[i].id /\ \E j \in 1..m : segs[i] \in P[j]
    BY <1>7, <1>8
  <2> QED
    BY <1>4, <1>7, <2>1, MergedDirectory
<1>10. m <= Cardinality(F)
  <2> DEFINE g == [k \in 1..m |-> CHOOSE i \in DOMAIN segs : segs[i] \in P[k]]
  <2>1. ASSUME NEW k \in 1..m PROVE g[k] \in DOMAIN segs /\ segs[g[k]] \in P[k]
    <3>1. \E i \in DOMAIN segs : segs[i] \in P[k]
      BY DEF BoltsIn
    <3> QED
      BY <3>1
  <2> HIDE DEF g
  <2>2. g \in [1..m -> F]
    BY <1>2, <2>1 DEF g
  <2>3. \A k, l \in 1..m : g[k] = g[l] => k = l
    BY <2>1
  <2>4. g \in Injection(1..m, F)
    BY <2>2, <2>3 DEF Injection, IsInjective
  <2>5. IsFiniteSet(F)
    BY <1>1, <1>2, BoltsFinite, FS_Subset
  <2>6. Cardinality(1..m) <= Cardinality(F)
    BY <2>4, <2>5, FS_Injection
  <2>7. Cardinality(1..m) = m
    <3>1. Cardinality(1..m) = IF 1 > m THEN 0 ELSE m - 1 + 1
      BY FS_Interval
    <3> QED
      BY <3>1
  <2> QED
    BY <2>6, <2>7
<1>11. \A i \in DOMAIN segs : segs[i] \notin S => \E k \in DOMAIN r : r[k] = segs[i]
  <2>1. ASSUME NEW i \in DOMAIN segs, segs[i] \notin S PROVE ~\E k \in 1..m : segs[i] \in P[k]
    BY <2>1
  <2> QED
    BY <1>4, <2>1 DEF Merges
<1> QED
  BY <1>4, <1>9, <1>10, <1>11 DEF Commits, Replaced, r, q, F, ids

-----------------------------------------------------------------------------
(* The loop *)

\* What a statement may merge depends on the directory and on what it skips.
LEMMA SameCandidates ==
    ASSUME UNCHANGED <<segs, skip>>
    PROVE  /\ Candidates(segs)' = Candidates(segs) /\ Target(segs)' = Target(segs)
           /\ BoltsIn(segs)' = BoltsIn(segs)
BY DEF Candidates, Target, LowestLevel, AtLevel, BoltsIn

\* The groups depend on the sources.
LEMMA SameGroups ==
    ASSUME UNCHANGED src
    PROVE  Ngroups' = Ngroups /\ \A g : Group(g)' = Group(g)
BY DEF Ngroups, Group

\* The parallel pass is the same.
LEMMA SamePar ==
    ASSUME ParInv, pc' = "workers" => pc = "workers", UNCHANGED <<src, worker, outvalid>>,
           \A i \in DOMAIN segs : i \in DOMAIN segs' /\ segs'[i] = segs[i]
    PROVE  ParInv'
<1> SUFFICES ASSUME pc' = "workers" PROVE ParInv'
  BY DEF ParInv
<1>1. Ngroups' = Ngroups /\ \A g : Group(g)' = Group(g)
  BY SameGroups
<1> QED
  BY <1>1 DEF ParInv

\* The least of a set of naturals.
LEMMA LeastNat ==
    ASSUME NEW L \in SUBSET Nat, L # {}
    PROVE  Min(L) \in L /\ \A x \in L : Min(L) <= x
<1> DEFINE R == OpToRel(<, Nat)
<1>1. IsWellFoundedOn(R, Nat)
  BY NatLessThanWellFounded
<1>2. \A x, y \in Nat : x < y => <<x, y>> \in R
  BY DEF OpToRel
<1> HIDE DEF R
<1>3. PICK m \in L : \A y \in L : ~(<<y, m>> \in R)
  BY <1>1, WFMin
<1>4. ASSUME NEW y \in L PROVE m =< y
  <2>1. m \in Nat /\ y \in Nat /\ ~(y < m)
    BY <1>2, <1>3
  <2> QED
    BY <2>1
<1>5. \E x \in L : \A y \in L : x =< y
  BY <1>4
<1> QED
  BY <1>5 DEF Min

\* The lowest level with n candidates has n candidates.
LEMMA LowestLevelFacts ==
    ASSUME NEW d, NEW n \in Nat
    PROVE  \/ /\ LowestLevel(d, n) \in 0..(MaxLevels - 1)
              /\ Cardinality(AtLevel(d, LowestLevel(d, n))) >= n
           \/ /\ LowestLevel(d, n) = -1
              /\ \A l \in 0..(MaxLevels - 1) : ~(Cardinality(AtLevel(d, l)) >= n)
<1> DEFINE L == {l \in 0..(MaxLevels - 1) : Cardinality(AtLevel(d, l)) >= n}
<1>1. LowestLevel(d, n) = IF L = {} THEN -1 ELSE Min(L)
  BY DEF LowestLevel
<1>2. L \in SUBSET Nat
  BY MergeAssumption
<1>3. L # {} => Min(L) \in L
  <2> HIDE DEF L
  <2> QED
    BY <1>2, LeastNat
<1>4. CASE L = {}
  <2>1. LowestLevel(d, n) = -1
    BY <1>1, <1>4
  <2>2. \A l \in 0..(MaxLevels - 1) : ~(Cardinality(AtLevel(d, l)) >= n)
    BY <1>4
  <2> QED
    BY <2>1, <2>2
<1>5. CASE L # {}
  <2>1. LowestLevel(d, n) \in L
    BY <1>1, <1>3, <1>5
  <2> QED
    BY <2>1
<1> QED
  BY <1>4, <1>5

\* A level that is merged has two candidates; none is merged when there are none.
LEMMA TargetFacts ==
    ASSUME NEW d
    PROVE  /\ Target(d) \in Int
           /\ Target(d) >= 0 => Cardinality(AtLevel(d, Target(d))) >= 2 \/
                                Cardinality(AtLevel(d, Target(d))) >= Fanout
<1>1. Fanout \in Nat /\ 2 \in Nat /\ MaxLevels \in Nat
  BY MergeAssumption
<1>2. Target(d) \in {LowestLevel(d, Fanout), LowestLevel(d, 2)}
  BY DEF Target
<1>3. CASE Target(d) = LowestLevel(d, Fanout)
  BY <1>1, <1>3, LowestLevelFacts
<1>4. CASE Target(d) = LowestLevel(d, 2)
  BY <1>1, <1>4, LowestLevelFacts
<1> QED
  BY <1>2, <1>3, <1>4

\* What a loop that is over leaves: nothing to merge, if it ran undisturbed.
Finished ==
    /\ job \in {"all", "parallel"} => Len(segs) <= 1 \/ Cardinality(Candidates(segs)) <= 1
    /\ job = "segments" => Len(segs) <= 1 \/ Target(segs) < 0

\* A loop that remembers every bolt as damaged has no candidates.
LEMMA AllSkipped ==
    ASSUME segs \in Seq(Bolt), skip \subseteq BoltsIn(segs), Len(segs) <= Cardinality(skip)
    PROVE  Candidates(segs) = {}
<1>1. IsFiniteSet(BoltsIn(segs)) /\ IsFiniteSet(DOMAIN segs)
  BY BoltsFinite
<1>2. Cardinality(BoltsIn(segs)) <= Len(segs)
  <2> DEFINE f == [i \in DOMAIN segs |-> segs[i]]
  <2>1. f \in Surjection(DOMAIN segs, BoltsIn(segs))
    BY DEF Surjection, BoltsIn
  <2> HIDE DEF f
  <2>2. Cardinality(BoltsIn(segs)) <= Cardinality(DOMAIN segs)
    BY <1>1, <2>1, FS_Surjection
  <2>3. DOMAIN segs = 1..Len(segs) /\ Len(segs) \in Nat
    OBVIOUS
  <2>4. Cardinality(1..Len(segs)) = IF 1 > Len(segs) THEN 0 ELSE Len(segs) - 1 + 1
    BY <2>3, FS_Interval
  <2>5. Cardinality(1..Len(segs)) = Len(segs)
    BY <2>3, <2>4
  <2> QED
    BY <2>2, <2>3, <2>5
<1>3. /\ Cardinality(skip) <= Cardinality(BoltsIn(segs))
      /\ Cardinality(BoltsIn(segs)) = Cardinality(skip) => BoltsIn(segs) = skip
      /\ IsFiniteSet(skip)
  BY <1>1, FS_Subset
<1>4. Cardinality(skip) \in Nat /\ Cardinality(BoltsIn(segs)) \in Nat /\ Len(segs) \in Nat
  BY <1>1, <1>3, FS_CardinalityType
<1>5. BoltsIn(segs) = skip
  BY <1>2, <1>3, <1>4
<1> QED
  BY <1>5 DEF Candidates, BoltsIn

\* An undisturbed loop that stops choosing is finished: its guard does not stop it before.
LEMMA LoopFinishes ==
    ASSUME MInv, pc = "loop",
           guard >= MaxSegments \/ Len(segs) <= 1 \/ Cardinality(Pool(segs)) < 2,
           quiet
    PROVE  Finished
<1>1. segs \in Seq(Bolt) /\ Len(segs) \in Nat /\ guard \in Nat /\ MaxSegments \in Nat
  BY MergeAssumption DEF MInv, DirInv, LoopInv
<1>2. skip \subseteq BoltsIn(segs) /\ guard + Len(segs) <= MaxSegments + Cardinality(skip)
  BY DEF MInv, PaceInv
<1>3. Cardinality(skip) \in Nat
  BY <1>1, <1>2, BoltsFinite, FS_Subset, FS_CardinalityType
<1>4. /\ IsFiniteSet(Candidates(segs)) /\ Cardinality(Candidates(segs)) \in Nat
      /\ \A l : AtLevel(segs, l) \in SUBSET Candidates(segs)
  <2>1. Candidates(segs) \in SUBSET DOMAIN segs
    BY DEF Candidates
  <2> QED
    BY <1>1, <2>1, BoltsFinite, FS_Subset, FS_CardinalityType DEF AtLevel
<1>5. CASE Len(segs) <= 1
  BY <1>5 DEF Finished
<1>6. CASE guard >= MaxSegments
  <2>1. Len(segs) <= Cardinality(skip)
    BY <1>1, <1>2, <1>3, <1>6
  <2>2. Candidates(segs) = {}
    BY <1>1, <1>2, <2>1, AllSkipped
  <2>3. Cardinality({}) = 0
    BY FS_EmptySet
  <2>4. \A l : Cardinality(AtLevel(segs, l)) = 0
    BY <1>4, <2>2, <2>3
  <2>5. ~(Target(segs) >= 0)
    BY <2>4, TargetFacts, MergeAssumption
  <2>6. Target(segs) < 0
    BY <2>5, TargetFacts
  <2>7. Cardinality(Candidates(segs)) <= 1
    BY <2>2, <2>3
  <2> QED
    BY <2>6, <2>7 DEF Finished
<1>7. CASE Cardinality(Pool(segs)) < 2
  <2>1. ASSUME job \in {"all", "parallel"} PROVE Cardinality(Candidates(segs)) <= 1
    <3>1. Pool(segs) = Candidates(segs)
      BY <2>1 DEF Pool
    <3> QED
      BY <1>4, <1>7, <3>1
  <2>2. ASSUME job = "segments" PROVE Target(segs) < 0
    <3>1. Pool(segs) = AtLevel(segs, Target(segs))
      BY <2>2 DEF Pool
    <3>2. Cardinality(AtLevel(segs, Target(segs))) \in Nat
      BY <1>4, FS_Subset, FS_CardinalityType
    <3>3. Cardinality(AtLevel(segs, Target(segs))) < 2
      BY <1>7, <3>1
    <3>4. ~(Target(segs) >= 0)
      BY <3>2, <3>3, TargetFacts, MergeAssumption
    <3> QED
      BY <3>4, TargetFacts
  <2> QED
    BY <2>1, <2>2 DEF Finished
<1> QED
  BY <1>5, <1>6, <1>7

\* The end of a loop.
LEMMA EndStep ==
    ASSUME MInv, NEW fin, EndLoop(fin), pc \notin {"idle", "workers", "parallel"},
           UNCHANGED <<dirVars, parVars, arrived, owed>>, fin /\ quiet => Finished
    PROVE  MInv'
<1>1. UNCHANGED <<segs, nbolt, freed, owed, guard, skip, job, quiet, src, worker, outvalid>>
      /\ pc' \in {"finalize", "idle"} /\ ended' \in {job, "none"}
      /\ (ended' # "none" => fin /\ quiet)
  BY DEF EndLoop, dirVars, parVars
<1>2. DirInv(segs, nbolt, owed, freed)'
  BY <1>1 DEF MInv
<1>3. LoopInv'
  BY <1>1 DEF MInv, LoopInv
<1>4. ParInv'
  BY <1>1 DEF ParInv
<1>5. PaceInv'
  <2>1. Candidates(segs)' = Candidates(segs) /\ Target(segs)' = Target(segs)
        /\ BoltsIn(segs)' = BoltsIn(segs)
    BY <1>1, SameCandidates
  <2>2. quiet' /\ pc' # "idle" => skip' \subseteq BoltsIn(segs)'
                                 /\ guard' + Len(segs') <= MaxSegments + Cardinality(skip')
    BY <1>1, <2>1 DEF MInv, PaceInv
  <2>3. ASSUME ended' # "none" PROVE ended' = job /\ Finished
    BY <1>1, <2>3
  <2>4. ended' \in {"all", "parallel"} =>
          Len(segs') <= 1 \/ Cardinality(Candidates(segs)') <= 1
    BY <1>1, <2>1, <2>3 DEF Finished
  <2>5. ended' = "segments" => Len(segs') <= 1 \/ Target(segs)' < 0
    BY <1>1, <2>1, <2>3 DEF Finished
  <2> QED
    BY <2>2, <2>4, <2>5 DEF PaceInv
<1> QED
  BY <1>2, <1>3, <1>4, <1>5 DEF MInv

-----------------------------------------------------------------------------
(* Every step keeps the invariant *)

\* An INSERT appends a bolt: what the session and its workers read is still there.
LEMMA ArrivalStep ==
    ASSUME MInv, NEW k \in Arrivals, weave_add_segment(k)
    PROVE  MInv'
<1> DEFINE b == BoltOf(nbolt + 1, k)
<1>1. /\ segs' = Append(segs, b) /\ nbolt' = nbolt + 1 /\ owed' = owed \union OwedOf(b)
      /\ quiet' = FALSE /\ ended' = "none" /\ Len(segs) < MaxSegments
      /\ k.reused = "live" => \A i \in DOMAIN segs : Reused \notin Live(segs[i])
      /\ UNCHANGED <<freed, job, pc, guard, skip, plan, sel, chosen, src, worker, outvalid>>
  BY DEF weave_add_segment, loopVars, parVars
<1>2. k \in Kind
  BY KindAssumption
<1>3. DirInv(segs, nbolt, owed, freed)'
  <2>1. DirInv(Append(segs, b), nbolt + 1, owed \union OwedOf(b), freed)
    BY <1>1, <1>2, ArrivedDirectory DEF MInv
  <2> HIDE DEF b
  <2> QED
    BY <1>1, <2>1
<1> HIDE DEF b
<1>4. /\ segs \in Seq(Bolt) /\ Len(segs) \in Nat /\ MaxSegments \in Nat
      /\ Len(segs') = Len(segs) + 1
      /\ \A i \in DOMAIN segs : i \in DOMAIN segs' /\ segs'[i] = segs[i]
  <2>1. segs \in Seq(Bolt) /\ segs' \in Seq(Bolt)
    BY <1>3 DEF MInv, DirInv
  <2> QED
    BY <1>1, <2>1, MergeAssumption
<1>5. LoopInv'
  <2>1. DOMAIN segs \subseteq DOMAIN segs' /\ Len(segs') <= MaxSegments
    BY <1>1, <1>4
  <2> QED
    BY <1>1, <1>4, <2>1 DEF MInv, LoopInv
<1>6. ParInv'
  BY <1>1, <1>4, SamePar DEF MInv
<1>7. PaceInv'
  BY <1>1 DEF PaceInv
<1> QED
  BY <1>3, <1>5, <1>6, <1>7 DEF MInv

\* A loop begins with a guard of 0 and remembers no bolt.
LEMMA FreshLoop ==
    ASSUME MInv, pc \in {"idle", "finalize"}, pc' \in {"parallel", "loop"},
           guard' = 0, skip' = {}, ended' = "none", UNCHANGED dirVars, UNCHANGED owed
    PROVE  MInv'
<1>1. UNCHANGED <<segs, nbolt, freed, owed>>
  BY DEF dirVars
<1>2. DirInv(segs, nbolt, owed, freed)'
  BY <1>1 DEF MInv
<1>3. LoopInv' /\ ParInv'
  BY <1>1 DEF MInv, LoopInv, ParInv
<1>4. PaceInv'
  <2>1. Cardinality({}) = 0
    BY FS_EmptySet
  <2>2. Len(segs') <= MaxSegments /\ Len(segs') \in Nat /\ MaxSegments \in Nat
    BY <1>1, MergeAssumption DEF MInv, DirInv, LoopInv
  <2> QED
    BY <2>1, <2>2 DEF PaceInv
<1> QED
  BY <1>2, <1>3, <1>4 DEF MInv

\* A statement begins.
LEMMA BeginStep ==
    ASSUME MInv, NEW j \in Jobs, Begin(j)
    PROVE  MInv'
<1>1. /\ pc = "idle" /\ pc' \in {"parallel", "loop"} /\ guard' = 0 /\ skip' = {}
      /\ ended' = "none" /\ UNCHANGED dirVars /\ UNCHANGED owed
  BY DEF Begin
<1> QED
  BY <1>1, FreshLoop

\* A step that changes only where the session is, outside any loop.
LEMMA IdleStep ==
    ASSUME MInv, pc' = "idle", UNCHANGED dirVars, UNCHANGED owed, guard' \in Nat,
           ended' = "none" \/ UNCHANGED <<ended, skip>>
    PROVE  MInv'
<1>1. UNCHANGED <<segs, nbolt, freed, owed>>
  BY DEF dirVars
<1>2. DirInv(segs, nbolt, owed, freed)'
  BY <1>1 DEF MInv
<1>3. LoopInv' /\ ParInv'
  BY <1>1 DEF MInv, LoopInv, ParInv
<1>4. PaceInv'
  <2>1. CASE ended' = "none"
    BY <2>1 DEF PaceInv
  <2>2. CASE UNCHANGED <<ended, skip>>
    <3>1. Candidates(segs)' = Candidates(segs) /\ Target(segs)' = Target(segs)
      BY <1>1, <2>2, SameCandidates
    <3> QED
      BY <1>1, <2>2, <3>1 DEF MInv, PaceInv
  <2> QED
    BY <2>1, <2>2
<1> QED
  BY <1>2, <1>3, <1>4 DEF MInv

\* A build is finalized, with or without another loop.
LEMMA FinalizeStep ==
    ASSUME MInv, weave_build_finalize
    PROVE  MInv'
<1>1. pc = "finalize" /\ UNCHANGED dirVars /\ UNCHANGED owed
  BY DEF weave_build_finalize
<1>2. CASE pc' = "loop" /\ guard' = 0 /\ skip' = {} /\ ended' = "none"
  BY <1>1, <1>2, FreshLoop
<1>3. CASE pc' = "idle" /\ UNCHANGED <<guard, skip, ended>>
  <2>1. guard' \in Nat
    BY <1>3 DEF MInv, LoopInv
  <2> QED
    BY <1>1, <1>3, <2>1, IdleStep
<1> QED
  BY <1>2, <1>3 DEF weave_build_finalize

\* The session fails.
LEMMA AbortStep ==
    ASSUME MInv, Abort
    PROVE  MInv'
<1>1. /\ pc' = "idle" /\ guard' = 0 /\ ended' = "none"
      /\ UNCHANGED dirVars /\ UNCHANGED owed
  BY DEF Abort
<1> QED
  BY <1>1, IdleStep

\* A pass chooses, or the loop ends.
LEMMA PlanStep ==
    ASSUME MInv, weave_merge_plan
    PROVE  MInv'
<1> DEFINE pool == Pool(segs)
<1>1. pc = "loop" /\ UNCHANGED <<segs, nbolt, freed, src, worker, outvalid, arrived, owed>>
  BY DEF weave_merge_plan, dirVars, parVars
<1>2. CASE guard >= MaxSegments \/ Len(segs) <= 1 \/ Cardinality(pool) < 2
  <2>1. EndLoop(TRUE)
    BY <1>2 DEF weave_merge_plan
  <2>2. quiet => Finished
    BY <1>1, <1>2, LoopFinishes
  <2> QED
    BY <1>1, <2>1, <2>2, EndStep DEF dirVars, parVars
<1>3. CASE ~(guard >= MaxSegments \/ Len(segs) <= 1 \/ Cardinality(pool) < 2)
  <2>1. /\ sel' \in Smallest(segs, pool) /\ plan' = segs /\ pc' = "merge"
        /\ UNCHANGED <<guard, skip, chosen, job, quiet, ended>>
    BY <1>3 DEF weave_merge_plan
  <2>2. segs \in Seq(Bolt)
    BY DEF MInv, DirInv
  <2>3. pool \in SUBSET Candidates(segs) /\ Candidates(segs) \in SUBSET DOMAIN segs
    BY DEF Pool, AtLevel, Candidates
  <2>4. IsFiniteSet(pool) /\ Cardinality(pool) \in Nat
    BY <2>2, <2>3, BoltsFinite, FS_Subset, FS_CardinalityType
  <2>5. sel' \subseteq pool /\ Cardinality(sel') = Min({Fanout, Cardinality(pool)})
    BY <2>1 DEF Smallest, kSubset
  <2> HIDE DEF pool
  <2>6. Cardinality(sel') >= 2
    <3>1. Fanout \in Int /\ Fanout >= 2
      BY MergeAssumption
    <3>2. Min({Fanout, Cardinality(pool)}) = IF Fanout <= Cardinality(pool) THEN Fanout ELSE Cardinality(pool)
      BY <2>4, <3>1, MinOfTwo
    <3> QED
      BY <1>3, <2>4, <2>5, <3>1, <3>2
  <2>7. sel' \subseteq DOMAIN segs /\ \A i \in sel' : segs[i] \notin skip
    BY <2>3, <2>5 DEF Candidates
  <2>8. DirInv(segs, nbolt, owed, freed)'
    BY <1>1 DEF MInv
  <2>9. LoopInv'
    BY <1>1, <2>1, <2>6, <2>7 DEF MInv, LoopInv
  <2>10. ParInv'
    BY <2>1 DEF ParInv
  <2>11. PaceInv'
    <3>1. BoltsIn(segs)' = BoltsIn(segs) /\ ended' = "none"
      BY <1>1, <2>1, SameCandidates DEF MInv, LoopInv
    <3> QED
      BY <1>1, <2>1, <3>1 DEF MInv, PaceInv
  <2> QED
    BY <2>8, <2>9, <2>10, <2>11 DEF MInv
<1> QED
  BY <1>2, <1>3

\* A merge reads its inputs, skips a damaged one or gives up.
LEMMA SelectedStep ==
    ASSUME MInv, weave_merge_selected
    PROVE  MInv'
<1>1. pc = "merge" /\ UNCHANGED <<segs, nbolt, freed, src, worker, outvalid, arrived, owed>>
  BY DEF weave_merge_selected, dirVars, parVars
<1>2. CASE EndLoop(FALSE)
  BY <1>1, <1>2, EndStep DEF dirVars, parVars
<1>3. ASSUME NEW i \in FirstDamaged(sel), SkipDamaged(i), pc' = "loop", guard' = guard + 1,
             UNCHANGED <<plan, sel, chosen, job, quiet, ended>>
      PROVE  MInv'
  <2>1. i \in sel /\ skip' = skip \union {plan[i]}
    BY <1>3 DEF FirstDamaged, SkipDamaged
  <2>2. i \in DOMAIN segs /\ plan[i] = segs[i] /\ segs[i] \notin skip /\ guard \in Nat
    BY <1>1, <2>1 DEF MInv, LoopInv
  <2>3. DirInv(segs, nbolt, owed, freed)'
    BY <1>1 DEF MInv
  <2>4. LoopInv' /\ ParInv'
    BY <1>1, <1>3, <2>2 DEF MInv, LoopInv, ParInv
  <2>5. PaceInv'
    <3>1. ended' = "none"
      BY <1>1, <1>3 DEF MInv, LoopInv
    <3>2. ASSUME quiet'
          PROVE  /\ skip' \subseteq BoltsIn(segs)'
                 /\ guard' + Len(segs') <= MaxSegments + Cardinality(skip')
      <4>1. skip \subseteq BoltsIn(segs) /\ guard + Len(segs) <= MaxSegments + Cardinality(skip)
        BY <1>1, <1>3, <3>2 DEF MInv, PaceInv
      <4>2. segs \in Seq(Bolt) /\ Len(segs) \in Nat /\ MaxSegments \in Nat
        BY MergeAssumption DEF MInv, DirInv
      <4>3. IsFiniteSet(skip) /\ Cardinality(skip) \in Nat
        BY <4>1, <4>2, BoltsFinite, FS_Subset, FS_CardinalityType
      <4>4. Cardinality(skip') = Cardinality(skip) + 1
        BY <2>1, <2>2, <4>3, FS_AddElement
      <4>5. skip' \subseteq BoltsIn(segs)
        BY <2>1, <2>2, <4>1 DEF BoltsIn
      <4>6. BoltsIn(segs)' = BoltsIn(segs)
        BY <1>1 DEF BoltsIn
      <4>7. guard' + Len(segs') <= MaxSegments + Cardinality(skip')
        BY <1>1, <1>3, <2>2, <4>1, <4>2, <4>3, <4>4
      <4> QED
        BY <4>5, <4>6, <4>7
    <3> QED
      BY <3>1, <3>2 DEF PaceInv
  <2> QED
    BY <2>3, <2>4, <2>5 DEF MInv
<1>4. ASSUME VecAgree({segs[i] : i \in sel}), CgramAgree({segs[i] : i \in sel}),
             chosen' = [i \in sel |-> segs[i]], pc' = "commit",
             UNCHANGED <<guard, skip, plan, sel, job, quiet, ended>>
      PROVE  MInv'
  <2>1. DOMAIN chosen' = sel /\ \A i \in sel : chosen'[i] = segs[i]
    BY <1>4
  <2>2. BoltsIn(chosen)' = {segs[i] : i \in sel}
    BY <2>1 DEF BoltsIn
  <2>3. DirInv(segs, nbolt, owed, freed)'
    BY <1>1 DEF MInv
  <2>4. LoopInv'
    <3>1. VecAgree(BoltsIn(chosen)') /\ CgramAgree(BoltsIn(chosen)')
      BY <1>4, <2>2
    <3> QED
      BY <1>1, <1>4, <2>1, <3>1 DEF MInv, LoopInv
  <2>5. ParInv'
    BY <1>4 DEF ParInv
  <2>6. PaceInv'
    <3>1. BoltsIn(segs)' = BoltsIn(segs) /\ ended' = "none"
      BY <1>1, <1>4, SameCandidates DEF MInv, LoopInv
    <3> QED
      BY <1>1, <1>4, <3>1 DEF MInv, PaceInv
  <2> QED
    BY <2>3, <2>4, <2>5, <2>6 DEF MInv
<1> QED
  BY <1>2, <1>3, <1>4 DEF weave_merge_selected

\* A merge commits: the directory has at least one bolt less.
LEMMA CommitStep ==
    ASSUME MInv, weave_merge_commit
    PROVE  MInv'
<1> DEFINE S == BoltsIn(chosen)
           F == Found(S)
           P == << S >>
           r == Replaced(F, Outputs(nbolt, 1, P))
<1>1. pc = "commit" /\ UNCHANGED <<src, worker, outvalid, arrived, owed>>
  BY DEF weave_merge_commit, parVars
<1>2. CASE EndLoop(FALSE) /\ UNCHANGED dirVars
  BY <1>1, <1>2, EndStep DEF parVars
<1>3. CASE ~(EndLoop(FALSE) /\ UNCHANGED dirVars)
  <2>1. /\ segs' = Replaced(F, <<MergedBolt(S, nbolt + 1)>>) /\ nbolt' = nbolt + 1
        /\ freed' = freed \o SetToSeq({b.id : b \in S})
        /\ pc' = "loop" /\ guard' = guard + 1
        /\ UNCHANGED <<skip, plan, sel, chosen, job, quiet, ended>>
    BY <1>3 DEF weave_merge_commit
  <2>2. /\ sel \subseteq DOMAIN segs /\ Cardinality(sel) >= 2 /\ guard \in Nat
        /\ \A i \in sel : segs[i] \notin skip
        /\ DOMAIN chosen = sel /\ \A i \in sel : chosen[i] = segs[i]
        /\ VecAgree(S) /\ CgramAgree(S)
    BY <1>1 DEF MInv, LoopInv
  <2>3. segs \in Seq(Bolt) /\ Len(segs) \in Nat /\ MaxSegments \in Nat /\ Len(segs) <= MaxSegments
    BY MergeAssumption DEF MInv, DirInv, LoopInv
  <2>4. S = {segs[i] : i \in sel}
    BY <2>2 DEF BoltsIn
  <2>5. sel \subseteq F /\ F \in SUBSET DOMAIN segs
    BY <2>2, <2>4 DEF Found
  <2>6. IsFiniteSet(F) /\ Cardinality(F) \in Nat /\ Cardinality(sel) <= Cardinality(F)
        /\ Cardinality(sel) \in Nat
    BY <2>3, <2>5, BoltsFinite, FS_Subset, FS_CardinalityType
  <2>7. S \in SUBSET BoltsIn(segs)
    BY <2>2, <2>4 DEF BoltsIn
  <2>8. S # {}
    <3>1. sel # {}
      <4>1. Cardinality({}) = 0
        BY FS_EmptySet
      <4> QED
        BY <2>2, <4>1
    <3> QED
      BY <2>4, <3>1
  <2>9. IdsOf(S) = {b.id : b \in S}
    BY DEF IdsOf
  <2> HIDE DEF S, F
  <2>10. DOMAIN P = 1..1 /\ P[1] = S /\ S = UNION {P[k] : k \in 1..1}
    OBVIOUS
  <2> HIDE DEF P
  <2>11. Outputs(nbolt, 1, P) = <<MergedBolt(S, nbolt + 1)>>
    <3>1. Outputs(nbolt, 1, P) = [k \in 1..1 |-> MergedBolt(P[k], nbolt + k)]
      BY DEF Outputs
    <3>2. \A x, y : [k \in 1..1 |-> IF k = 1 THEN x ELSE y] = <<x>>
      OBVIOUS
    <3>3. [k \in 1..1 |-> MergedBolt(P[k], nbolt + k)] = <<MergedBolt(P[1], nbolt + 1)>>
      OBVIOUS
    <3> QED
      BY <2>10, <3>1, <3>3
  <2>12. /\ DirInv(r, nbolt + 1, owed, freed \o SetToSeq(IdsOf(S)))
         /\ Len(r) = Len(segs) - Cardinality(F) + 1
         /\ \A i \in DOMAIN segs : segs[i] \notin S => \E k \in DOMAIN r : r[k] = segs[i]
    <3>1. \A k \in 1..1 : /\ P[k] \in SUBSET BoltsIn(segs) /\ P[k] # {}
                          /\ VecAgree(P[k]) /\ CgramAgree(P[k])
      BY <2>2, <2>7, <2>8, <2>10
    <3>2. \A k, l \in 1..1 : \A b \in P[k] \cap P[l] : k = l
      OBVIOUS
    <3>3. Gathers(1, P, S)
      BY <2>10, <3>1, <3>2 DEF Gathers
    <3>4. DirInv(segs, nbolt, owed, freed) /\ 1 \in Nat
      BY DEF MInv
    <3>5. Commits(1, S, Replaced(Found(S), Outputs(nbolt, 1, P)))
      BY <3>3, <3>4, CommitDirectory
    <3> QED
      BY <3>5 DEF F, Commits
  <2>13. segs' = r
    BY <2>1, <2>11
  <2> HIDE DEF r
  <2>14. DirInv(segs, nbolt, owed, freed)'
    BY <1>1, <2>1, <2>9, <2>12, <2>13
  <2>15. Len(segs') <= Len(segs) - 1 /\ Len(segs') \in Int
    BY <2>2, <2>3, <2>6, <2>12, <2>13
  <2>16. LoopInv' /\ ParInv'
    <3>1. Len(segs') <= MaxSegments /\ guard' \in Nat
      BY <2>1, <2>2, <2>3, <2>15
    <3>2. ended' = "none"
      BY <1>1, <2>1 DEF MInv, LoopInv
    <3> QED
      BY <2>1, <3>1, <3>2 DEF LoopInv, ParInv
  <2>17. PaceInv'
    <3>1. ended' = "none"
      BY <1>1, <2>1 DEF MInv, LoopInv
    <3>2. ASSUME quiet'
          PROVE  /\ skip' \subseteq BoltsIn(segs)'
                 /\ guard' + Len(segs') <= MaxSegments + Cardinality(skip')
      <4>1. skip \subseteq BoltsIn(segs) /\ guard + Len(segs) <= MaxSegments + Cardinality(skip)
        BY <1>1, <2>1, <3>2 DEF MInv, PaceInv
      <4>2. Cardinality(skip) \in Nat
        BY <2>3, <4>1, BoltsFinite, FS_Subset, FS_CardinalityType
      <4>3. ASSUME NEW x \in skip PROVE x \in BoltsIn(segs)'
        <5>1. PICK i \in DOMAIN segs : x = segs[i]
          BY <4>1 DEF BoltsIn
        <5>2. x \notin S
          BY <2>2, <2>4
        <5>3. PICK k \in DOMAIN r : r[k] = x
          BY <2>12, <5>1, <5>2
        <5> QED
          BY <2>13, <5>3 DEF BoltsIn
      <4>4. guard' + Len(segs') <= MaxSegments + Cardinality(skip')
        BY <2>1, <2>2, <2>3, <2>15, <4>1, <4>2
      <4> QED
        BY <2>1, <4>3, <4>4
    <3> QED
      BY <3>1, <3>2 DEF PaceInv
  <2> QED
    BY <2>14, <2>16, <2>17 DEF MInv
<1> QED
  BY <1>2, <1>3

\* The parallel pass begins, or there is none.
LEMMA ParallelStep ==
    ASSUME MInv, NEW n \in 0..Request, weave_merge_all_parallel(n)
    PROVE  MInv'
<1> DEFINE X == {i \in DOMAIN segs : ~Mergeable(segs[i], BoltsIn(segs))}
           s == Rewritten(segs, X, << >>)
           groups == Min({Request + 1, Len(s)})
<1>1. /\ pc = "parallel"
      /\ UNCHANGED <<segs, nbolt, freed, job, guard, skip, plan, sel, chosen, arrived, owed, quiet, ended>>
  BY DEF weave_merge_all_parallel, dirVars, loopVars, history
<1>2. /\ pc' \in {"loop", "workers"}
      /\ pc' = "workers" =>
            /\ Len(s) > 2 /\ src' = s /\ outvalid' = {}
            /\ worker' = [g \in 0..(groups - 1) |-> IF g <= n THEN "runs" ELSE "absent"]
  BY DEF weave_merge_all_parallel
<1> HIDE DEF X
<1>3. DirInv(segs, nbolt, owed, freed)'
  BY <1>1 DEF MInv
<1>4. guard = 0 /\ skip = {} /\ ended = "none" /\ Len(segs) <= MaxSegments
  BY <1>1 DEF MInv, LoopInv
<1>5. LoopInv'
  BY <1>1, <1>2, <1>4 DEF LoopInv
<1>6. PaceInv'
  <2>1. BoltsIn(segs)' = BoltsIn(segs)
    BY <1>1, SameCandidates
  <2> QED
    BY <1>1, <1>2, <1>4, <2>1 DEF MInv, PaceInv
<1>7. ASSUME pc' = "workers" PROVE ParInv'
  <2>1. segs \in Seq(Bolt) /\ X \in SUBSET DOMAIN segs /\ << >> \in Seq(Bolt)
    BY DEF MInv, DirInv, X
  <2>2. Rewrites(segs, X, << >>, s, Bolt)
    BY <2>1, RewrittenFacts
  <2> HIDE DEF s
  <2>3. /\ s \in Seq(Bolt)
        /\ \A k \in DOMAIN s : k \in 1..KeptLen(segs, X)
        /\ \A k \in 1..KeptLen(segs, X) :
              OldPos(segs, X, k) \in DOMAIN segs /\ s[k] = segs[OldPos(segs, X, k)]
        /\ \A k, l \in 1..KeptLen(segs, X) : OldPos(segs, X, k) = OldPos(segs, X, l) => k = l
    <3>1. DOMAIN << >> = {}
      OBVIOUS
    <3>2. /\ s \in Seq(Bolt)
          /\ \A k \in DOMAIN s : k \in 1..KeptLen(segs, X) \/ (k - KeptLen(segs, X)) \in DOMAIN << >>
          /\ \A k \in 1..KeptLen(segs, X) :
                OldPos(segs, X, k) \in (DOMAIN segs) \ X /\ s[k] = segs[OldPos(segs, X, k)]
          /\ \A k, l \in 1..KeptLen(segs, X) : OldPos(segs, X, k) = OldPos(segs, X, l) => k = l
      BY <2>2, Zenon DEF Rewrites
    <3> QED
      BY <3>1, <3>2
  <2>4. \A i, j \in DOMAIN segs : segs[i] = segs[j] => i = j
    BY DEF MInv, DirInv, NameInv
  <2>5. \A i \in DOMAIN s : \E j \in DOMAIN segs : s[i] = segs[j]
    BY <2>3
  <2>6. \A i, j \in DOMAIN s : s[i] = s[j] => i = j
    BY <2>3, <2>4
  <2>7. Len(s) >= 1
    <3>1. Len(s) \in Nat
      BY <2>3
    <3> QED
      BY <1>2, <1>7, <3>1
  <2>8. DOMAIN worker' = 0..(Ngroups' - 1)
    <3>1. Ngroups' = groups
      BY <1>2, <1>7 DEF Ngroups
    <3> HIDE DEF groups
    <3> QED
      BY <1>2, <1>7, <3>1
  <2> QED
    BY <1>1, <1>2, <1>7, <2>3, <2>5, <2>6, <2>7, <2>8 DEF ParInv
<1> QED
  BY <1>3, <1>5, <1>6, <1>7 DEF MInv, ParInv

\* A participant merges its group, or leaves it as it is.
LEMMA GroupStep ==
    ASSUME MInv, NEW g \in DOMAIN worker, weave_merge_one_group(g)
    PROVE  MInv'
<1>1. /\ pc = "workers" /\ worker' = [worker EXCEPT ![g] = "done"]
      /\ UNCHANGED <<segs, nbolt, freed, job, pc, guard, skip, plan, sel, chosen, src, arrived, owed, quiet, ended>>
      /\ \/ outvalid' = outvalid
         \/ /\ outvalid' = outvalid \union {g} /\ Cardinality(Group(g)) > 1
            /\ VecAgree(Group(g)) /\ CgramAgree(Group(g))
  BY DEF weave_merge_one_group, dirVars, loopVars, history
<1>2. DirInv(segs, nbolt, owed, freed)' /\ LoopInv'
  BY <1>1 DEF MInv, LoopInv
<1>3. PaceInv'
  <2>1. BoltsIn(segs)' = BoltsIn(segs) /\ Candidates(segs)' = Candidates(segs) /\ Target(segs)' = Target(segs)
    BY <1>1, SameCandidates
  <2> QED
    BY <1>1, <2>1 DEF MInv, PaceInv
<1>4. ParInv'
  <2>1. Ngroups' = Ngroups /\ \A h : Group(h)' = Group(h)
    BY <1>1, SameGroups
  <2>2. DOMAIN worker' = DOMAIN worker
    BY <1>1
  <2>3. /\ src \in Seq(Bolt) /\ Len(src) >= 1
        /\ \A i \in DOMAIN src : \E j \in DOMAIN segs : src[i] = segs[j]
        /\ \A i, j \in DOMAIN src : src[i] = src[j] => i = j
        /\ DOMAIN worker = 0..(Ngroups - 1) /\ outvalid \subseteq DOMAIN worker
        /\ \A h \in outvalid : Group(h) # {} /\ VecAgree(Group(h)) /\ CgramAgree(Group(h))
    BY <1>1 DEF MInv, ParInv
  <2>4. outvalid' \subseteq DOMAIN worker
    BY <1>1, <2>3
  <2>5. \A h \in outvalid' : Group(h) # {} /\ VecAgree(Group(h)) /\ CgramAgree(Group(h))
    <3>1. Cardinality({}) = 0
      BY FS_EmptySet
    <3>2. Cardinality(Group(g)) > 1 => Group(g) # {}
      BY <3>1
    <3> QED
      BY <1>1, <2>3, <3>2
  <2>6. \A h : VecAgree(Group(h))' = VecAgree(Group(h)) /\ CgramAgree(Group(h))' = CgramAgree(Group(h))
    BY <1>1 DEF VecAgree, CgramAgree, Group, Ngroups
  <2>7. \A h \in outvalid' : Group(h)' # {} /\ VecAgree(Group(h))' /\ CgramAgree(Group(h))'
    BY <2>1, <2>5, <2>6
  <2> QED
    BY <1>1, <2>1, <2>2, <2>3, <2>4, <2>7 DEF ParInv
<1> QED
  BY <1>2, <1>3, <1>4 DEF MInv

\* The leader commits what the participants wrote; nothing is left out that it frees.
LEMMA ParallelCommitStep ==
    ASSUME MInv, weave_merge_parallel_commit
    PROVE  MInv'
<1> DEFINE n == Ngroups
           G == Rewritten([k \in 1..n |-> k - 1], {k \in 1..n : k - 1 \notin Committed}, << >>)
           S == UNION {Group(g) : g \in Committed}
           m == Len(G)
           P == [k \in 1..m |-> Group(G[k])]
           r == Replaced(Found(S), Outputs(nbolt, m, P))
<1>1. /\ pc = "workers" /\ pc' = "loop"
      /\ segs' = Replaced(Found(S), [k \in DOMAIN G |-> MergedBolt(Group(G[k]), nbolt + k)])
      /\ nbolt' = nbolt + m /\ freed' = freed \o SetToSeq({b.id : b \in S})
      /\ UNCHANGED <<job, guard, skip, arrived, owed, quiet, ended>>
  BY DEF weave_merge_parallel_commit, loopVars, history
<1>2. /\ src \in Seq(Bolt) /\ Len(src) >= 1
      /\ \A i \in DOMAIN src : \E j \in DOMAIN segs : src[i] = segs[j]
      /\ \A i, j \in DOMAIN src : src[i] = src[j] => i = j
      /\ outvalid \subseteq 0..(Ngroups - 1)
      /\ \A g \in outvalid : Group(g) # {} /\ VecAgree(Group(g)) /\ CgramAgree(Group(g))
  BY <1>1 DEF MInv, ParInv
<1>3. /\ Ngroups \in Nat \ {0}
      /\ \A g \in 0..(Ngroups - 1) : Group(g) \subseteq BoltsIn(src)
      /\ \A g, h \in 0..(Ngroups - 1) : \A b \in Group(g) \cap Group(h) : g = h
  BY <1>2, GroupsApart
<1>4. Committed \subseteq outvalid
  BY DEF Committed
<1>5. /\ m \in Nat /\ DOMAIN G = 1..m
      /\ \A k \in 1..m : G[k] \in Committed
      /\ \A k, l \in 1..m : G[k] = G[l] => k = l
      /\ \A c \in Committed : \E k \in 1..m : G[k] = c
  <2>1. Ngroups \in Nat /\ Committed \in SUBSET (0..(Ngroups - 1))
    BY <1>2, <1>3, <1>4
  <2>2. LET H == InOrder(Ngroups, Committed)
        IN  /\ Len(H) \in Nat /\ DOMAIN H = 1..Len(H)
            /\ \A k \in DOMAIN H : H[k] \in Committed
            /\ \A k, l \in DOMAIN H : H[k] = H[l] => k = l
            /\ \A c \in Committed : \E k \in DOMAIN H : H[k] = c
    BY <2>1, GroupsInOrder
  <2>3. G = InOrder(Ngroups, Committed)
    BY DEF InOrder
  <2> HIDE DEF G
  <2> QED
    BY <2>2, <2>3
<1> HIDE DEF G, n
<1>6. Gathers(m, P, S)
  <2>1. DOMAIN P = 1..m /\ \A k \in 1..m : P[k] = Group(G[k])
    OBVIOUS
  <2>2. \A i \in DOMAIN src : src[i] \in BoltsIn(segs)
    BY <1>2 DEF BoltsIn
  <2>3. BoltsIn(src) \subseteq BoltsIn(segs)
    BY <2>2 DEF BoltsIn
  <2>4. \A g \in Committed : g \in 0..(Ngroups - 1) /\ g \in outvalid
    BY <1>2, <1>4
  <2> HIDE DEF P, m
  <2>5. \A k \in 1..m : /\ P[k] \in SUBSET BoltsIn(segs) /\ P[k] # {}
                        /\ VecAgree(P[k]) /\ CgramAgree(P[k])
    BY <1>2, <1>3, <1>5, <2>1, <2>3, <2>4
  <2>6. \A k, l \in 1..m : \A b \in P[k] \cap P[l] : k = l
    BY <1>3, <1>5, <2>1, <2>4
  <2>7. S = UNION {P[k] : k \in 1..m}
    <3>1. ASSUME NEW b \in S PROVE \E k \in 1..m : b \in P[k]
      <4>1. PICK g \in Committed : b \in Group(g)
        OBVIOUS
      <4>2. PICK k \in 1..m : G[k] = g
        BY <1>5
      <4> QED
        BY <2>1, <4>1, <4>2
    <3>2. ASSUME NEW k \in 1..m, NEW b \in P[k] PROVE b \in S
      <4>1. G[k] \in Committed /\ b \in Group(G[k])
        BY <1>5, <2>1, <3>2
      <4> QED
        BY <4>1
    <3> HIDE DEF S
    <3> QED
      BY <3>1, <3>2
  <2> QED
    BY <2>1, <2>5, <2>6, <2>7 DEF Gathers
<1>7. segs' = r
  <2>1. [k \in DOMAIN G |-> MergedBolt(Group(G[k]), nbolt + k)] = Outputs(nbolt, m, P)
    <3>1. \A k \in 1..m : P[k] = Group(G[k])
      OBVIOUS
    <3> HIDE DEF P, m
    <3> QED
      BY <1>5, <3>1 DEF Outputs
  <2> HIDE DEF P, m, S
  <2> QED
    BY <1>1, <2>1
<1> HIDE DEF P, m, S
<1>8. Commits(m, S, r)
  <2>1. DirInv(segs, nbolt, owed, freed)
    BY DEF MInv
  <2> QED
    BY <1>5, <1>6, <2>1, CommitDirectory
<1> HIDE DEF r
<1>9. DirInv(segs, nbolt, owed, freed)'
  <2>1. DirInv(segs', nbolt + m, owed, freed \o SetToSeq({b.id : b \in S}))
    BY <1>7, <1>8 DEF Commits, IdsOf
  <2> QED
    BY <1>1, <2>1
<1>10. Len(segs') <= Len(segs) /\ Len(segs') \in Int
  <2>1. /\ Cardinality(Found(S)) \in Nat /\ m <= Cardinality(Found(S))
        /\ Len(segs') = Len(segs) - Cardinality(Found(S)) + m
    BY <1>7, <1>8 DEF Commits
  <2>2. Len(segs) \in Nat
    BY DEF MInv, DirInv
  <2> QED
    BY <1>5, <2>1, <2>2
<1>11. guard = 0 /\ skip = {} /\ ended = "none" /\ Len(segs) <= MaxSegments
       /\ Len(segs) \in Nat /\ MaxSegments \in Nat
  BY <1>1, MergeAssumption DEF MInv, LoopInv, DirInv
<1>12. Len(segs') <= MaxSegments
  BY <1>10, <1>11
<1>13. LoopInv' /\ ParInv'
  BY <1>1, <1>11, <1>12 DEF LoopInv, ParInv
<1>14. PaceInv'
  <2>1. Cardinality({}) = 0
    BY FS_EmptySet
  <2>2. guard' = 0 /\ skip' = {} /\ ended' = "none"
    BY <1>1, <1>11
  <2> QED
    BY <1>10, <1>11, <1>12, <2>1, <2>2 DEF PaceInv
<1> QED
  BY <1>9, <1>13, <1>14 DEF MInv

\* A step that changes nothing.
LEMMA IdleMerge ==
    ASSUME MInv, UNCHANGED vars
    PROVE  MInv'
<1>1. UNCHANGED <<segs, nbolt, freed, job, pc, guard, skip, plan, sel, chosen, src,
                  worker, outvalid, arrived, owed, quiet, ended>>
  BY DEF vars
<1>2. DirInv(segs, nbolt, owed, freed)'
  BY <1>1 DEF MInv
<1>3. LoopInv'
  <2>1. BoltsIn(chosen)' = BoltsIn(chosen)
    BY <1>1 DEF BoltsIn
  <2>2. VecAgree(BoltsIn(chosen))' = VecAgree(BoltsIn(chosen))
        /\ CgramAgree(BoltsIn(chosen))' = CgramAgree(BoltsIn(chosen))
    BY <1>1 DEF VecAgree, CgramAgree, BoltsIn
  <2> QED
    BY <1>1, <2>2 DEF MInv, LoopInv
<1>4. ParInv'
  BY <1>1, SamePar DEF MInv
<1>5. PaceInv'
  <2>1. BoltsIn(segs)' = BoltsIn(segs) /\ Candidates(segs)' = Candidates(segs) /\ Target(segs)' = Target(segs)
    BY <1>1, SameCandidates
  <2> QED
    BY <1>1, <2>1 DEF MInv, PaceInv
<1> QED
  BY <1>2, <1>3, <1>4, <1>5 DEF MInv

\* The invariant holds at the start.
LEMMA MergeInit ==
    ASSUME Init
    PROVE  MInv
<1>1. PICK ks \in Directories :
        /\ segs = Bolts(ks) /\ nbolt = Len(ks)
        /\ owed = UNION {OwedOf(BoltOf(i, ks[i])) : i \in DOMAIN ks}
  BY DEF Init
<1>2. freed = << >> /\ pc = "idle" /\ guard = 0 /\ ended = "none"
  BY DEF Init
<1>3. DirInv(segs, nbolt, owed, freed)
  BY <1>1, <1>2, FirstDirectory
<1>4. Len(segs) <= MaxSegments
  <2>1. ks \in Seq(Kind) /\ Len(ks) <= MaxSegments
    BY KindAssumption
  <2>2. DOMAIN segs = DOMAIN ks
    BY <1>1 DEF Bolts
  <2>3. segs \in Seq(Bolt)
    BY <1>3 DEF DirInv
  <2> QED
    BY <2>1, <2>2, <2>3
<1>5. LoopInv /\ ParInv /\ PaceInv
  BY <1>2, <1>4 DEF LoopInv, ParInv, PaceInv
<1> QED
  BY <1>3, <1>5 DEF MInv

\* Every step keeps it, whoever takes it.
LEMMA MergeNext ==
    ASSUME MInv, [Next]_vars
    PROVE  MInv'
<1>1. ASSUME NEW k \in Arrivals, weave_add_segment(k) PROVE MInv'
  BY <1>1, ArrivalStep
<1>2. ASSUME NEW j \in Jobs, Begin(j) PROVE MInv'
  BY <1>2, BeginStep
<1>3. CASE weave_build_finalize
  BY <1>3, FinalizeStep
<1>4. CASE weave_merge_plan
  BY <1>4, PlanStep
<1>5. CASE weave_merge_selected
  BY <1>5, SelectedStep
<1>6. CASE weave_merge_commit
  BY <1>6, CommitStep
<1>7. ASSUME NEW n \in 0..Request, weave_merge_all_parallel(n) PROVE MInv'
  BY <1>7, ParallelStep
<1>8. CASE weave_merge_parallel_commit
  BY <1>8, ParallelCommitStep
<1>9. ASSUME NEW g \in DOMAIN worker, weave_merge_one_group(g) PROVE MInv'
  BY <1>9, GroupStep
<1>10. CASE Abort
  BY <1>10, AbortStep
<1>11. CASE UNCHANGED vars
  BY <1>11, IdleMerge
<1> QED
  BY <1>1, <1>2, <1>3, <1>4, <1>5, <1>6, <1>7, <1>8, <1>9, <1>10, <1>11 DEF Next, Session

\* The inductive invariant holds of every directory, however it is merged, by how many
\* workers and whatever is appended meanwhile.
THEOREM MergeInvariance == Spec => []MInv
<1>1. Init => MInv
  BY MergeInit
<1>2. MInv /\ [Next]_vars => MInv'
  BY MergeNext
<1> QED
  BY <1>1, <1>2, PTL DEF Spec

-----------------------------------------------------------------------------
(* What the invariant says *)

\* DocsKept: a merge, leveled, full or parallel, loses no live document and no vector,
\* keeps each document in one bolt and brings no tombstoned one back.
THEOREM DocsAreKept == Spec => []DocsKept
<1>1. ASSUME MInv PROVE DocsKept
  <2>1. /\ \A r \in owed : \E i \in DOMAIN segs : Pays(segs[i], r)
        /\ \A i \in DOMAIN segs : \A e \in Live(segs[i]) : \E r \in owed : e = r.doc
        /\ \A i, j \in DOMAIN segs : \A e \in Live(segs[i]) \cap Live(segs[j]) : i = j
    BY <1>1 DEF MInv, DirInv, OwedInv, DocInv
  <2>2. ASSUME NEW r \in owed
        PROVE  \E i \in DOMAIN segs :
                 /\ r.doc \in Live(segs[i])
                 /\ \A j \in DOMAIN segs : r.doc \in Live(segs[j]) => j = i
                 /\ r.geom # "none" => r.doc \in segs[i].lanes /\ segs[i].geom = r.geom
    <3>1. PICK i \in DOMAIN segs : Pays(segs[i], r)
      BY <2>1
    <3>2. r.doc \in Live(segs[i]) /\ (r.geom # "none" => r.doc \in segs[i].lanes /\ segs[i].geom = r.geom)
      BY <3>1 DEF Pays
    <3>3. \A j \in DOMAIN segs : r.doc \in Live(segs[j]) => j = i
      BY <2>1, <3>2
    <3> QED
      BY <3>2, <3>3
  <2>3. \A i \in DOMAIN segs : Live(segs[i]) \subseteq {r.doc : r \in owed}
    BY <2>1
  <2> QED
    BY <2>2, <2>3 DEF DocsKept
<1> QED
  BY <1>1, MergeInvariance, PTL

\* WeftsCover: a cgram weft has every document that had trigrams, and a list that says
\* it is complete is, however the bolts that made it up were chosen.
THEOREM WeftsStayComplete == Spec => []WeftsCover
<1>1. ASSUME MInv PROVE WeftsCover
  <2>1. /\ \A r \in owed : \E i \in DOMAIN segs : Pays(segs[i], r)
        /\ \A i, j \in DOMAIN segs : \A e \in Live(segs[i]) \cap Live(segs[j]) : i = j
        /\ \A i \in DOMAIN segs : segs[i].complete => Live(segs[i]) \subseteq segs[i].listed
    BY <1>1 DEF MInv, DirInv, OwedInv, DocInv, ListInv
  <2>2. ASSUME NEW i \in DOMAIN segs, segs[i].grams # {}, NEW r \in owed,
               r.doc \in Live(segs[i]), r.gram
        PROVE  r.doc \in segs[i].grams
    <3>1. PICK j \in DOMAIN segs : Pays(segs[j], r)
      BY <2>1
    <3>2. j = i
      BY <2>1, <2>2, <3>1 DEF Pays
    <3> QED
      BY <2>2, <3>1, <3>2 DEF Pays
  <2> QED
    BY <2>1, <2>2 DEF WeftsCover
<1> QED
  BY <1>1, MergeInvariance, PTL

\* FreedOnce: the pages of a bolt are freed once, and not while the directory names it.
THEOREM BoltsAreFreedOnce == Spec => []FreedOnce
<1>1. ASSUME MInv PROVE FreedOnce
  <2>1. /\ \A k, l \in DOMAIN freed : freed[k] = freed[l] => k = l
        /\ \A i \in DOMAIN segs, k \in DOMAIN freed : segs[i].id # freed[k]
    BY <1>1 DEF MInv, DirInv, NameInv
  <2>2. IsInjective(freed)
    BY <2>1 DEF IsInjective
  <2>3. \A i \in DOMAIN segs : segs[i].id \notin ToSet(freed)
    BY <2>1 DEF ToSet
  <2> QED
    BY <2>2, <2>3 DEF FreedOnce
<1> QED
  BY <1>1, MergeInvariance, PTL

\* Converged: a loop that ran undisturbed ended because nothing was left to merge; its
\* guard, MaxSegments passes, does not stop it before.
THEOREM LoopsConverge == Spec => []Converged
<1>1. MInv => Converged
  BY DEF MInv, PaceInv, Converged
<1> QED
  BY <1>1, MergeInvariance, PTL

\* Every bolt has a level.
LEMMA LevelFacts ==
    ASSUME NEW b
    PROVE  Level(b) \in 0..(MaxLevels - 1)
<1> DEFINE top == MaxLevels - 1
           under(l) == MergeSize(b) < Fanout^l
           L == {l \in 0..top : l = top \/ under(l + 1)}
<1>1. top \in Nat
  BY MergeAssumption
<1> HIDE DEF top, under
<1>2. L \in SUBSET Nat /\ top \in L
  BY <1>1
<1>3. PICK l \in L : \A x \in L : l <= x
  BY <1>2, LeastNat
<1>4. l \in 0..top /\ (l < top => under(l + 1))
  BY <1>1, <1>3
<1>5. ASSUME l > 0 PROVE ~under(l)
  <2>1. l - 1 \in 0..top /\ l - 1 < l /\ (l - 1) + 1 = l
    BY <1>1, <1>4, <1>5
  <2>2. l - 1 \notin L
    BY <1>1, <1>3, <1>4, <2>1
  <2> QED
    BY <2>1, <2>2
<1> HIDE DEF L
<1>6. \E x \in 0..top : (x < top => under(x + 1)) /\ (x > 0 => ~under(x))
  BY <1>4, <1>5
<1>7. Level(b) = CHOOSE x \in 0..top : (x < top => under(x + 1)) /\ (x > 0 => ~under(x))
  BY DEF Level, top, under
<1> QED
  BY <1>6, <1>7 DEF top

\* RoomMade: a directory of sound bolts that agree has at most as many bolts as there
\* are levels, or as the threshold lets be, after a leveled compaction.
THEOREM RoomIsMade == Spec => []RoomMade
<1> DEFINE R == {Threshold, MaxLevels, 1}
<1>0. /\ Threshold \in Nat /\ MaxLevels \in Nat /\ Fanout \in Nat
      /\ Max(R) \in Nat /\ Max(R) >= 1 /\ Max(R) >= Threshold /\ Max(R) >= MaxLevels
  <2>1. Threshold \in Nat /\ MaxLevels \in Nat /\ Fanout \in Nat
    BY MergeAssumption
  <2>2. \E x \in R : \A y \in R : x >= y
    <3>1. CASE Threshold >= MaxLevels /\ Threshold >= 1
      BY <2>1, <3>1
    <3>2. CASE MaxLevels >= Threshold /\ MaxLevels >= 1
      BY <2>1, <3>2
    <3>3. CASE 1 >= MaxLevels /\ 1 >= Threshold
      BY <2>1, <3>3
    <3> QED
      BY <2>1, <3>1, <3>2, <3>3
  <2>3. Max(R) \in R /\ \A y \in R : Max(R) >= y
    <3> HIDE DEF R
    <3> QED
      BY <2>2 DEF Max
  <2> QED
    BY <2>1, <2>3
<1> HIDE DEF R
<1>1. ASSUME MInv, pc = "idle", ended = "segments", skip = {},
             VecAgree(BoltsIn(segs)), CgramAgree(BoltsIn(segs))
      PROVE  Len(segs) <= Max(R)
  <2>1. segs \in Seq(Bolt) /\ Len(segs) \in Nat /\ DOMAIN segs = 1..Len(segs)
    BY <1>1 DEF MInv, DirInv
  <2>2. CASE Len(segs) <= 1 \/ Len(segs) <= Threshold
    BY <1>0, <2>1, <2>2
  <2>3. CASE ~(Len(segs) <= 1 \/ Len(segs) <= Threshold)
    <3>1. Target(segs) < 0
      BY <1>1, <2>3 DEF MInv, PaceInv
    <3>2. \A l \in 0..(MaxLevels - 1) : ~(Cardinality(AtLevel(segs, l)) >= 2)
      <4>1. Target(segs) = LowestLevel(segs, 2)
        <5>1. LowestLevel(segs, Fanout) \in Int
          BY <1>0, LowestLevelFacts
        <5>2. ASSUME LowestLevel(segs, Fanout) >= 0 PROVE FALSE
          <6>1. Target(segs) = LowestLevel(segs, Fanout)
            BY <5>2 DEF Target
          <6> QED
            BY <3>1, <5>1, <5>2, <6>1
        <5> QED
          BY <2>3, <5>2 DEF Target
      <4>2. ~(LowestLevel(segs, 2) \in 0..(MaxLevels - 1))
        <5> DEFINE x == LowestLevel(segs, 2)
        <5>1. x < 0
          BY <3>1, <4>1
        <5> HIDE DEF x
        <5>2. ~(x \in 0..(MaxLevels - 1))
          BY <1>0, <5>1
        <5> QED
          BY <5>2 DEF x
      <4> QED
        BY <4>2, LowestLevelFacts
    <3>3. Candidates(segs) = DOMAIN segs
      BY <1>1 DEF Candidates, Mergeable
    <3> DEFINE f == [i \in DOMAIN segs |-> Level(segs[i])]
    <3>4. f \in [DOMAIN segs -> 0..(MaxLevels - 1)]
      BY LevelFacts
    <3>5. ASSUME NEW i \in DOMAIN segs, NEW j \in DOMAIN segs, f[i] = f[j], i # j PROVE FALSE
      <4> DEFINE l == Level(segs[i])
      <4>1. Level(segs[j]) = l /\ l \in 0..(MaxLevels - 1)
        BY <3>5, LevelFacts
      <4> HIDE DEF f, l
      <4>2. {i, j} \in SUBSET AtLevel(segs, l) /\ AtLevel(segs, l) \in SUBSET DOMAIN segs
        BY <3>3, <4>1 DEF AtLevel, l
      <4>3. IsFiniteSet(AtLevel(segs, l)) /\ Cardinality(AtLevel(segs, l)) \in Nat
        BY <2>1, <4>2, BoltsFinite, FS_Subset, FS_CardinalityType
      <4>4. Cardinality({i, j}) <= Cardinality(AtLevel(segs, l))
        BY <4>2, <4>3, FS_Subset
      <4>5. Cardinality({i, j}) = 2
        <5>1. IsFiniteSet({i}) /\ Cardinality({i}) = 1 /\ j \notin {i}
          BY <3>5, FS_Singleton
        <5>2. Cardinality({i} \cup {j}) = 2
          BY <5>1, FS_AddElement
        <5>3. {i} \cup {j} = {i, j}
          OBVIOUS
        <5> QED
          BY <5>2, <5>3
      <4> QED
        BY <3>2, <4>1, <4>3, <4>4, <4>5
    <3> HIDE DEF f
    <3>6. f \in Injection(DOMAIN segs, 0..(MaxLevels - 1))
      BY <3>4, <3>5 DEF Injection, IsInjective
    <3>7. IsFiniteSet(0..(MaxLevels - 1)) /\ Cardinality(0..(MaxLevels - 1)) = MaxLevels
      <4>1. /\ IsFiniteSet(0..(MaxLevels - 1))
            /\ Cardinality(0..(MaxLevels - 1))
                 = IF 0 > MaxLevels - 1 THEN 0 ELSE (MaxLevels - 1) - 0 + 1
        <5>1. 0 \in Int /\ MaxLevels - 1 \in Int
          BY <1>0
        <5> QED
          BY <5>1, FS_Interval
      <4> QED
        BY <1>0, <4>1
    <3>8. Cardinality(DOMAIN segs) <= MaxLevels
      BY <3>6, <3>7, FS_Injection
    <3>9. Cardinality(DOMAIN segs) = Len(segs)
      <4>1. Cardinality(1..Len(segs)) = IF 1 > Len(segs) THEN 0 ELSE Len(segs) - 1 + 1
        BY <2>1, FS_Interval
      <4> QED
        BY <2>1, <4>1
    <3> QED
      BY <1>0, <2>1, <3>8, <3>9
  <2> QED
    BY <2>2, <2>3
<1>2. MInv => RoomMade
  BY <1>1 DEF RoomMade, R
<1> QED
  BY <1>2, MergeInvariance, PTL

=============================================================================
