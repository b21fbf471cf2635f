-------------------------- MODULE WeaveStatsProofs --------------------------
(***************************************************************************)
(* Proofs about the corpus counters, for every set of line pointers and    *)
(* sessions and every directory capacity: the counters ride on the steps   *)
(* of WeaveIndex, npending counts the list, and ndocs never falls short of *)
(* the corpus; it is exact when no document is NULL.                       *)
(***************************************************************************)
EXTENDS WeaveStats, WeaveIndexProofs

-----------------------------------------------------------------------------
(* The counters follow the index *)

\* A step of the counted index is a step of the index.
LEMMA StatsStepMaps == [StatsNext]_<<vars, statVars>> => [Next]_vars
<1> SUFFICES ASSUME [StatsNext]_<<vars, statVars>> PROVE [Next]_vars
  OBVIOUS
<1>1. CASE StatsNext
  BY <1>1 DEF StatsNext, Next, SessionStep, CountedStep
<1>2. CASE UNCHANGED <<vars, statVars>>
  BY <1>2
<1> QED
  BY <1>1, <1>2

\* The index with its counters implements the index: every property of WeaveIndex holds
\* of it.
THEOREM StatsRefineIndex == StatsSpec => Spec
<1>1. StatsInit => Init
  BY DEF StatsInit
<1> QED
  BY <1>1, StatsStepMaps, PTL DEF StatsSpec, Spec

-----------------------------------------------------------------------------
(* Counting the documents of a directory d and of a list q *)

LiveOf(d) == UNION {LiveDocs(d[i]) : i \in DOMAIN d}

ItemsOf(q) == {q[i] : i \in DOMAIN q}

Corpus(d, q) == {e \in LiveOf(d) \cup ItemsOf(q) : ~e.nul}

\* No document twice: NoRowTwice, of d and q.
Single(d, q) ==
    /\ \A i, j \in DOMAIN d : i # j => LiveDocs(d[i]) \cap LiveDocs(d[j]) = {}
    /\ \A i, j \in DOMAIN q : i # j => q[i] # q[j]
    /\ \A i \in DOMAIN d, j \in DOMAIN q : q[j] \notin LiveDocs(d[i])

\* The corpus is that of the directory and the list.
LEMMA CorpusIs ==
    /\ CorpusDocs = Corpus(segs, pend)
    /\ CorpusDocs' = Corpus(segs', pend')
<1>1. CorpusDocs = Corpus(segs, pend)
  BY DEF CorpusDocs, Contents, Corpus, LiveOf, ItemsOf
<1>2. CorpusDocs' = Corpus(segs', pend')
  BY DEF CorpusDocs, Contents, Corpus, LiveOf, ItemsOf
<1> QED
  BY <1>1, <1>2

\* The parts of a finite family of finite sets, each with its position, are finite.
LEMMA PositionedFinite ==
    ASSUME NEW d, IsFiniteSet(DOMAIN d), \A i \in DOMAIN d : IsFiniteSet(BoltDocs(d[i]))
    PROVE  IsFiniteSet(UNION {{i} \X BoltDocs(d[i]) : i \in DOMAIN d})
<1> DEFINE T == {{i} \X BoltDocs(d[i]) : i \in DOMAIN d}
           f == [i \in DOMAIN d |-> {i} \X BoltDocs(d[i])]
<1>1. f \in Surjection(DOMAIN d, T)
  BY DEF Surjection
<1>2. IsFiniteSet(T)
  <2> HIDE DEF f, T
  <2> QED
    BY <1>1, FS_Surjection
<1>3. ASSUME NEW D \in T PROVE IsFiniteSet(D)
  <2>1. PICK i \in DOMAIN d : D = {i} \X BoltDocs(d[i])
    OBVIOUS
  <2>2. IsFiniteSet({i})
    BY FS_Singleton
  <2> QED
    BY <2>1, <2>2, FS_Product
<1> HIDE DEF T
<1>4. IsFiniteSet(UNION T)
  BY <1>2, <1>3, FS_UNION
<1> QED
  BY <1>4 DEF T

\* The sum bulkdelete takes is the number of documents of the directory: no document is
\* in two bolts, and a tombstoned one is taken off where it was counted.
LEMMA DirectoryCount ==
    ASSUME NEW d \in Seq(Bolt), \A i \in DOMAIN d : IsFiniteSet(d[i].docs),
           \A i, j \in DOMAIN d : i # j => LiveDocs(d[i]) \cap LiveDocs(d[j]) = {}
    PROVE  LET L == {e \in LiveOf(d) : ~e.nul}
           IN  IsFiniteSet(L) /\ DirectoryNdocs(d) = Cardinality(L)
<1> DEFINE A == UNION {{i} \X BoltDocs(d[i]) : i \in DOMAIN d}
           B == UNION {{i} \X BoltDeleted(d[i]) : i \in DOMAIN d}
           L == {e \in LiveOf(d) : ~e.nul}
           f == [x \in A \ B |-> x[2]]
<1>1. IsFiniteSet(A)
  <2>1. IsFiniteSet(DOMAIN d)
    <3>1. Len(d) \in Nat /\ DOMAIN d = 1..Len(d)
      OBVIOUS
    <3> QED
      BY <3>1, FS_Interval
  <2>2. ASSUME NEW i \in DOMAIN d PROVE IsFiniteSet(BoltDocs(d[i]))
    BY FS_Subset DEF BoltDocs
  <2> QED
    BY <2>1, <2>2, PositionedFinite
<1>2. B \in SUBSET A
  BY DEF BoltDeleted
<1>3. /\ IsFiniteSet(A \ B)
      /\ Cardinality(A \ B) \in Nat /\ Cardinality(A) \in Nat /\ Cardinality(B) \in Nat
      /\ Cardinality(A) = Cardinality(B) + Cardinality(A \ B)
  <2> HIDE DEF A, B
  <2> QED
    BY <1>1, <1>2, SplitCardinality
<1>4. \A x \in A \ B : \E i \in DOMAIN d : \E e \in LiveDocs(d[i]) : x = <<i, e>> /\ ~e.nul
  BY DEF BoltDocs, BoltDeleted, LiveDocs
<1>5. \A i \in DOMAIN d : \A e \in LiveDocs(d[i]) : ~e.nul => <<i, e>> \in A \ B
  BY DEF BoltDocs, BoltDeleted, LiveDocs
<1>6. \A e : e \in L <=> ~e.nul /\ \E i \in DOMAIN d : e \in LiveDocs(d[i])
  BY DEF LiveOf
<1> HIDE DEF A, B, L
<1>7. f \in Bijection(A \ B, L)
  <2>1. f \in [A \ B -> L]
    BY <1>4, <1>6
  <2>2. ASSUME NEW x \in A \ B, NEW y \in A \ B, f[x] = f[y] PROVE x = y
    <3>1. PICK i \in DOMAIN d : \E e \in LiveDocs(d[i]) : x = <<i, e>>
      BY <1>4
    <3>2. PICK j \in DOMAIN d : \E e \in LiveDocs(d[j]) : y = <<j, e>>
      BY <1>4
    <3>3. x = <<i, x[2]>> /\ x[2] \in LiveDocs(d[i]) /\ y = <<j, y[2]>> /\ y[2] \in LiveDocs(d[j])
      BY <3>1, <3>2
    <3>4. x[2] = y[2]
      BY <2>2
    <3> QED
      BY <3>3, <3>4
  <2>3. ASSUME NEW e \in L PROVE \E x \in A \ B : f[x] = e
    <3>1. PICK i \in DOMAIN d : e \in LiveDocs(d[i]) /\ ~e.nul
      BY <1>6
    <3>2. <<i, e>> \in A \ B
      BY <1>5, <3>1
    <3> QED
      BY <3>2
  <2> QED
    BY <2>1, <2>2, <2>3 DEF Bijection, Injection, IsInjective, Surjection
<1> HIDE DEF f
<1>8. IsFiniteSet(L) /\ Cardinality(L) = Cardinality(A \ B)
  BY <1>3, <1>7, FS_Bijection DEF ExistsBijection
<1>9. DirectoryNdocs(d) = Cardinality(A) - Cardinality(B)
  BY DEF DirectoryNdocs, A, B
<1> QED
  BY <1>3, <1>8, <1>9 DEF L

\* The items of a list without repetitions are as many as the list is long.
LEMMA ItemsCount ==
    ASSUME NEW q \in Seq(Entry), \A i, j \in DOMAIN q : i # j => q[i] # q[j]
    PROVE  IsFiniteSet(ItemsOf(q)) /\ Cardinality(ItemsOf(q)) = Len(q)
<1>1. IsFiniteSet(ItemsOf(q))
  BY PendFinite DEF ItemsOf
<1>2. Len(q) \in Nat /\ DOMAIN q = 1..Len(q)
  OBVIOUS
<1>3. q \in Bijection(1..Len(q), ItemsOf(q))
  <2>1. q \in [1..Len(q) -> ItemsOf(q)]
    BY <1>2 DEF ItemsOf
  <2>2. \A i, j \in 1..Len(q) : q[i] = q[j] => i = j
    BY <1>2
  <2>3. \A e \in ItemsOf(q) : \E i \in 1..Len(q) : q[i] = e
    BY <1>2 DEF ItemsOf
  <2> QED
    BY <2>1, <2>2, <2>3 DEF Bijection, Injection, IsInjective, Surjection
<1> QED
  BY <1>1, <1>2, <1>3, FS_CountingElements DEF ExistsBijection

\* The number of documents of a directory and a list: the directory's sum and the list's
\* length, save for what is NULL on the list.
LEMMA CorpusCount ==
    ASSUME NEW d \in Seq(Bolt), NEW q \in Seq(Entry),
           \A i \in DOMAIN d : IsFiniteSet(d[i].docs), Single(d, q)
    PROVE  /\ IsFiniteSet(Corpus(d, q))
           /\ Cardinality(Corpus(d, q)) \in Nat /\ DirectoryNdocs(d) \in Nat
           /\ Cardinality(Corpus(d, q)) <= DirectoryNdocs(d) + Len(q)
           /\ (\A i \in DOMAIN q : ~q[i].nul)
                => Cardinality(Corpus(d, q)) = DirectoryNdocs(d) + Len(q)
<1> DEFINE L == {e \in LiveOf(d) : ~e.nul}
           P == {e \in ItemsOf(q) : ~e.nul}
<1>1. IsFiniteSet(L) /\ DirectoryNdocs(d) = Cardinality(L)
  BY DirectoryCount DEF Single
<1>2. IsFiniteSet(ItemsOf(q)) /\ Cardinality(ItemsOf(q)) = Len(q)
  BY ItemsCount DEF Single
<1>3. Corpus(d, q) = L \cup P
  BY DEF Corpus
<1>4. L \cap P = {}
  BY DEF Single, LiveOf, ItemsOf
<1>5. P \in SUBSET ItemsOf(q) /\ ((\A i \in DOMAIN q : ~q[i].nul) => P = ItemsOf(q))
  BY DEF ItemsOf
<1> HIDE DEF L, P
<1>6. IsFiniteSet(P) /\ Cardinality(P) <= Len(q)
  BY <1>2, <1>5, FS_Subset
<1>7. Cardinality(L) \in Nat /\ Cardinality(P) \in Nat /\ Len(q) \in Nat
  BY <1>1, <1>6, FS_CardinalityType
<1>8. IsFiniteSet(L \cup P) /\ Cardinality(L \cup P) = Cardinality(L) + Cardinality(P) - Cardinality({})
  BY <1>1, <1>4, <1>6, FS_Union
<1>9. Cardinality({}) = 0
  BY FS_EmptySet
<1> QED
  BY <1>1, <1>2, <1>3, <1>5, <1>6, <1>7, <1>8, <1>9

-----------------------------------------------------------------------------
(* The invariant *)

\* Without NULL documents there is none in the heap and none on the list.
NullFree ==
    TRUE \notin NullFlags =>
        /\ \A t \in Tids : ~nul[t]
        /\ \A i \in DOMAIN pend : ~pend[i].nul

\* The counters against what they count.
CountInv ==
    /\ npending = Len(pend)
    /\ ndocs \in Nat
    /\ Cardinality(CorpusDocs) <= ndocs
    /\ TRUE \notin NullFlags => ndocs = Cardinality(CorpusDocs)

StatInv == IInv /\ FiniteInv /\ NullFree /\ CountInv

\* The corpus is finite.
LEMMA CorpusFinite ==
    ASSUME IInv, FiniteInv
    PROVE  IsFiniteSet(CorpusDocs) /\ Cardinality(CorpusDocs) \in Nat
<1>1. segs \in Seq(Bolt) /\ pend \in Seq(Entry) /\ NoRowTwice
  BY DEF IInv, Control, TypeOK, Rows
<1>2. Single(segs, pend) /\ \A i \in DOMAIN segs : IsFiniteSet(segs[i].docs)
  BY <1>1 DEF Single, NoRowTwice, FiniteInv
<1> QED
  BY <1>1, <1>2, CorpusCount, CorpusIs

\* A step that leaves the counters, the corpus and the length of the list alone.
LEMMA CountSame ==
    ASSUME CountInv, npending' = npending, ndocs' = ndocs, Len(pend') = Len(pend),
           CorpusDocs' = CorpusDocs
    PROVE  CountInv'
BY DEF CountInv

\* A document that is new to the index is one document more, unless it is NULL.
LEMMA CountOne ==
    ASSUME StatInv, NEW e, e \notin CorpusDocs,
           CorpusDocs' = IF e.nul THEN CorpusDocs ELSE CorpusDocs \cup {e},
           ndocs' = ndocs + (IF e.nul THEN 0 ELSE 1)
    PROVE  /\ ndocs' \in Nat
           /\ Cardinality(CorpusDocs') <= ndocs'
           /\ TRUE \notin NullFlags => ndocs' = Cardinality(CorpusDocs')
<1>1. IsFiniteSet(CorpusDocs) /\ Cardinality(CorpusDocs) \in Nat
  BY CorpusFinite DEF StatInv
<1>2. Cardinality(CorpusDocs \cup {e}) = Cardinality(CorpusDocs) + 1
  BY <1>1, FS_AddElement
<1>3. /\ ndocs \in Nat /\ Cardinality(CorpusDocs) <= ndocs
      /\ TRUE \notin NullFlags => ndocs = Cardinality(CorpusDocs)
  BY DEF StatInv, CountInv
<1>4. CASE e.nul
  <2>1. CorpusDocs' = CorpusDocs /\ ndocs' = ndocs + 0
    BY <1>4
  <2>2. ndocs' = ndocs /\ Cardinality(CorpusDocs') = Cardinality(CorpusDocs)
    BY <1>3, <2>1
  <2> QED
    BY <1>3, <2>2
<1>5. CASE ~e.nul
  <2>1. CorpusDocs' = CorpusDocs \cup {e} /\ ndocs' = ndocs + 1
    BY <1>5
  <2>2. Cardinality(CorpusDocs') = Cardinality(CorpusDocs) + 1
    BY <1>2, <2>1
  <2>3. ndocs' \in Nat
    BY <1>3, <2>1
  <2>4. Cardinality(CorpusDocs') <= ndocs'
    BY <1>1, <1>3, <2>1, <2>2
  <2>5. TRUE \notin NullFlags => ndocs' = Cardinality(CorpusDocs')
    BY <1>3, <2>1, <2>2
  <2> QED
    BY <2>3, <2>4, <2>5
<1> QED
  BY <1>4, <1>5

\* The entry of a row that is not indexed is not in the corpus.
LEMMA FreshDocument ==
    ASSUME NoStaleEntry, NEW t \in Tids, st[t] = "busy"
    PROVE  EntryOf(t) \notin CorpusDocs
<1>1. /\ \A i \in DOMAIN segs : EntryOf(t) \notin LiveDocs(segs[i])
      /\ \A i \in DOMAIN pend : pend[i] # EntryOf(t)
  BY FreshEntry
<1> QED
  BY <1>1, CorpusIs DEF Corpus, LiveOf, ItemsOf

\* INSERT appends one item that was nowhere.
LEMMA InsertCounts ==
    ASSUME StatInv, NEW t \in Tids, weave_insert(t), CountInsert(t)
    PROVE  CountInv'
<1> DEFINE e == EntryOf(t)
<1>1. pend' = Append(pend, e) /\ segs' = segs /\ st[t] = "busy" /\ e.nul = nul[t]
  BY DEF weave_insert, EntryOf
<1>2. pend \in Seq(Entry) /\ NoStaleEntry /\ nul[t] \in BOOLEAN
  BY DEF StatInv, IInv, Control, TypeOK, Rows
<1>3. e \notin CorpusDocs
  BY <1>1, <1>2, FreshDocument
<1> HIDE DEF e
<1>4. ItemsOf(pend') = ItemsOf(pend) \cup {e} /\ Len(pend') = Len(pend) + 1
  BY <1>1, <1>2 DEF ItemsOf
<1>5. CorpusDocs' = IF e.nul THEN CorpusDocs ELSE CorpusDocs \cup {e}
  BY <1>1, <1>4, CorpusIs DEF Corpus
<1>6. ndocs' = ndocs + (IF e.nul THEN 0 ELSE 1) /\ npending' = npending + 1
  BY <1>1 DEF CountInsert
<1>7. npending = Len(pend)
  BY DEF StatInv, CountInv
<1>8. /\ ndocs' \in Nat
      /\ Cardinality(CorpusDocs') <= ndocs'
      /\ TRUE \notin NullFlags => ndocs' = Cardinality(CorpusDocs')
  BY <1>3, <1>5, <1>6, CountOne
<1> QED
  BY <1>4, <1>6, <1>7, <1>8 DEF CountInv

\* The documents of a directory with one bolt more.
LEMMA LiveAppend ==
    ASSUME NEW d \in Seq(Bolt), NEW g \in Bolt
    PROVE  LiveOf(Append(d, g)) = LiveOf(d) \cup LiveDocs(g)
<1> DEFINE h == Append(d, g)
<1>1. /\ DOMAIN h = (DOMAIN d) \cup {Len(d) + 1}
      /\ h[Len(d) + 1] = g /\ \A i \in DOMAIN d : h[i] = d[i]
  OBVIOUS
<1> HIDE DEF h
<1>2. LiveOf(h) = LiveOf(d) \cup LiveDocs(g)
  BY <1>1 DEF LiveOf
<1> QED
  BY <1>2 DEF h

\* An oversized INSERT's bolt has one document that was nowhere.
LEMMA AddSegmentCounts ==
    ASSUME StatInv, NEW b \in Backends, weave_meta_add_segment(b), CountAddSegment(b)
    PROVE  CountInv'
<1> USE SessionAssumption
<1>1. /\ segs \in Seq(Bolt) /\ nbolt \in Nat /\ built \in [Backends -> SUBSET Entry]
      /\ row \in [Backends -> Tids \cup {NoTid}] /\ nul \in [Tids -> BOOLEAN]
      /\ JobInv /\ OwnInv /\ NoStaleEntry
  BY DEF StatInv, IInv, Control, Plan, TypeOK, Rows
<1>2. pc[b] = "add_segment" /\ segs' = Append(segs, NewBolt(built[b])) /\ pend' = pend
  BY DEF weave_meta_add_segment
<1>3. row[b] \in Tids /\ st[row[b]] = "busy" /\ built[b] = {EntryOf(row[b])}
  <2>1. job[b] = "insert" /\ row[b] # NoTid
    BY <1>1, <1>2 DEF JobInv
  <2>2. Unpublished(b)
    BY <1>2, <2>1 DEF Unpublished
  <2> QED
    BY <1>1, <2>1, <2>2 DEF OwnInv
<1> DEFINE e == EntryOf(row[b])
           g == NewBolt(built[b])
<1>4. g \in Bolt /\ LiveDocs(g) = {e} /\ g.docs = {e} /\ e.nul \in BOOLEAN
  BY <1>1, <1>3, NewBoltLive DEF NewBolt, EntryOf
<1>5. e \notin CorpusDocs
  BY <1>1, <1>3, FreshDocument
<1>6. BoltNdocs(g) = IF e.nul THEN 0 ELSE 1
  <2>1. BoltDocs(g) = IF e.nul THEN {} ELSE {e}
    BY <1>4 DEF BoltDocs
  <2>2. Cardinality({}) = 0 /\ Cardinality({e}) = 1
    BY FS_EmptySet, FS_Singleton
  <2> QED
    BY <2>1, <2>2 DEF BoltNdocs
<1>7. ndocs' = ndocs + BoltNdocs(g) /\ npending' = npending
  BY DEF CountAddSegment
<1>8. segs' = Append(segs, g)
  BY <1>2
<1> HIDE DEF e, g
<1>9. CorpusDocs' = IF e.nul THEN CorpusDocs ELSE CorpusDocs \cup {e}
  <2>1. LiveOf(segs') = LiveOf(segs) \cup {e}
    BY <1>1, <1>4, <1>8, LiveAppend
  <2> QED
    BY <1>2, <2>1, CorpusIs DEF Corpus
<1>10. /\ ndocs' \in Nat
       /\ Cardinality(CorpusDocs') <= ndocs'
       /\ TRUE \notin NullFlags => ndocs' = Cardinality(CorpusDocs')
  BY <1>5, <1>6, <1>7, <1>9, CountOne
<1>11. npending = Len(pend)
  BY DEF StatInv, CountInv
<1> QED
  BY <1>2, <1>7, <1>10, <1>11 DEF CountInv

\* The flush moves documents from the list to a bolt; what is left on the list is what the
\* record writes, and the clamp to 1 does not decide.
LEMMA CutCounts ==
    ASSUME StatInv, NEW b \in Backends, weave_flush_add_and_cut(b), CountCut(b)
    PROVE  CountInv'
<1>1. /\ segs \in Seq(Bolt) /\ pend \in Seq(Entry) /\ nbolt \in Nat
      /\ built \in [Backends -> SUBSET Entry] /\ cut \in [Backends -> Nat] /\ CutInv
      /\ npending = Len(pend)
  BY DEF StatInv, IInv, Control, Plan, TypeOK, CountInv
<1>2. pc[b] = "add_and_cut" /\ segs' = Append(segs, NewBolt(built[b])) /\ pend' = KeptPending(b)
  BY DEF weave_flush_add_and_cut
<1> DEFINE c == cut[b]
           g == NewBolt(built[b])
<1>3. c \in Nat /\ c <= Len(pend) /\ built[b] = {pend[i] : i \in 1..c}
  BY <1>1, <1>2 DEF CutInv, Walked
<1>4. g \in Bolt /\ LiveDocs(g) = built[b]
  BY <1>1, NewBoltLive
<1>5. pend' = SubSeq(pend, c + 1, Len(pend))
  BY <1>2 DEF KeptPending
<1>6. segs' = Append(segs, g)
  BY <1>2
<1>7. npending' = IF pend' = << >> THEN 0 ELSE IF npending > c THEN npending - c ELSE 1
  BY DEF CountCut
<1> HIDE DEF c, g
<1>8. Len(pend) \in Nat /\ Len(pend') = Len(pend) - c
  BY <1>1, <1>3, <1>5
<1>9. ItemsOf(pend) = ItemsOf(pend') \cup built[b]
  <2>1. DOMAIN pend = 1..Len(pend) /\ DOMAIN pend' = 1..(Len(pend) - c)
    BY <1>1, <1>3, <1>5, <1>8
  <2>2. \A i \in 1..(Len(pend) - c) : pend'[i] = pend[i + c]
    BY <1>1, <1>3, <1>5
  <2>3. ASSUME NEW i \in DOMAIN pend' PROVE pend'[i] \in ItemsOf(pend)
    <3>1. i \in 1..(Len(pend) - c) /\ i + c \in DOMAIN pend
      BY <1>3, <1>8, <2>1
    <3> QED
      BY <2>2, <3>1 DEF ItemsOf
  <2>5. built[b] \subseteq ItemsOf(pend)
    BY <1>3, <1>8, <2>1 DEF ItemsOf
  <2>4. ASSUME NEW i \in DOMAIN pend PROVE pend[i] \in ItemsOf(pend') \cup built[b]
    <3>1. CASE i <= c
      BY <1>3, <2>1, <3>1
    <3>2. CASE i > c
      <4>1. i - c \in 1..(Len(pend) - c) /\ i = (i - c) + c
        BY <1>3, <1>8, <2>1, <3>2
      <4>2. pend'[i - c] = pend[i]
        BY <2>2, <4>1
      <4> QED
        BY <2>1, <4>1, <4>2 DEF ItemsOf
    <3> QED
      BY <1>3, <2>1, <3>1, <3>2
  <2> QED
    BY <2>3, <2>4, <2>5 DEF ItemsOf
<1>10. LiveOf(segs') = LiveOf(segs) \cup built[b]
  BY <1>1, <1>4, <1>6, LiveAppend
<1>11. CorpusDocs' = CorpusDocs
  BY <1>9, <1>10, CorpusIs DEF Corpus
<1>12. npending' = Len(pend')
  <2>1. pend' \in Seq(Entry)
    BY <1>1, <1>3, <1>5
  <2>2. pend' = << >> <=> Len(pend') = 0
    BY <2>1
  <2> QED
    BY <1>1, <1>3, <1>7, <1>8, <2>2
<1>13. ndocs' = ndocs
  BY DEF CountCut
<1> QED
  BY <1>11, <1>12, <1>13 DEF StatInv, CountInv

\* The tombstone swap counts the directory it writes; it adds the list's length, NULL
\* items included.
LEMMA SwapCounts ==
    ASSUME StatInv, IInv', FiniteInv', NullFree',
           NEW b \in Backends, weave_bulkdelete_swap(b), CountSwap(b)
    PROVE  CountInv'
<1>1. slot[b] \in DOMAIN segs
  BY SwapStep DEF StatInv
<1>2. slot[b] <= Len(segs)
  BY <1>1 DEF StatInv, IInv, Control, TypeOK
<1>3. pend' = pend
  BY DEF weave_bulkdelete_swap
<1>4. ndocs' = DirectoryNdocs(segs') + npending /\ npending' = npending
  BY <1>2 DEF CountSwap
<1>5. npending = Len(pend)
  BY DEF StatInv, CountInv
<1>6. segs' \in Seq(Bolt) /\ pend' \in Seq(Entry)
  BY DEF IInv, Control, TypeOK
<1>7. Single(segs', pend')
  BY DEF IInv, Rows, NoRowTwice, Single, LiveDocs
<1>8. \A i \in DOMAIN segs' : IsFiniteSet(segs'[i].docs)
  BY DEF FiniteInv
<1>9. /\ DirectoryNdocs(segs') \in Nat
      /\ Cardinality(Corpus(segs', pend')) <= DirectoryNdocs(segs') + Len(pend')
      /\ (\A i \in DOMAIN pend' : ~pend'[i].nul)
           => Cardinality(Corpus(segs', pend')) = DirectoryNdocs(segs') + Len(pend')
  BY <1>6, <1>7, <1>8, CorpusCount
<1>10. TRUE \notin NullFlags => \A i \in DOMAIN pend' : ~pend'[i].nul
  BY DEF NullFree
<1>11. Len(pend') \in Nat
  BY <1>6
<1>12. ndocs' = DirectoryNdocs(segs') + Len(pend') /\ npending' = Len(pend')
  BY <1>3, <1>4, <1>5
<1>13. Cardinality(CorpusDocs') = Cardinality(Corpus(segs', pend'))
  BY CorpusIs
<1>14. /\ ndocs' \in Nat
       /\ Cardinality(CorpusDocs') <= ndocs'
       /\ TRUE \notin NullFlags => ndocs' = Cardinality(CorpusDocs')
  <2>1. ndocs' \in Nat
    BY <1>9, <1>11, <1>12
  <2>2. Cardinality(CorpusDocs') <= ndocs'
    BY <1>9, <1>12, <1>13
  <2>3. TRUE \notin NullFlags => ndocs' = Cardinality(CorpusDocs')
    BY <1>9, <1>10, <1>12, <1>13
  <2> QED
    BY <2>1, <2>2, <2>3
<1> QED
  BY <1>12, <1>14 DEF CountInv

\* A merge moves documents between bolts.
LEMMA MergeCounts ==
    ASSUME StatInv, NEW b \in Backends, weave_merge_commit(b), UNCHANGED statVars
    PROVE  CountInv'
<1>1. pend' = pend
  BY DEF weave_merge_commit
<1>2. /\ \A k \in DOMAIN segs' : \A e \in LiveDocs(segs'[k]) :
           \E i \in DOMAIN segs : e \in LiveDocs(segs[i])
      /\ \A i \in DOMAIN segs : \A e \in LiveDocs(segs[i]) :
           \E k \in DOMAIN segs' : e \in LiveDocs(segs'[k])
  BY MergeLive DEF StatInv
<1>3. LiveOf(segs') = LiveOf(segs)
  <2>1. LiveOf(segs') \subseteq LiveOf(segs)
    BY <1>2 DEF LiveOf
  <2>2. LiveOf(segs) \subseteq LiveOf(segs')
    BY <1>2 DEF LiveOf
  <2> QED
    BY <2>1, <2>2
<1>4. CorpusDocs' = CorpusDocs
  BY <1>1, <1>3, CorpusIs DEF Corpus
<1> QED
  BY <1>1, <1>4 DEF StatInv, CountInv, statVars

\* Every other step leaves the directory, the list and the counters alone.
LEMMA RestCounts ==
    ASSUME StatInv, UNCHANGED <<segs, pend>>, UNCHANGED statVars
    PROVE  CountInv'
<1>1. CorpusDocs' = CorpusDocs
  BY CorpusIs
<1> QED
  BY <1>1 DEF StatInv, CountInv, statVars

\* No NULL document appears where none can.
LEMMA NullFreeInductive == StatInv /\ [Next]_vars => NullFree'
<1> SUFFICES ASSUME StatInv, [Next]_vars, TRUE \notin NullFlags
             PROVE  (\A t \in Tids : ~nul'[t]) /\ \A i \in DOMAIN pend' : ~pend'[i].nul
  BY DEF NullFree
<1>0. /\ \A t \in Tids : ~nul[t]
      /\ \A i \in DOMAIN pend : ~pend[i].nul
      /\ pend \in Seq(Entry) /\ nul \in [Tids -> BOOLEAN] /\ cut \in [Backends -> Nat]
      /\ CutInv
  BY DEF StatInv, NullFree, IInv, Control, Plan, TypeOK
<1>1. ASSUME NEW t \in Tids, NEW isnull \in NullFlags, heap_insert(t, isnull)
      PROVE  nul' = [nul EXCEPT ![t] = FALSE] /\ pend' = pend
  <2>1. isnull = FALSE
    BY <1>1, NullAssumption
  <2> QED
    BY <1>1, <2>1 DEF heap_insert, metaVars
<1>2. ASSUME NEW t \in Tids, weave_insert(t)
      PROVE  nul' = nul /\ pend' = Append(pend, EntryOf(t)) /\ ~EntryOf(t).nul
  BY <1>0, <1>2 DEF weave_insert, EntryOf
<1>3. ASSUME NEW b \in Backends, weave_flush_add_and_cut(b)
      PROVE  nul' = nul /\ \A i \in DOMAIN pend' : \E j \in DOMAIN pend : pend'[i] = pend[j]
  <2>1. nul' = nul /\ pend' = SubSeq(pend, cut[b] + 1, Len(pend))
    BY <1>3 DEF weave_flush_add_and_cut, KeptPending, heapVars
  <2>2. cut[b] \in Nat /\ cut[b] <= Len(pend)
    BY <1>0, <1>3 DEF weave_flush_add_and_cut, CutInv, Walked
  <2> QED
    BY <1>0, <2>1, <2>2
<1>4. \/ nul' = nul /\ pend' = pend
      \/ \E t \in Tids, isnull \in NullFlags : heap_insert(t, isnull)
      \/ \E t \in Tids : weave_insert(t)
      \/ \E b \in Backends : weave_flush_add_and_cut(b)
  <2>1. CASE HeapStep
    BY <2>1 DEF HeapStep, heap_commit, heap_kill, metaVars
  <2>2. CASE \E t \in Tids : weave_insert(t)
    BY <2>2
  <2>3. ASSUME NEW b \in Backends, SessionStart(b)
        PROVE  nul' = nul /\ pend' = pend
    BY <2>3 DEF SessionStart, weave_merge, vacuum_heap_scan,
                weave_insert_oversized_as_segment, heapVars, metaVars
  <2>4. ASSUME NEW b \in Backends, CountedStep(b)
        PROVE  (nul' = nul /\ pend' = pend) \/ weave_flush_add_and_cut(b)
    BY <2>4 DEF CountedStep, weave_meta_add_segment, weave_bulkdelete_swap, heapVars
  <2>5. ASSUME NEW b \in Backends, UncountedStep(b)
        PROVE  nul' = nul /\ pend' = pend
    BY <2>5 DEF UncountedStep, weave_maintenance_lock, weave_merge_selected, weave_merge_commit,
                weave_merge_stop, weave_flush_pending, weave_add_segment_with_room,
                weave_directory_full, weave_small_runs_merge, weave_small_runs_skip,
                weave_bulkdelete, weave_bulkdelete_end, vacuum_heap, heapVars, metaVars
  <2>6. ASSUME NEW b \in Backends, Abandon(b)
        PROVE  nul' = nul /\ pend' = pend
    BY <2>6 DEF Abandon, metaVars
  <2>7. CASE Crash
    BY <2>7 DEF Crash, metaVars
  <2>8. CASE UNCHANGED vars
    BY <2>8 DEF vars
  <2> QED
    BY <2>1, <2>2, <2>3, <2>4, <2>5, <2>6, <2>7, <2>8 DEF Next, SessionStep
<1>5. CASE nul' = nul /\ pend' = pend
  BY <1>0, <1>5
<1>6. CASE \E t \in Tids, isnull \in NullFlags : heap_insert(t, isnull)
  BY <1>0, <1>1, <1>6
<1>7. CASE \E t \in Tids : weave_insert(t)
  BY <1>0, <1>2, <1>7
<1>8. CASE \E b \in Backends : weave_flush_add_and_cut(b)
  BY <1>0, <1>3, <1>8
<1> QED
  BY <1>4, <1>5, <1>6, <1>7, <1>8

\* Every step of the counted index keeps the counters.
LEMMA StatStep == StatInv /\ [StatsNext]_<<vars, statVars>> => StatInv'
<1> SUFFICES ASSUME StatInv, [StatsNext]_<<vars, statVars>> PROVE StatInv'
  OBVIOUS
<1>1. [Next]_vars
  BY StatsStepMaps
<1>2. IInv' /\ FiniteInv' /\ NullFree'
  BY <1>1, StepInv, FiniteInductive, NullFreeInductive DEF StatInv
<1>3. ASSUME NEW t \in Tids, weave_insert(t), CountInsert(t) PROVE CountInv'
  BY <1>3, InsertCounts
<1>4. ASSUME NEW b \in Backends, weave_meta_add_segment(b), CountAddSegment(b) PROVE CountInv'
  BY <1>4, AddSegmentCounts
<1>5. ASSUME NEW b \in Backends, weave_flush_add_and_cut(b), CountCut(b) PROVE CountInv'
  BY <1>5, CutCounts
<1>6. ASSUME NEW b \in Backends, weave_bulkdelete_swap(b), CountSwap(b) PROVE CountInv'
  BY <1>2, <1>6, SwapCounts
<1>7. ASSUME NEW b \in Backends, UncountedStep(b), UNCHANGED statVars PROVE CountInv'
  <2>1. weave_merge_commit(b) \/ UNCHANGED <<segs, pend>>
    BY <1>7 DEF UncountedStep, weave_maintenance_lock, weave_merge_selected,
                weave_merge_stop, weave_flush_pending, weave_add_segment_with_room,
                weave_directory_full, weave_small_runs_merge, weave_small_runs_skip,
                weave_bulkdelete, weave_bulkdelete_end, vacuum_heap, metaVars
  <2> QED
    BY <1>7, <2>1, MergeCounts, RestCounts
<1>8. ASSUME NEW b \in Backends, SessionStart(b) \/ Abandon(b), UNCHANGED statVars PROVE CountInv'
  <2>1. UNCHANGED <<segs, pend>>
    BY <1>8 DEF SessionStart, Abandon, weave_merge, vacuum_heap_scan,
                weave_insert_oversized_as_segment, metaVars
  <2> QED
    BY <1>8, <2>1, RestCounts
<1>9. ASSUME HeapStep \/ Crash, UNCHANGED statVars PROVE CountInv'
  <2>1. UNCHANGED <<segs, pend>>
    BY <1>9 DEF HeapStep, Crash, heap_insert, heap_commit, heap_kill, metaVars
  <2> QED
    BY <1>9, <2>1, RestCounts
<1>10. CASE UNCHANGED <<vars, statVars>>
  <2>1. UNCHANGED <<segs, pend>>
    BY <1>10 DEF vars
  <2>2. CountInv'
    BY <1>10, <2>1, RestCounts
  <2> QED
    BY <1>2, <2>2 DEF StatInv
<1>11. StatsNext => CountInv'
  <2> SUFFICES ASSUME StatsNext PROVE CountInv'
    OBVIOUS
  <2>1. CASE \E t \in Tids : weave_insert(t) /\ CountInsert(t)
    BY <1>3, <2>1
  <2>2. CASE \E b \in Backends :
               \/ weave_meta_add_segment(b) /\ CountAddSegment(b)
               \/ weave_flush_add_and_cut(b) /\ CountCut(b)
               \/ weave_bulkdelete_swap(b) /\ CountSwap(b)
               \/ (SessionStart(b) \/ UncountedStep(b) \/ Abandon(b)) /\ UNCHANGED statVars
    BY <1>4, <1>5, <1>6, <1>7, <1>8, <2>2
  <2>3. CASE (HeapStep \/ Crash) /\ UNCHANGED statVars
    BY <1>9, <2>3
  <2> QED
    BY <2>1, <2>2, <2>3 DEF StatsNext
<1> QED
  BY <1>2, <1>10, <1>11 DEF StatInv

-----------------------------------------------------------------------------
(* Theorems *)

\* The counters count in a new index.
LEMMA StatInitInv == StatsInit => StatInv
<1> SUFFICES ASSUME StatsInit PROVE StatInv
  OBVIOUS
<1>1. Init /\ npending = 0 /\ ndocs = 0
  BY DEF StatsInit
<1>2. IInv /\ FiniteInv
  BY <1>1, InitInv, FS_EmptySet DEF Init, FiniteInv
<1>3. segs = << >> /\ pend = << >> /\ nul = [t \in Tids |-> FALSE]
  BY <1>1 DEF Init
<1>4. NullFree
  BY <1>3 DEF NullFree
<1>5. CorpusDocs = {}
  BY <1>3, CorpusIs DEF Corpus, LiveOf, ItemsOf
<1>6. Cardinality(CorpusDocs) = 0 /\ Len(pend) = 0
  BY <1>3, <1>5, FS_EmptySet
<1>7. CountInv
  BY <1>1, <1>6 DEF CountInv
<1> QED
  BY <1>2, <1>4, <1>7 DEF StatInv

\* In every reachable state the counters stand to the corpus as StatInv says.
THEOREM StatInvariance == StatsSpec => []StatInv
BY StatInitInv, StatStep, PTL DEF StatsSpec

\* npending is the number of items on the pending list after every record of
\* weave_insert(), weave_flush_add_and_cut() and weave_bulkdelete(), whatever the flush
\* races with; the code's clamp to 1 never decides.
THEOREM PendingIsCounted == StatsSpec => []PendingCounted
<1>1. StatInv => PendingCounted
  BY DEF StatInv, CountInv, PendingCounted
<1> QED
  BY <1>1, StatInvariance, PTL

\* When no document is NULL, the metapage's ndocs is the number of documents of the corpus
\* in every reachable state.
THEOREM CorpusIsCounted ==
    ASSUME TRUE \notin NullFlags
    PROVE  StatsSpec => []CorpusCounted
<1>1. StatInv => CorpusCounted
  BY DEF StatInv, CountInv, CorpusCounted
<1> QED
  BY <1>1, StatInvariance, PTL

\* The metapage's ndocs never falls short of the corpus.
CorpusCovered == Cardinality(CorpusDocs) <= ndocs

\* With NULL documents ndocs errs to one side: bulkdelete adds npending, which counts the
\* NULL items of the list, so N may be too large and is never too small.
THEOREM CorpusIsCovered == StatsSpec => []CorpusCovered
<1>1. StatInv => CorpusCovered
  BY DEF StatInv, CountInv, CorpusCovered
<1> QED
  BY <1>1, StatInvariance, PTL

=============================================================================
