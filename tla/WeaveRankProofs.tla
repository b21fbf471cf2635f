--------------------------- MODULE WeaveRankProofs ---------------------------
(***************************************************************************)
(* Proofs about WeaveRank: an ordered scan hands out each row once, in      *)
(* order and with its distance, and when it ends it has handed out all.     *)
(***************************************************************************)
EXTENDS WeaveRank, WeaveDirectoryProofs, WellFoundedInduction

-----------------------------------------------------------------------------
(* Sorting *)

\* The order of a sort by key: numbers with the same key in their own order.
Before(key, x, y) == key[x] < key[y] \/ (key[x] = key[y] /\ x < y)
Below(S, key, x) == {y \in S : Before(key, y, x)}

\* Counting what lies below numbers the elements of a finite set without gaps.
LEMMA SortPositions ==
    ASSUME NEW S \in SUBSET Int, IsFiniteSet(S), NEW key \in [S -> Int]
    PROVE  /\ Cardinality(S) \in Nat
           /\ \A x \in S : Cardinality(Below(S, key, x)) \in 0..(Cardinality(S) - 1)
           /\ \A x, y \in S : Before(key, x, y) =>
                Cardinality(Below(S, key, x)) < Cardinality(Below(S, key, y))
           /\ \A k \in 1..Cardinality(S) : \E x \in S : Cardinality(Below(S, key, x)) = k - 1
<1> DEFINE n == Cardinality(S)
           B(x) == Below(S, key, x)
<1>1. n \in Nat
  BY FS_CardinalityType
<1>2. ASSUME NEW x \in S
      PROVE  IsFiniteSet(B(x)) /\ Cardinality(B(x)) \in Nat /\ Cardinality(B(x)) <= n - 1
  <2>1. B(x) \in SUBSET (S \ {x})
    BY DEF Below, Before
  <2>2. IsFiniteSet(S \ {x}) /\ Cardinality(S \ {x}) = n - 1
    BY FS_RemoveElement
  <2>3. IsFiniteSet(B(x)) /\ Cardinality(B(x)) <= Cardinality(S \ {x})
    BY <2>1, <2>2, FS_Subset
  <2> QED
    BY <2>2, <2>3, FS_CardinalityType
<1>3. ASSUME NEW x \in S, NEW y \in S, Before(key, x, y)
      PROVE  Cardinality(B(x)) < Cardinality(B(y))
  <2>1. B(x) \in SUBSET (B(y) \ {x})
    <3>1. \A z \in S : z \in Int /\ key[z] \in Int
      OBVIOUS
    <3>2. ASSUME NEW z \in S, Before(key, z, x) PROVE Before(key, z, y) /\ z # x
      BY <1>3, <3>1, <3>2 DEF Before
    <3> QED
      BY <3>2 DEF Below
  <2>2. x \in B(y)
    BY <1>3 DEF Below
  <2>3. IsFiniteSet(B(y) \ {x}) /\ Cardinality(B(y) \ {x}) = Cardinality(B(y)) - 1
    BY <1>2, <2>2, FS_RemoveElement
  <2>4. Cardinality(B(x)) <= Cardinality(B(y) \ {x})
    BY <2>1, <2>3, FS_Subset
  <2>5. Cardinality(B(x)) \in Nat /\ Cardinality(B(y)) \in Nat
    BY <1>2
  <2> HIDE DEF B
  <2> QED
    BY <2>3, <2>4, <2>5
<1>4. \A k \in 1..n : \E x \in S : Cardinality(B(x)) = k - 1
  <2> DEFINE f == [x \in S |-> Cardinality(B(x)) + 1]
  <2> HIDE DEF B
  <2>1. f \in [S -> 1..n]
    <3>1. \A x \in S : Cardinality(B(x)) + 1 \in 1..n
      BY <1>1, <1>2
    <3> QED
      BY <3>1
  <2>2. \A x, y \in S : f[x] = f[y] => x = y
    <3> SUFFICES ASSUME NEW x \in S, NEW y \in S, x # y
                 PROVE  Cardinality(B(x)) + 1 # Cardinality(B(y)) + 1
      OBVIOUS
    <3>1. Before(key, x, y) \/ Before(key, y, x)
      BY DEF Before
    <3>2. Cardinality(B(x)) \in Nat /\ Cardinality(B(y)) \in Nat
      BY <1>2
    <3> QED
      BY <1>3, <3>1, <3>2
  <2>3. f \in Injection(S, 1..n)
    BY <2>1, <2>2 DEF Injection, IsInjective
  <2>4. IsFiniteSet(1..n) /\ Cardinality(1..n) = n
    <3>1. IsFiniteSet(1..n) /\ Cardinality(1..n) = IF 1 > n THEN 0 ELSE n - 1 + 1
      BY <1>1, FS_Interval
    <3> QED
      BY <1>1, <3>1
  <2>5. f \in Surjection(S, 1..n)
    BY <2>3, <2>4, FS_Injection
  <2>6. ASSUME NEW k \in 1..n PROVE \E x \in S : Cardinality(B(x)) = k - 1
    <3>1. PICK x \in S : f[x] = k
      BY <2>5 DEF Surjection
    <3>2. Cardinality(B(x)) \in Nat /\ Cardinality(B(x)) + 1 = k
      BY <1>2, <3>1
    <3> QED
      BY <3>2
  <2> QED
    BY <2>6
<1> QED
  BY <1>1, <1>2, <1>3, <1>4

\* q is the set S in the order of key.
InOrder(q, S, key) ==
    /\ q \in Seq(S) /\ Len(q) = Cardinality(S) /\ Len(q) \in Nat
    /\ \A x \in S : \E k \in 1..Len(q) : q[k] = x
    /\ \A i, j \in 1..Len(q) : i < j => Before(key, q[i], q[j])

\* Taking at each position the element with that many below it sorts the set.
LEMMA SortedInOrder ==
    ASSUME NEW S \in SUBSET Int, IsFiniteSet(S), NEW key \in [S -> Int],
           NEW q, q = [k \in 1..Cardinality(S) |-> q[k]],
           \A k \in 1..Cardinality(S) : q[k] \in S /\ Cardinality(Below(S, key, q[k])) = k - 1
    PROVE  InOrder(q, S, key)
<1> DEFINE n == Cardinality(S)
           C(x) == Cardinality(Below(S, key, x))
<1>1. /\ n \in Nat
      /\ \A x \in S : C(x) \in 0..(n - 1)
      /\ \A x, y \in S : Before(key, x, y) => C(x) < C(y)
  BY SortPositions
<1> HIDE DEF C, n
<1>2. \A k \in 1..n : q[k] \in S /\ C(q[k]) = k - 1
  BY DEF C, n
<1>3. q \in [1..n -> S]
  BY <1>2 DEF n
<1>4. q \in Seq(S) /\ Len(q) = n
  BY <1>1, <1>3, FunctionIsSeq
<1>5. \A x, y \in S : x = y \/ Before(key, x, y) \/ Before(key, y, x)
  BY DEF Before
<1>6. ASSUME NEW x \in S PROVE \E k \in 1..n : q[k] = x
  <2>1. C(x) \in Int /\ C(x) + 1 \in 1..n
    BY <1>1
  <2>2. PICK k \in 1..n : k = C(x) + 1
    BY <2>1
  <2>3. q[k] \in S /\ C(q[k]) = C(x)
    <3>1. q[k] \in S /\ C(q[k]) = k - 1
      BY <1>2
    <3> HIDE DEF C
    <3>2. k - 1 = C(x)
      BY <2>1, <2>2
    <3> QED
      BY <3>1, <3>2
  <2>4. ~(C(q[k]) < C(x)) /\ ~(C(x) < C(q[k]))
    BY <2>1, <2>3
  <2>5. ~Before(key, q[k], x) /\ ~Before(key, x, q[k])
    BY <1>1, <2>3, <2>4
  <2>6. q[k] = x
    BY <1>5, <2>3, <2>5
  <2> QED
    BY <2>6
<1>7. ASSUME NEW i \in 1..n, NEW j \in 1..n, i < j PROVE Before(key, q[i], q[j])
  <2>1. q[i] \in S /\ q[j] \in S /\ C(q[i]) = i - 1 /\ C(q[j]) = j - 1
    BY <1>2
  <2>2. C(q[i]) < C(q[j])
    BY <1>1, <1>7, <2>1
  <2> QED
    BY <1>1, <1>5, <2>1, <2>2
<1> QED
  BY <1>1, <1>4, <1>6, <1>7 DEF InOrder, n

\* Asc() lists a finite set of numbers in order.
LEMMA AscFacts ==
    ASSUME NEW S \in SUBSET Int, IsFiniteSet(S)
    PROVE  /\ Asc(S) \in Seq(S) /\ Len(Asc(S)) = Cardinality(S) /\ Len(Asc(S)) \in Nat
           /\ \A x \in S : \E k \in 1..Len(Asc(S)) : Asc(S)[k] = x
           /\ \A i, j \in 1..Len(Asc(S)) : i < j => Asc(S)[i] < Asc(S)[j]
<1> DEFINE key == [x \in S |-> x]
           q == Asc(S)
<1>1. key \in [S -> Int]
  OBVIOUS
<1>2. q = [k \in 1..Cardinality(S) |->
             CHOOSE x \in S : Cardinality({y \in S : y < x \/ (y = x /\ y < x)}) = k - 1]
  BY DEF Asc, Sorted
<1>3. \A x \in S : Below(S, key, x) = {y \in S : y < x \/ (y = x /\ y < x)}
  BY DEF Below, Before
<1>4. \A k \in 1..Cardinality(S) : \E x \in S : Cardinality(Below(S, key, x)) = k - 1
  BY <1>1, SortPositions
<1>5. ASSUME NEW k \in 1..Cardinality(S)
      PROVE  q[k] \in S /\ Cardinality(Below(S, key, q[k])) = k - 1
  <2>1. \E x \in S : Cardinality({y \in S : y < x \/ (y = x /\ y < x)}) = k - 1
    BY <1>3, <1>4
  <2>2. q[k] = CHOOSE x \in S : Cardinality({y \in S : y < x \/ (y = x /\ y < x)}) = k - 1
    BY <1>2
  <2> HIDE DEF q
  <2>3. q[k] \in S /\ Cardinality({y \in S : y < q[k] \/ (y = q[k] /\ y < q[k])}) = k - 1
    BY <2>1, <2>2
  <2> QED
    BY <1>3, <2>3
<1>6. q = [k \in 1..Cardinality(S) |-> q[k]]
  BY <1>2
<1> HIDE DEF q, key
<1>7. InOrder(q, S, key)
  BY <1>1, <1>5, <1>6, SortedInOrder
<1>8. \A x, y \in S : Before(key, x, y) => x < y
  BY DEF Before, key
<1>9. \A i \in 1..Len(q) : q[i] \in S
  BY <1>7 DEF InOrder
<1> QED
  BY <1>7, <1>8, <1>9 DEF InOrder, q

\* The least of a set of naturals.
LEMMA LeastNat ==
    ASSUME NEW L \in SUBSET Nat, L # {}
    PROVE  Min(L) \in L /\ \A x \in L : Min(L) <= x
<1> DEFINE R == OpToRel(<, Nat)
<1>1. IsWellFoundedOn(R, Nat)
  BY NatLessThanWellFounded
<1>2. \A x, y \in Nat : x < y => <<x, y>> \in R
  BY DEF OpToRel
<1> HIDE DEF R
<1>3. PICK m \in L : \A y \in L : ~(<<y, m>> \in R)
  BY <1>1, WFMin
<1>4. ASSUME NEW y \in L PROVE m =< y
  <2>1. m \in Nat /\ y \in Nat /\ ~(y < m)
    BY <1>2, <1>3
  <2> QED
    BY <2>1
<1>5. \E x \in L : \A y \in L : x =< y
  BY <1>4
<1> QED
  BY <1>5 DEF Min

\* The greater and the lesser of two numbers.
LEMMA TwoOf ==
    ASSUME NEW a \in Int, NEW b \in Int
    PROVE  /\ Min({a, b}) \in {a, b} /\ Min({a, b}) <= a /\ Min({a, b}) <= b
           /\ Max({a, b}) \in {a, b} /\ a <= Max({a, b}) /\ b <= Max({a, b})
<1>1. \E x \in {a, b} : \A y \in {a, b} : x <= y
  OBVIOUS
<1>2. \E x \in {a, b} : \A y \in {a, b} : x >= y
  OBVIOUS
<1>3. Min({a, b}) \in {a, b} /\ \A y \in {a, b} : Min({a, b}) <= y
  BY <1>1 DEF Min
<1>4. Max({a, b}) \in {a, b} /\ \A y \in {a, b} : Max({a, b}) >= y
  BY <1>2 DEF Max
<1>5. a <= Max({a, b}) /\ b <= Max({a, b})
  BY <1>4
<1> QED
  BY <1>3, <1>4, <1>5

\* Picking positions out of a sequence keeps their order.
LEMMA PickFacts ==
    ASSUME NEW T, NEW s \in Seq(T), NEW P \in SUBSET DOMAIN s
    PROVE  LET q == Pick(s, P) IN
           /\ IsFiniteSet(P)
           /\ q \in Seq(T) /\ Len(q) = Cardinality(P) /\ DOMAIN q = 1..Len(q) /\ Len(q) \in Nat
           /\ \A k \in DOMAIN q : Asc(P)[k] \in P /\ q[k] = s[Asc(P)[k]]
           /\ \A i \in P : \E k \in DOMAIN q : Asc(P)[k] = i
           /\ \A i, j \in DOMAIN q : i < j => Asc(P)[i] < Asc(P)[j]
<1> DEFINE q == Pick(s, P)
           p == Asc(P)
<1>1. DOMAIN s = 1..Len(s) /\ Len(s) \in Nat
  OBVIOUS
<1>2. IsFiniteSet(P) /\ P \in SUBSET Int
  <2>1. \A x \in P : x \in Int /\ 1 <= x /\ x <= Len(s)
    BY <1>1
  <2>2. 1 \in Int /\ Len(s) \in Int /\ 1 <= Len(s) + 1
    BY <1>1
  <2>3. IsFiniteSet(P)
    BY <2>1, <2>2, IntervalPart
  <2> QED
    BY <2>1, <2>3
<1>3. /\ p \in Seq(P) /\ Len(p) = Cardinality(P) /\ Len(p) \in Nat
      /\ \A x \in P : \E k \in 1..Len(p) : p[k] = x
      /\ \A i, j \in 1..Len(p) : i < j => p[i] < p[j]
  BY <1>2, AscFacts
<1>4. q = [k \in DOMAIN p |-> s[p[k]]]
  BY DEF Pick
<1> HIDE DEF p, q
<1>5. DOMAIN p = 1..Len(p) /\ \A k \in DOMAIN p : p[k] \in P
  BY <1>3
<1>6. q \in [1..Len(p) -> T]
  BY <1>1, <1>4, <1>5
<1>7. q \in Seq(T) /\ Len(q) = Len(p) /\ DOMAIN q = 1..Len(p)
  BY <1>3, <1>6, FunctionIsSeq
<1>8. \A k \in DOMAIN q : p[k] \in P /\ q[k] = s[p[k]]
  BY <1>4, <1>5, <1>7
<1> QED
  BY <1>2, <1>3, <1>7, <1>8 DEF p, q
-----------------------------------------------------------------------------
(* The inductive invariant *)

\* The rows, the index and the keys are such as a scan may meet.
World ==
    /\ rows \in Seq(RowType) /\ place \in [Row -> Nat \cup {OUT}] /\ dead \in SUBSET Row
    /\ Lists(place, rows, want.v12)
    /\ KeysFit(want) /\ \A w \in want.again : KeysFit(Rescanned(want, w))
    /\ \A r \in dead : ~rows[r].vis /\ place[r] # OUT /\ place[r] # PENDING

\* What the scan remembers is of the right kind.
ScanRecord ==
    [phase : {"start", "ranked", "pad", "search", "done", "error"},
     ordered : Seq(Row), ordpos : Nat, cand : Seq(Row), candpos : Nat,
     candfull : BOOLEAN, width : Nat, maxhits : Nat, lanes : Nat, thr : Nat,
     next : Nat, plain : (SUBSET Row) \cup {NoGate}, plainRecheck : BOOLEAN,
     gateLex : BOOLEAN, pad : Seq(Nat), walk : {"none", "match", "gate", "heap"},
     seen : SUBSET Row, nulls : Seq(Row), capped : BOOLEAN, short : BOOLEAN]
ScanType ==
    /\ so \in ScanRecord
    /\ so.ordpos <= Len(so.ordered) /\ so.candpos <= Len(so.cand)
    /\ out \in Seq([row : Row, dist : Int])

\* What the ranking has for this snapshot, what the scan has taken of it, and what of
\* the last pass is still to be probed.
Ranked == {r \in Row : rows[r].vis /\ place[r] # OUT /\ Ranks(r)}
Admitted(s) == {r \in Ranked : Gated(s, r)}
Taken(s) == ToSet(s.ordered)
Left(s) == {s.cand[j] : j \in (s.candpos + 1)..Len(s.cand)}
Given == {out[i].row : i \in DOMAIN out}

Distinct(q) == \A i, j \in DOMAIN q : q[i] = q[j] => i = j
Nearest(q) == \A i, j \in DOMAIN q : i < j => Dist(q[i]) <= Dist(q[j])

\* The last pass: its candidates are in order and eligible.
PassInv(s) ==
    /\ Distinct(s.cand) /\ Nearest(s.cand)
    /\ \A i \in DOMAIN s.cand :
         /\ Ranks(s.cand[i]) /\ Gated(s, s.cand[i])
         /\ rows[s.cand[i]].vis => place[s.cand[i]] # OUT

\* A ladder that goes on, or that may stop because nothing is left; not one that
\* maxhits ends short.
Exact(s) == GrowProves(s) => ~s.short

\* The ladder: what was taken comes before what is left, and both before what no pass
\* has reached, if it goes on; if it may stop, it has reached everything, unless maxhits
\* has ended it short.
LadderInv(s) ==
    /\ Distinct(s.ordered) /\ Nearest(s.ordered)
    /\ Taken(s) \subseteq Admitted(s) /\ Taken(s) \cap Left(s) = {}
    /\ \A x \in Taken(s) : \A y \in Left(s) \cap Ranked : Dist(x) <= Dist(y)
    /\ Exact(s) => \A x \in Taken(s) \cup (Left(s) \cap Ranked) :
         \A y \in Admitted(s) \ (Taken(s) \cup Left(s)) : Dist(x) <= Dist(y)
    /\ GrowProves(s) /\ ~s.short => Admitted(s) \subseteq Taken(s) \cup Left(s)

\* The most hits are at least the hits there were at the start; passes are not empty.
Counted == {r \in Found : ~rows[r].late}
HitsInv(s) ==
    /\ s.width >= 1
    /\ want.kind \in {"lex", "fuse"} /\ UnionCounted => Cardinality(Counted) <= s.maxhits

\* The gate of the passes: no row the WHERE clause admits stays outside, but for those
\* without a document list; where rows are not rechecked it admits no others; and when
\* padding may walk it, it has every row.
GateInv(s) ==
    /\ \A r \in Ranked : Where(r) /\ ~WithoutList(r) => Gated(s, r)
    /\ ~Recheck(s) => \A r \in Row : Ranks(r) /\ Gated(s, r) => Where(r)
    /\ want.kind = "edist" /\ HasLex(want) => s.plain # NoGate
    /\ want.kind = "fuse" /\ (HasLex(want) \/ want.dv) => s.plain # NoGate
    /\ s.plain # NoGate =>
         /\ want.kind \in {"edist", "fuse"}
         /\ s.gateLex \/ want.v12 => Due \subseteq s.plain

\* Handing out the ranking: the rows given are those gone through, but for the WHERE clause,
\* each with its distance; none is set aside yet.
GivenInv ==
    /\ so.nulls = <<>>
    /\ \A i \in DOMAIN out : out[i].dist = TrueDist(out[i].row)
    /\ \A i \in DOMAIN out : \E j \in 1..so.ordpos : out[i].row = so.ordered[j]
    /\ \A j \in 1..so.ordpos : Where(so.ordered[j]) => so.ordered[j] \in Given

\* Padding: every row to be given is given, kept for the end, or still to be visited once.
PadRow(s, i) == IF s.walk = "heap" THEN padRoots(s.pad[i]) ELSE s.pad[i]
ToGo(s) == {PadRow(s, i) : i \in DOMAIN s.pad}
PadInv(s) ==
    /\ s.walk # "none" /\ (s.walk = "match" => want.kind = "lex" /\ want.lex = "same" /\ ~want.cgram)
    /\ s.seen \subseteq Ranked
    /\ \A r \in Ranked : Where(r) => r \in s.seen \/ s.short \/ WithoutList(r)
    /\ \A r \in s.seen : Where(r) => r \in Given
    /\ \A i, j \in DOMAIN s.pad : PadRow(s, i) = PadRow(s, j) => i = j
    /\ ToGo(s) \subseteq Row /\ Distinct(s.nulls)
    /\ \A i \in DOMAIN s.nulls :
         /\ rows[s.nulls[i]].vis /\ rows[s.nulls[i]].pred /\ KeyNull(s.nulls[i])
         /\ s.nulls[i] \notin Given \cup ToGo(s)
    /\ \A i \in DOMAIN out : out[i].row \in s.seen \/ out[i].row \notin ToGo(s)
    /\ s.pad # <<>> => \A i \in DOMAIN out : out[i].dist <= INF
    /\ Due \subseteq Given \cup ToSet(s.nulls) \cup ToGo(s)

\* weave_fuse_search() has at most k rows, and none but the last past the ranking.
FuseInv ==
    want.kind = "fuse" /\ want.k > 0 =>
        Len(out) <= want.k /\ \A i \in DOMAIN out : i < Len(out) => out[i].dist < INF

PhaseInv ==
    /\ so.phase \in {"start", "search"} => out = <<>>
    /\ so.phase = "start" => so = FreshScan
    /\ so.phase = "search" => want.kind = "search"
    /\ so.phase \in {"ranked", "pad"} => want.kind # "search" /\ FuseInv
    /\ so.phase = "ranked" => PassInv(so) /\ LadderInv(so) /\ HitsInv(so) /\ GateInv(so) /\ GivenInv
    /\ so.phase = "pad" => PadInv(so)

IInv == World /\ ScanType /\ PhaseInv /\ RankOrdered /\ RankComplete

-----------------------------------------------------------------------------
(* Rows and their order in the ranking *)

\* The rows are finitely many numbers, each a record of the right kind.
LEMMA RowFacts ==
    ASSUME World
    PROVE  /\ Row = 1..Len(rows) /\ Len(rows) \in Nat /\ IsFiniteSet(Row) /\ Row \in SUBSET Nat
           /\ \A r \in Row : rows[r] \in RowType
           /\ \A S \in SUBSET Row : IsFiniteSet(S) /\ Cardinality(S) \in Nat
<1>1. Row = 1..Len(rows) /\ Len(rows) \in Nat
  BY DEF World, Row
<1>2. IsFiniteSet(1..Len(rows))
  <2>1. 1 \in Int /\ Len(rows) \in Int
    BY <1>1
  <2> QED
    BY <2>1, FS_Interval
<1>3. \A r \in Row : rows[r] \in RowType
  BY DEF World, Row
<1>4. ASSUME NEW S \in SUBSET Row PROVE IsFiniteSet(S) /\ Cardinality(S) \in Nat
  BY <1>1, <1>2, FS_Subset, FS_CardinalityType
<1> QED
  BY <1>1, <1>2, <1>3, <1>4

\* The keys, field by field.
LEMMA KeyFacts ==
    ASSUME World
    PROVE  /\ want.kind \in {"lex", "vec", "edist", "fuse", "search"}
           /\ want.q \in {"term", "or", "and", "andnot", "ornot", "wild"}
           /\ want.chan \in {"none", "lexlex", "lexvec", "vecvec"}
           /\ want.lex \in {"no", "same", "other"}
           /\ want.not \in BOOLEAN /\ want.dv \in BOOLEAN /\ want.cgram \in BOOLEAN
           /\ want.lossy \in BOOLEAN /\ want.v12 \in BOOLEAN
           /\ want.hint \in Nat /\ want.k \in Nat /\ want.slack \in Nat
           /\ want.kind = "search" \/ want.k > 0 => NoKeys(want)
           /\ want.kind = "search" => want.k > 0
           /\ want.kind \notin {"search", "fuse"} => want.k = 0
           /\ want.kind = "fuse" => want.chan # "none"
BY DEF World, KeysFit, KeysType

\* A ranked row has a distance below infinity, and its ordering column is not NULL.
LEMMA DistFacts ==
    ASSUME World, NEW r \in Row, Ranks(r)
    PROVE  Dist(r) \in Nat /\ Dist(r) < INF /\ ~KeyNull(r)
<1>1. /\ rows[r].dist \in 0..(INF - 1) /\ rows[r].words \in SUBSET (0..(INF - 1))
      /\ rows[r].nulldoc \in BOOLEAN /\ rows[r].vec \in BOOLEAN
  BY RowFacts DEF RowType
<1>2. INF \in Nat
  BY RankBounds
<1>3. want.kind \in {"lex", "vec", "edist", "fuse", "search"}
  BY KeyFacts
<1>4. ~KeyNull(r)
  BY <1>1, <1>3 DEF Ranks, KeyNull
<1>5. CASE want.kind = "edist"
  <2>1. rows[r].words # {} /\ rows[r].words \in SUBSET Nat
    BY <1>1, <1>2, <1>5 DEF Ranks
  <2>2. Dist(r) = Min(rows[r].words)
    BY <1>5 DEF Dist
  <2>3. Dist(r) \in rows[r].words
    BY <2>1, <2>2, LeastNat
  <2> QED
    BY <1>1, <1>2, <1>4, <2>3
<1>6. CASE want.kind # "edist"
  BY <1>1, <1>2, <1>4, <1>6 DEF Dist
<1> QED
  BY <1>5, <1>6

\* The order of the ranking: by distance, rows at the same distance by their place.
Ahead(x, y) == Dist(x) < Dist(y) \/ (Dist(x) = Dist(y) /\ x < y)
Rankable == {r \in Row : Ranks(r)}

\* It is a total order.
LEMMA AheadOrder ==
    ASSUME World
    PROVE  /\ \A x, y \in Rankable : Ahead(x, y) => Dist(x) <= Dist(y) /\ x # y /\ ~Ahead(y, x)
           /\ \A x, y \in Rankable : x = y \/ Ahead(x, y) \/ Ahead(y, x)
           /\ \A x, y, z \in Rankable : Ahead(x, y) /\ Ahead(y, z) => Ahead(x, z)
<1>1. \A x \in Rankable : Dist(x) \in Nat /\ x \in Nat
  BY DistFacts, RowFacts DEF Rankable
<1> QED
  BY <1>1 DEF Ahead

\* P is the front of S in the ranking.
Foremost(P, S) == P \subseteq S /\ \A x \in S \ P : \A y \in P : Ahead(y, x)

\* What Best() returns: the front of the set, in order, as long as asked for if there is enough.
LEMMA BestFacts ==
    ASSUME World, NEW S \in SUBSET Rankable, NEW n \in Nat
    PROVE  LET b == Best(S, n) IN
           /\ b \in Seq(S) /\ Len(b) \in Nat /\ Len(b) <= n /\ Len(b) <= Cardinality(S)
           /\ \A i, j \in DOMAIN b : i < j => Ahead(b[i], b[j])
           /\ Distinct(b) /\ Nearest(b)
           /\ Foremost(ToSet(b), S) /\ IsFiniteSet(ToSet(b)) /\ Cardinality(ToSet(b)) = Len(b)
           /\ Len(b) < n \/ Cardinality(S) <= n => ToSet(b) = S
<1> DEFINE key == [x \in S |-> Dist(x)]
           q == Sorted(S, Dist)
           c == Cardinality(S)
<1>1. IsFiniteSet(S) /\ c \in Nat /\ S \in SUBSET Int /\ S \in SUBSET Row
  BY RowFacts DEF Rankable
<1>2. key \in [S -> Int]
  BY DistFacts DEF Rankable
<1>3. q = [k \in 1..c |->
             CHOOSE x \in S : Cardinality({y \in S : Dist(y) < Dist(x) \/ (Dist(y) = Dist(x) /\ y < x)}) = k - 1]
  BY DEF Sorted
<1>4. \A x \in S : Below(S, key, x) = {y \in S : Dist(y) < Dist(x) \/ (Dist(y) = Dist(x) /\ y < x)}
  BY DEF Below, Before
<1>5. \A k \in 1..c : \E x \in S : Cardinality(Below(S, key, x)) = k - 1
  BY <1>1, <1>2, SortPositions
<1>6. ASSUME NEW k \in 1..c
      PROVE  q[k] \in S /\ Cardinality(Below(S, key, q[k])) = k - 1
  <2>1. \E x \in S : Cardinality({y \in S : Dist(y) < Dist(x) \/ (Dist(y) = Dist(x) /\ y < x)}) = k - 1
    BY <1>4, <1>5
  <2>2. q[k] = CHOOSE x \in S : Cardinality({y \in S : Dist(y) < Dist(x) \/ (Dist(y) = Dist(x) /\ y < x)}) = k - 1
    BY <1>3
  <2> HIDE DEF q
  <2>3. q[k] \in S /\ Cardinality({y \in S : Dist(y) < Dist(q[k]) \/ (Dist(y) = Dist(q[k]) /\ y < q[k])}) = k - 1
    BY <2>1, <2>2
  <2> QED
    BY <1>4, <2>3
<1>7. q = [k \in 1..c |-> q[k]]
  BY <1>3
<1> HIDE DEF q
<1>8. InOrder(q, S, key)
  BY <1>1, <1>2, <1>6, <1>7, SortedInOrder
<1>9. \A x, y \in S : Before(key, x, y) <=> Ahead(x, y)
  BY DEF Before, Ahead
<1>10. /\ q \in Seq(S) /\ Len(q) = c
       /\ \A x \in S : \E k \in 1..c : q[k] = x
       /\ \A i, j \in 1..c : i < j => Ahead(q[i], q[j])
  <2>1. \A i \in 1..c : q[i] \in S
    BY <1>6
  <2> QED
    BY <1>8, <1>9, <2>1 DEF InOrder
<1> HIDE DEF key, c
<1> DEFINE m == Min({n, c})
           b == SubSeq(q, 1, m)
<1>11. m \in 0..c /\ m <= n /\ m \in {n, c}
  BY <1>1, TwoOf
<1>12. Best(S, n) = b
  BY <1>10 DEF Best, q
<1> HIDE DEF m
<1>13. b \in Seq(S) /\ Len(b) = m /\ DOMAIN b = 1..m /\ \A i \in 1..m : b[i] = q[i]
  BY <1>1, <1>10, <1>11
<1>14. \A i \in 1..c : q[i] \in S /\ q[i] \in Rankable
  BY <1>6 DEF c
<1>15. \A i, j \in 1..m : i < j => Ahead(b[i], b[j])
  <2>1. \A i \in 1..m : i \in 1..c
    BY <1>1, <1>11
  <2> QED
    BY <1>10, <1>13, <2>1
<1>16. \A i \in 1..m : b[i] \in S /\ b[i] \in Rankable
  BY <1>1, <1>11, <1>13, <1>14
<1> HIDE DEF b
<1>17. Distinct(b) /\ Nearest(b)
  <2>1. \A i, j \in 1..m : i < j => Dist(b[i]) <= Dist(b[j]) /\ b[i] # b[j]
    BY <1>15, <1>16, AheadOrder
  <2>2. \A i, j \in 1..m : i < j \/ j < i \/ i = j
    BY <1>1, <1>11
  <2> QED
    BY <1>13, <2>1, <2>2 DEF Distinct, Nearest
<1>18. ToSet(b) = {b[i] : i \in 1..m}
  BY <1>13 DEF ToSet
<1>19. ToSet(b) \subseteq S
  BY <1>16, <1>18
<1>20. ASSUME NEW x \in S \ ToSet(b), NEW y \in ToSet(b) PROVE Ahead(y, x)
  <2>1. PICK i \in 1..m : b[i] = y
    BY <1>18
  <2>2. PICK k \in 1..c : q[k] = x
    BY <1>10
  <2>3. k \notin 1..m
    BY <1>13, <1>18, <2>2
  <2>4. i \in 1..c /\ i < k
    BY <1>1, <1>11, <2>3
  <2> QED
    BY <1>10, <1>13, <2>1, <2>2, <2>4
<1>21. ASSUME m = c PROVE ToSet(b) = S
  BY <1>10, <1>13, <1>18, <1>19, <1>21
<1>22. IsFiniteSet(ToSet(b)) /\ Cardinality(ToSet(b)) = m
  <2>1. b \in Bijection(1..m, ToSet(b))
    <3>1. b \in [1..m -> ToSet(b)]
      <4>1. b = [i \in 1..m |-> b[i]]
        BY <1>13
      <4> QED
        BY <1>18, <4>1
    <3>2. \A i, j \in 1..m : b[i] = b[j] => i = j
      BY <1>13, <1>17 DEF Distinct
    <3>3. \A y \in ToSet(b) : \E i \in 1..m : b[i] = y
      BY <1>18
    <3> QED
      BY <3>1, <3>2, <3>3 DEF Bijection, Injection, IsInjective, Surjection
  <2>2. IsFiniteSet(1..m) /\ Cardinality(1..m) = m
    <3>1. m \in Nat
      BY <1>1, <1>11
    <3>2. IsFiniteSet(1..m) /\ Cardinality(1..m) = IF 1 > m THEN 0 ELSE m - 1 + 1
      BY <3>1, FS_Interval
    <3> QED
      BY <3>1, <3>2
  <2> DEFINE A == 1..m
             B == ToSet(b)
  <2> HIDE DEF A, B
  <2>3. IsFiniteSet(A) /\ Cardinality(A) = m /\ b \in Bijection(A, B)
    BY <2>1, <2>2 DEF A, B
  <2>4. IsFiniteSet(B) /\ Cardinality(B) = Cardinality(A)
    BY <2>3, FS_Bijection DEF ExistsBijection
  <2> QED
    BY <2>3, <2>4 DEF B
<1>23. m < n \/ c <= n => m = c
  BY <1>1, <1>11
<1>24. Len(b) \in Nat /\ Len(b) <= n /\ Len(b) <= c
  BY <1>1, <1>11, <1>13
<1> QED
  BY <1>12, <1>13, <1>15, <1>17, <1>19, <1>20, <1>21, <1>22, <1>23, <1>24 DEF Foremost, c

\* The front of an ordered sequence that is the front of a set is the front of the set.
LEMMA PrefixFacts ==
    ASSUME World, NEW S \in SUBSET Rankable, NEW c \in Seq(S), NEW m \in 0..Len(c),
           \A i, j \in DOMAIN c : i < j => Ahead(c[i], c[j]), Foremost(ToSet(c), S)
    PROVE  LET b == SubSeq(c, 1, m) IN
           /\ b \in Seq(S) /\ Len(b) = m /\ Distinct(b) /\ Nearest(b)
           /\ Foremost(ToSet(b), S) /\ IsFiniteSet(ToSet(b)) /\ Cardinality(ToSet(b)) = m
<1> DEFINE b == SubSeq(c, 1, m)
<1>1. DOMAIN c = 1..Len(c) /\ Len(c) \in Nat /\ \A i \in 1..Len(c) : c[i] \in S
  OBVIOUS
<1>2. b \in Seq(S) /\ Len(b) = m /\ DOMAIN b = 1..m /\ \A i \in 1..m : b[i] = c[i]
  OBVIOUS
<1> HIDE DEF b
<1>3. m \in Nat /\ \A i \in 1..m : i \in 1..Len(c) /\ b[i] \in S /\ b[i] \in Rankable
  BY <1>1, <1>2
<1>4. \A i, j \in 1..m : i < j => Ahead(b[i], b[j])
  BY <1>1, <1>2, <1>3
<1>5. \A i, j \in 1..m : i < j => Dist(b[i]) <= Dist(b[j]) /\ b[i] # b[j]
  BY <1>3, <1>4, AheadOrder
<1>6. \A i, j \in 1..m : i < j \/ j < i \/ i = j
  BY <1>3
<1>7. Distinct(b) /\ Nearest(b)
  BY <1>2, <1>5, <1>6 DEF Distinct, Nearest
<1>8. ToSet(b) = {b[i] : i \in 1..m} /\ ToSet(c) = {c[i] : i \in 1..Len(c)}
  BY <1>1, <1>2 DEF ToSet
<1>9. ASSUME NEW x \in S \ ToSet(b), NEW y \in ToSet(b) PROVE Ahead(y, x)
  <2>1. PICK i \in 1..m : b[i] = y
    BY <1>8
  <2>2. CASE x \notin ToSet(c)
    <3>1. y \in ToSet(c)
      BY <1>2, <1>3, <1>8, <2>1
    <3> QED
      BY <2>2, <3>1 DEF Foremost
  <2>3. CASE x \in ToSet(c)
    <3>1. PICK k \in 1..Len(c) : c[k] = x
      BY <1>8, <2>3
    <3>2. k \notin 1..m
      BY <1>2, <1>8, <3>1
    <3>3. i < k /\ i \in 1..Len(c)
      BY <1>1, <1>3, <3>2
    <3> QED
      BY <1>1, <1>2, <2>1, <3>1, <3>3
  <2> QED
    BY <2>2, <2>3
<1>10. IsFiniteSet(ToSet(b)) /\ Cardinality(ToSet(b)) = m
  <2> DEFINE A == 1..m
             B == ToSet(b)
  <2>1. b \in [A -> B]
    <3>1. b = [i \in 1..m |-> b[i]]
      BY <1>2
    <3> QED
      BY <1>8, <3>1
  <2>2. \A i, j \in A : b[i] = b[j] => i = j
    BY <1>2, <1>7 DEF Distinct
  <2>3. \A y \in B : \E i \in A : b[i] = y
    BY <1>8
  <2>4. IsFiniteSet(A) /\ Cardinality(A) = m
    <3>1. IsFiniteSet(1..m) /\ Cardinality(1..m) = IF 1 > m THEN 0 ELSE m - 1 + 1
      BY <1>3, FS_Interval
    <3> QED
      BY <1>3, <3>1
  <2> HIDE DEF A, B
  <2>5. b \in Bijection(A, B)
    BY <2>1, <2>2, <2>3 DEF Bijection, Injection, IsInjective, Surjection
  <2>6. IsFiniteSet(B) /\ Cardinality(B) = Cardinality(A)
    BY <2>4, <2>5, FS_Bijection DEF ExistsBijection
  <2> QED
    BY <2>4, <2>6 DEF B
<1>11. ToSet(b) \subseteq S
  BY <1>3, <1>8
<1> QED
  BY <1>2, <1>7, <1>9, <1>10, <1>11 DEF Foremost, b

\* A full list keeps out what lies behind all of it: x, which was cut off behind H, lies
\* behind the whole front P of a set that has H, if P is no larger than H.
LEMMA CutOff ==
    ASSUME World, NEW U \in SUBSET Rankable, NEW P, Foremost(P, U), NEW H \in SUBSET U,
           Cardinality(P) <= Cardinality(H), NEW x \in Rankable \ U, \A z \in H : Ahead(z, x)
    PROVE  \A y \in P : Ahead(y, x)
<1> SUFFICES ASSUME NEW y \in P, ~Ahead(y, x) PROVE FALSE
  OBVIOUS
<1>1. P \subseteq U /\ y \in Rankable /\ y # x
  BY DEF Foremost
<1>2. Ahead(x, y) /\ y \notin H
  BY <1>1, AheadOrder
<1>3. \A z \in H : z \in P
  <2> SUFFICES ASSUME NEW z \in H, z \notin P PROVE FALSE
    OBVIOUS
  <2>1. z \in Rankable /\ Ahead(y, z) /\ Ahead(z, x)
    BY DEF Foremost
  <2> QED
    BY <1>1, <2>1, AheadOrder
<1>4. IsFiniteSet(P) /\ Cardinality(P) \in Nat
  BY <1>1, RowFacts DEF Rankable
<1>5. IsFiniteSet(P \ {y}) /\ Cardinality(P \ {y}) = Cardinality(P) - 1
  BY <1>4, FS_RemoveElement
<1>6. H \in SUBSET (P \ {y})
  BY <1>2, <1>3
<1>7. IsFiniteSet(H) /\ Cardinality(H) <= Cardinality(P \ {y})
  BY <1>5, <1>6, FS_Subset
<1>8. Cardinality(H) \in Nat
  BY <1>7, FS_CardinalityType
<1> QED
  BY <1>4, <1>5, <1>7, <1>8

-----------------------------------------------------------------------------
(* The passes *)

\* What is in the index, by its places.
LEMMA LiveFacts ==
    ASSUME World
    PROVE  /\ Live = {r \in Row : place[r] # OUT /\ r \notin dead}
           /\ Flushed = {r \in Row : place[r] # OUT /\ place[r] # PENDING /\ r \notin dead}
           /\ Pending = {r \in Row : place[r] = PENDING}
           /\ Live = Flushed \cup Pending /\ Flushed \cap Pending = {}
           /\ \A r \in Row : place[r] \in Bolts <=> place[r] # OUT /\ place[r] # PENDING
           /\ \A r \in Row : rows[r].vis => (r \in Live <=> place[r] # OUT)
<1>1. \A r \in Row : place[r] \in Bolts <=> place[r] # OUT /\ place[r] # PENDING
  BY DEF Bolts
<1>2. Flushed = {r \in Row : place[r] # OUT /\ place[r] # PENDING /\ r \notin dead}
  BY <1>1 DEF Flushed
<1>3. \A r \in dead : ~rows[r].vis /\ place[r] # PENDING
  BY DEF World
<1>4. PENDING # OUT
  BY DEF PENDING, OUT
<1>5. Live = {r \in Row : place[r] # OUT /\ r \notin dead}
  BY <1>2, <1>3, <1>4 DEF Live, Pending
<1> QED
  BY <1>1, <1>2, <1>3, <1>5 DEF Live, Pending

\* The rows a pass may find: ranked, in the index, inside the gate.
Eligible(t) == {r \in Live : Ranks(r) /\ Gated(t, r)}

\* The rows found, and which of them the snapshot sees.
LEMMA FoundFacts ==
    ASSUME World
    PROVE  /\ Found \in SUBSET Rankable /\ IsFiniteSet(Found) /\ Cardinality(Found) \in Nat
           /\ {r \in Flushed : Ranks(r)} \cup {r \in Pending : Ranks(r)} = Found
           /\ Ranked \subseteq Found
           /\ \A t : Admitted(t) \subseteq Eligible(t) /\ Eligible(t) \subseteq Found
           /\ \A t : \A r \in Eligible(t) : rows[r].vis => r \in Admitted(t)
           /\ \A t : t.plain = NoGate => Eligible(t) = Found
<1>1. Live \subseteq Row /\ Flushed \subseteq Row /\ Pending \subseteq Row /\ Live = Flushed \cup Pending
  BY LiveFacts
<1>2. \A r \in Row : rows[r].vis => (r \in Live <=> place[r] # OUT)
  BY LiveFacts
<1>3. Found \in SUBSET Rankable /\ Found \in SUBSET Row
  BY <1>1 DEF Found, Rankable
<1>4. IsFiniteSet(Found) /\ Cardinality(Found) \in Nat
  BY <1>3, RowFacts
<1>5. Ranked \subseteq Found
  BY <1>2 DEF Ranked, Found
<1>6. \A t : Admitted(t) \subseteq Eligible(t) /\ Eligible(t) \subseteq Found
  BY <1>5 DEF Admitted, Eligible, Found
<1>7. \A t : \A r \in Eligible(t) : rows[r].vis => r \in Admitted(t)
  BY <1>1, <1>2 DEF Admitted, Eligible, Ranked
<1>8. \A t : t.plain = NoGate => Eligible(t) = Found
  BY DEF Eligible, Found, Gated
<1> QED
  BY <1>1, <1>3, <1>4, <1>5, <1>6, <1>7, <1>8 DEF Found

\* What a pass has to deliver: eligible rows in order; none it left out nearer than one
\* it has, if the ladder goes on; and everything, if it may stop and is not short.
Delivers(t, b) ==
    /\ b \in Seq(Row) /\ Distinct(b) /\ Nearest(b) /\ ToSet(b) \subseteq Eligible(t)
    /\ (GrowProves(t) => ~Short(t)) =>
         \A x \in ToSet(b) : \A y \in Eligible(t) \ ToSet(b) : Dist(x) <= Dist(y)
    /\ GrowProves(t) /\ ~Short(t) => Eligible(t) \subseteq ToSet(b)

\* What the scan has taken, before a pass.
TakenInv(s, t) ==
    /\ s.ordered \in Seq(Row) /\ Distinct(s.ordered) /\ Nearest(s.ordered)
    /\ Taken(s) \subseteq Admitted(t)
    /\ \A x \in Taken(s) : \A y \in Admitted(t) \ Taken(s) : Dist(x) <= Dist(y)

\* The new candidates, less the rows already taken, are the next part of the ranking.
LEMMA NewPass ==
    ASSUME World, NEW s, NEW t, NEW b, TakenInv(s, t), Delivers(t, b),
           t.ordered = s.ordered, t.cand = Unseen(s, b), t.candpos = 0, t.short = Short(t)
    PROVE  t.cand \in Seq(Row) /\ PassInv(t) /\ LadderInv(t)
<1> DEFINE D == {i \in DOMAIN b : b[i] \notin ToSet(s.ordered)}
           q == Pick(b, D)
           p == Asc(D)
<1>1. t.cand = q
  BY DEF Unseen
<1>2. b \in Seq(Row) /\ DOMAIN b = 1..Len(b) /\ Len(b) \in Nat /\ D \in SUBSET DOMAIN b
  BY DEF Delivers
<1>2a. \A i \in DOMAIN b : i \in D <=> b[i] \notin Taken(s)
  BY DEF Taken
<1> HIDE DEF D
<1>3. /\ q \in Seq(Row) /\ DOMAIN q = 1..Len(q) /\ Len(q) \in Nat
      /\ \A k \in DOMAIN q : p[k] \in D /\ q[k] = b[p[k]]
      /\ \A i \in D : \E k \in DOMAIN q : p[k] = i
      /\ \A i, j \in DOMAIN q : i < j => p[i] < p[j]
  BY <1>2, PickFacts
<1> HIDE DEF q, p
<1>4. \A i \in D : i \in DOMAIN b /\ i \in Int /\ b[i] \notin Taken(s)
  BY <1>2a, <1>2
<1>5. Distinct(q) /\ Nearest(q)
  <2>1. \A i, j \in DOMAIN b : (b[i] = b[j] => i = j) /\ (i < j => Dist(b[i]) <= Dist(b[j]))
    BY DEF Delivers, Distinct, Nearest
  <2>2. \A i, j \in DOMAIN q : p[i] \in DOMAIN b /\ p[i] \in Int /\ (i < j => p[i] < p[j])
    BY <1>3, <1>4
  <2>3. \A i, j \in DOMAIN q : i < j \/ j < i \/ i = j
    BY <1>3
  <2>4. ASSUME NEW i \in DOMAIN q, NEW j \in DOMAIN q, i < j
        PROVE  Dist(q[i]) <= Dist(q[j]) /\ q[i] # q[j]
    <3>1. p[i] < p[j] /\ p[i] \in DOMAIN b /\ p[j] \in DOMAIN b /\ p[i] \in Int /\ p[j] \in Int
      BY <2>2, <2>4
    <3>2. q[i] = b[p[i]] /\ q[j] = b[p[j]]
      BY <1>3
    <3> QED
      BY <2>1, <3>1, <3>2
  <2> QED
    BY <2>3, <2>4 DEF Distinct, Nearest
<1>6. ToSet(b) = {b[i] : i \in DOMAIN b}
  BY DEF ToSet
<1>7. Taken(t) = Taken(s)
  BY DEF Taken
<1>8. \A k \in DOMAIN q : q[k] \in ToSet(b) \ Taken(s)
  BY <1>3, <1>4, <1>6
<1>9. \A x \in ToSet(b) \ Taken(s) : \E k \in DOMAIN q : q[k] = x
  <2> SUFFICES ASSUME NEW x \in ToSet(b), x \notin Taken(s) PROVE \E k \in DOMAIN q : q[k] = x
    OBVIOUS
  <2>1. PICK i \in DOMAIN b : b[i] = x
    BY <1>6
  <2>2. i \in D
    BY <1>2a, <2>1
  <2> QED
    BY <1>3, <2>1, <2>2
<1>10. Left(t) = ToSet(b) \ Taken(s)
  <2>1. Left(t) = {q[k] : k \in DOMAIN q}
    <3>1. (t.candpos + 1)..Len(t.cand) = DOMAIN q
      BY <1>1, <1>3
    <3> QED
      BY <1>1, <3>1 DEF Left
  <2> QED
    BY <1>8, <1>9, <2>1
<1>11. PassInv(t)
  <2>1. ASSUME NEW k \in DOMAIN q
        PROVE  Ranks(q[k]) /\ Gated(t, q[k]) /\ place[q[k]] # OUT
    <3>1. q[k] \in Eligible(t)
      BY <1>8 DEF Delivers
    <3> QED
      BY <3>1, LiveFacts DEF Eligible
  <2> QED
    BY <1>1, <1>5, <2>1 DEF PassInv
<1>12. \A x \in Left(t) \cap Ranked : x \in Admitted(t) \ Taken(s)
  BY <1>10, FoundFacts DEF Delivers, Ranked
<1>13. ASSUME Exact(t), NEW x \in Left(t), NEW y \in Admitted(t) \ (Taken(t) \cup Left(t))
       PROVE  Dist(x) <= Dist(y)
  <2>1. x \in ToSet(b) /\ y \in Eligible(t) \ ToSet(b)
    BY <1>7, <1>10, FoundFacts
  <2>2. GrowProves(t) => ~Short(t)
    BY <1>13 DEF Exact
  <2> QED
    BY <2>1, <2>2 DEF Delivers
<1>14. GrowProves(t) /\ ~t.short => Admitted(t) \subseteq Taken(t) \cup Left(t)
  BY <1>7, <1>10, FoundFacts DEF Delivers
<1>15. \A x \in Taken(t) : \A y \in Admitted(t) \ Taken(t) : Dist(x) <= Dist(y)
  BY <1>7 DEF TakenInv
<1>16. LadderInv(t)
  <2>1. Distinct(t.ordered) /\ Nearest(t.ordered) /\ Taken(t) \subseteq Admitted(t)
    BY <1>7 DEF TakenInv
  <2>2. Taken(t) \cap Left(t) = {}
    BY <1>7, <1>10
  <2> QED
    BY <1>7, <1>12, <1>13, <1>14, <1>15, <2>1, <2>2 DEF LadderInv
<1> QED
  BY <1>1, <1>3, <1>11, <1>16

\* The candidates of a lexical pass: the front of what is found, all of it if the list
\* does not fill up.
LEMMA GuardedFacts ==
    ASSUME World, NEW n \in Nat
    PROVE  LET c == weave_topk_candidates_guarded(n) IN
           /\ c \in Seq(Found) /\ Len(c) \in Nat /\ Len(c) <= n
           /\ \A i, j \in DOMAIN c : i < j => Ahead(c[i], c[j])
           /\ Distinct(c) /\ Nearest(c) /\ Foremost(ToSet(c), Found)
           /\ Len(c) < n \/ Cardinality(Found) <= n => ToSet(c) = Found
<1> DEFINE F == {r \in Flushed : Ranks(r)}
           Q == {r \in Pending : Ranks(r)}
           h == Best(F, n)
           U == ToSet(h) \cup Q
           c == Best(U, n)
<1>1. c = weave_topk_candidates_guarded(n)
  BY DEF weave_topk_candidates_guarded, weave_topk_merge_pending, weave_topk_candidates_range,
         weave_pending_ranked
<1>2. F \cup Q = Found /\ Found \in SUBSET Rankable /\ IsFiniteSet(Found) /\ Cardinality(Found) \in Nat
  BY FoundFacts
<1> HIDE DEF F, Q
<1>3. F \in SUBSET Rankable /\ F \in SUBSET Found /\ IsFiniteSet(F)
      /\ Cardinality(F) \in Nat /\ Cardinality(F) <= Cardinality(Found)
  BY <1>2, FS_Subset, FS_CardinalityType
<1>4. /\ Len(h) \in Nat /\ Len(h) <= n
      /\ Foremost(ToSet(h), F) /\ IsFiniteSet(ToSet(h)) /\ Cardinality(ToSet(h)) = Len(h)
      /\ Len(h) < n \/ Cardinality(F) <= n => ToSet(h) = F
  BY <1>3, BestFacts
<1> HIDE DEF h
<1>5. ToSet(h) \subseteq F
  BY <1>4 DEF Foremost
<1>6. U \in SUBSET Rankable /\ U \in SUBSET Found /\ IsFiniteSet(U) /\ Cardinality(U) \in Nat
      /\ Cardinality(U) <= Cardinality(Found)
  <2>1. U \in SUBSET Found
    BY <1>2, <1>5
  <2> QED
    BY <1>2, <2>1, FS_Subset, FS_CardinalityType
<1>7. ToSet(h) \in SUBSET U
  OBVIOUS
<1>8. (ToSet(h) = F => U = Found) /\ \A x : x \in U <=> x \in ToSet(h) \/ x \in Q
  BY <1>2
<1> HIDE DEF U
<1>9. /\ c \in Seq(U) /\ Len(c) \in Nat /\ Len(c) <= n /\ Len(c) <= Cardinality(U)
      /\ \A i, j \in DOMAIN c : i < j => Ahead(c[i], c[j])
      /\ Distinct(c) /\ Nearest(c)
      /\ Foremost(ToSet(c), U) /\ IsFiniteSet(ToSet(c)) /\ Cardinality(ToSet(c)) = Len(c)
      /\ Len(c) < n \/ Cardinality(U) <= n => ToSet(c) = U
  BY <1>6, BestFacts
<1> HIDE DEF c
<1>10. c \in Seq(Found)
  BY <1>6, <1>9
<1>11. ASSUME NEW x \in Found \ ToSet(c), NEW y \in ToSet(c) PROVE Ahead(y, x)
  <2>1. CASE x \in U
    BY <1>9, <2>1 DEF Foremost
  <2>2. CASE x \notin U
    <3>1. x \in F \ ToSet(h)
      BY <1>2, <1>8, <2>2
    <3>2. Len(h) = n /\ \A z \in ToSet(h) : Ahead(z, x)
      BY <1>4, <3>1 DEF Foremost
    <3>3. Cardinality(ToSet(c)) <= Cardinality(ToSet(h))
      BY <1>4, <1>9, <3>2
    <3>4. x \in Rankable \ U
      BY <1>2, <2>2
    <3> QED
      BY <1>6, <1>7, <1>9, <3>2, <3>3, <3>4, CutOff
  <2> QED
    BY <2>1, <2>2
<1>12. ToSet(c) \subseteq Found
  BY <1>6, <1>9 DEF Foremost
<1>13. ASSUME Len(c) < n \/ Cardinality(Found) <= n PROVE ToSet(c) = Found
  <2>1. ToSet(c) = U
    BY <1>2, <1>6, <1>9, <1>13
  <2>2. Cardinality(U) < n \/ Cardinality(Found) <= n
    BY <1>9, <1>13, <2>1
  <2>3. Cardinality(ToSet(h)) <= Cardinality(U)
    BY <1>6, <1>7, FS_Subset
  <2>4. Len(h) < n \/ Cardinality(F) <= n
    BY <1>2, <1>3, <1>4, <1>6, <2>2, <2>3
  <2> QED
    BY <1>4, <1>8, <2>1, <2>4
<1> QED
  BY <1>1, <1>9, <1>10, <1>11, <1>12, <1>13 DEF Foremost

\* A front of what is eligible, in order, is what a pass has to deliver.
LEMMA FrontDelivers ==
    ASSUME World, NEW t, NEW b, b \in Seq(Eligible(t)), Distinct(b), Nearest(b),
           Foremost(ToSet(b), Eligible(t)),
           GrowProves(t) /\ ~Short(t) => ToSet(b) = Eligible(t)
    PROVE  Delivers(t, b)
<1>1. Eligible(t) \in SUBSET Rankable /\ Eligible(t) \in SUBSET Row
  BY FoundFacts DEF Rankable
<1>2. b \in Seq(Row)
  BY <1>1
<1>3. ASSUME NEW x \in ToSet(b), NEW y \in Eligible(t) \ ToSet(b) PROVE Dist(x) <= Dist(y)
  <2>1. Ahead(x, y) /\ x \in Rankable /\ y \in Rankable
    BY <1>1 DEF Foremost
  <2> QED
    BY <2>1, AheadOrder
<1> QED
  BY <1>2, <1>3 DEF Delivers, Foremost

\* The part of a finite set that is as large as the set is the set.
LEMMA WholeSet ==
    ASSUME NEW S, IsFiniteSet(S), NEW P \in SUBSET S, Cardinality(S) <= Cardinality(P)
    PROVE  P = S
<1>1. /\ IsFiniteSet(P) /\ Cardinality(P) <= Cardinality(S)
      /\ Cardinality(P) = Cardinality(S) => P = S
  BY FS_Subset
<1>2. Cardinality(P) \in Nat /\ Cardinality(S) \in Nat
  BY <1>1, FS_CardinalityType
<1> QED
  BY <1>1, <1>2

\* New candidates are rows.
LEMMA UnseenType ==
    ASSUME NEW s, NEW b \in Seq(Row)
    PROVE  Unseen(s, b) \in Seq(Row)
<1>1. {i \in DOMAIN b : b[i] \notin ToSet(s.ordered)} \in SUBSET DOMAIN b
  OBVIOUS
<1> QED
  BY <1>1, PickFacts DEF Unseen

\* A pass changes the candidates, what it learns of the end, and at first the gate.
PassFields(s, t) ==
    /\ t \in ScanRecord
    /\ t.phase = s.phase /\ t.ordered = s.ordered /\ t.ordpos = s.ordpos
    /\ t.width = s.width /\ t.maxhits = s.maxhits /\ t.candpos = 0 /\ t.nulls = s.nulls

\* The gate stays, c are the candidates, f says whether there may be more.
PassSets(s, t, c, f) ==
    /\ PassFields(s, t) /\ t.plain = s.plain /\ t.plainRecheck = s.plainRecheck
    /\ t.gateLex = s.gateLex /\ t.cand = c /\ t.candfull = f

\* The three forms in which a pass writes its outcome.
Passed(s, c, f) == [s EXCEPT !.cand = c, !.candpos = 0, !.candfull = f]
PassedLanes(s, c, l, f) == [s EXCEPT !.cand = c, !.candpos = 0, !.lanes = l, !.candfull = f]
PassedNext(s, c, n, f) == [s EXCEPT !.cand = c, !.candpos = 0, !.next = n, !.candfull = f]

\* New candidates and flags make another record of the scan.
LEMMA PassUpdate ==
    ASSUME NEW s \in ScanRecord, NEW c \in Seq(Row), NEW f \in BOOLEAN
    PROVE  /\ PassSets(s, Passed(s, c, f), c, f)
           /\ \A l \in Nat : PassSets(s, PassedLanes(s, c, l, f), c, f)
           /\ \A n \in Nat : PassSets(s, PassedNext(s, c, n, f), c, f)
<1> DEFINE r1 == [s EXCEPT !.cand = c]
           r2 == [r1 EXCEPT !.candpos = 0]
<1>1. r1 \in ScanRecord
  BY DEF ScanRecord
<1>2. ASSUME NEW r \in ScanRecord PROVE [r EXCEPT !.candpos = 0] \in ScanRecord
  BY DEF ScanRecord
<1>3. ASSUME NEW r \in ScanRecord PROVE [r EXCEPT !.candfull = f] \in ScanRecord
  BY DEF ScanRecord
<1>4. ASSUME NEW r \in ScanRecord, NEW l \in Nat PROVE [r EXCEPT !.lanes = l] \in ScanRecord
  BY DEF ScanRecord
<1>5. ASSUME NEW r \in ScanRecord, NEW n \in Nat PROVE [r EXCEPT !.next = n] \in ScanRecord
  BY DEF ScanRecord
<1> HIDE DEF r1
<1>6. r2 \in ScanRecord
  BY <1>1, <1>2
<1> HIDE DEF r2
<1>7. PassSets(s, [s EXCEPT !.cand = c, !.candpos = 0, !.candfull = f], c, f)
  <2> DEFINE t == [s EXCEPT !.cand = c, !.candpos = 0, !.candfull = f]
  <2>1. t = [r2 EXCEPT !.candfull = f]
    BY DEF r1, r2
  <2>2. t \in ScanRecord
    BY <1>3, <1>6, <2>1
  <2>3. /\ t.phase = s.phase /\ t.ordered = s.ordered /\ t.ordpos = s.ordpos
        /\ t.width = s.width /\ t.maxhits = s.maxhits /\ t.candpos = 0 /\ t.nulls = s.nulls
        /\ t.plain = s.plain /\ t.plainRecheck = s.plainRecheck
        /\ t.gateLex = s.gateLex /\ t.cand = c /\ t.candfull = f
    BY DEF ScanRecord
  <2> QED
    BY <2>2, <2>3 DEF PassSets, PassFields
<1>8. ASSUME NEW l \in Nat
      PROVE  PassSets(s, [s EXCEPT !.cand = c, !.candpos = 0, !.lanes = l, !.candfull = f], c, f)
  <2> DEFINE t == [s EXCEPT !.cand = c, !.candpos = 0, !.lanes = l, !.candfull = f]
             r3 == [r2 EXCEPT !.lanes = l]
  <2>1. r3 \in ScanRecord
    BY <1>4, <1>6
  <2>2. t = [r3 EXCEPT !.candfull = f]
    BY DEF r1, r2
  <2> HIDE DEF r3
  <2>3. t \in ScanRecord
    BY <1>3, <2>1, <2>2
  <2>4. /\ t.phase = s.phase /\ t.ordered = s.ordered /\ t.ordpos = s.ordpos
        /\ t.width = s.width /\ t.maxhits = s.maxhits /\ t.candpos = 0 /\ t.nulls = s.nulls
        /\ t.plain = s.plain /\ t.plainRecheck = s.plainRecheck
        /\ t.gateLex = s.gateLex /\ t.cand = c /\ t.candfull = f
    BY DEF ScanRecord
  <2> QED
    BY <2>3, <2>4 DEF PassSets, PassFields
<1>9. ASSUME NEW n \in Nat
      PROVE  PassSets(s, [s EXCEPT !.cand = c, !.candpos = 0, !.next = n, !.candfull = f], c, f)
  <2> DEFINE t == [s EXCEPT !.cand = c, !.candpos = 0, !.next = n, !.candfull = f]
             r3 == [r2 EXCEPT !.next = n]
  <2>1. r3 \in ScanRecord
    BY <1>5, <1>6
  <2>2. t = [r3 EXCEPT !.candfull = f]
    BY DEF r1, r2
  <2> HIDE DEF r3
  <2>3. t \in ScanRecord
    BY <1>3, <2>1, <2>2
  <2>4. /\ t.phase = s.phase /\ t.ordered = s.ordered /\ t.ordpos = s.ordpos
        /\ t.width = s.width /\ t.maxhits = s.maxhits /\ t.candpos = 0 /\ t.nulls = s.nulls
        /\ t.plain = s.plain /\ t.plainRecheck = s.plainRecheck
        /\ t.gateLex = s.gateLex /\ t.cand = c /\ t.candfull = f
    BY DEF ScanRecord
  <2> QED
    BY <2>3, <2>4 DEF PassSets, PassFields
<1> QED
  BY <1>7, <1>8, <1>9 DEF Passed, PassedLanes, PassedNext

\* A lexical pass delivers.
LEMMA LexPass ==
    ASSUME World, NEW s \in ScanRecord, s.plain = NoGate, s.width >= 1,
           want.kind = "lex", NEW t, t = weave_ord_pass(s)
    PROVE  \E b \in Seq(Row) : Delivers(t, b) /\ PassSets(s, t, Unseen(s, b), t.candfull)
<1> DEFINE width == IF s.width = WidthMax THEN s.width + 1 ELSE s.width
           c == weave_topk_candidates_guarded(width)
           full == Len(c) >= width
           b == IF full THEN SubSeq(c, 1, s.width) ELSE c
<1>1. s.width \in Nat /\ s.maxhits \in Nat
  BY DEF ScanRecord
<1>2. width \in Nat /\ s.width <= width
  BY <1>1
<1>3. t = [NewCand(s, b) EXCEPT !.candfull = full]
  BY DEF weave_ord_pass
<1> HIDE DEF width
<1>4. /\ c \in Seq(Found) /\ Len(c) \in Nat /\ Len(c) <= width
      /\ \A i, j \in DOMAIN c : i < j => Ahead(c[i], c[j])
      /\ Distinct(c) /\ Nearest(c) /\ Foremost(ToSet(c), Found)
      /\ Len(c) < width \/ Cardinality(Found) <= width => ToSet(c) = Found
  BY <1>2, GuardedFacts
<1> HIDE DEF c
<1>5. Found \in SUBSET Rankable /\ IsFiniteSet(Found) /\ Cardinality(Found) \in Nat
  BY FoundFacts
<1>6. /\ b \in Seq(Found) /\ Distinct(b) /\ Nearest(b) /\ Foremost(ToSet(b), Found)
      /\ full => Cardinality(ToSet(b)) = s.width
  <2>1. CASE full
    <3>1. s.width \in 0..Len(c)
      BY <1>1, <1>2, <1>4, <2>1
    <3> QED
      BY <1>4, <1>5, <2>1, <3>1, PrefixFacts
  <2>2. CASE ~full
    BY <1>4, <2>2
  <2> QED
    BY <2>1, <2>2
<1>7. full \in BOOLEAN
  OBVIOUS
<1>8. b \in Seq(Row)
  BY <1>5, <1>6 DEF Rankable
<1>9. Unseen(s, b) \in Seq(Row)
  BY <1>8, UnseenType
<1>10. ~full \/ (s.width >= s.maxhits /\ ~(Cardinality(Found) > s.maxhits)) => ToSet(b) = Found
  <2>1. CASE ~full
    BY <1>2, <1>4, <2>1
  <2>2. CASE full /\ s.width >= s.maxhits /\ ~(Cardinality(Found) > s.maxhits)
    <3>1. Cardinality(Found) <= Cardinality(ToSet(b)) /\ ToSet(b) \in SUBSET Found
      BY <1>1, <1>5, <1>6, <2>2 DEF Foremost
    <3> QED
      BY <1>5, <3>1, WholeSet
  <2> QED
    BY <2>1, <2>2
<1> HIDE DEF b, full
<1>11. PassSets(s, t, Unseen(s, b), full)
  <2>1. t = Passed(s, Unseen(s, b), full)
    BY <1>3 DEF NewCand, ScanRecord, Passed
  <2> QED
    BY <1>7, <1>9, <2>1, PassUpdate
<1>12. Eligible(t) = Found
  BY <1>11, FoundFacts DEF PassSets
<1>13. GrowProves(t) /\ ~Short(t) => ToSet(b) = Eligible(t)
  BY <1>10, <1>11, <1>12 DEF GrowProves, Short, PassSets, PassFields
<1>14. Delivers(t, b)
  BY <1>6, <1>12, <1>13, FrontDelivers
<1> QED
  BY <1>8, <1>11, <1>14 DEF PassSets

\* The last of a sequence in order is as far as any.
LEMMA LastIsWorst ==
    ASSUME World, NEW S \in SUBSET Rankable, NEW b \in Seq(S), Nearest(b), Len(b) \in Nat, b # <<>>
    PROVE  /\ Last(b) \in ToSet(b) /\ Last(b) \in Rankable /\ Dist(Last(b)) \in Nat
           /\ \A x \in ToSet(b) : Dist(x) <= Dist(Last(b))
<1>1. Len(b) \in 1..Len(b) /\ DOMAIN b = 1..Len(b)
  OBVIOUS
<1>2. Last(b) = b[Len(b)] /\ Last(b) \in S
  BY <1>1 DEF Last
<1>3. ToSet(b) = {b[i] : i \in 1..Len(b)}
  BY <1>1 DEF ToSet
<1>4. Last(b) \in Rankable /\ Dist(Last(b)) \in Nat
  BY <1>2, DistFacts DEF Rankable
<1>5. ASSUME NEW x \in ToSet(b) PROVE Dist(x) <= Dist(Last(b))
  <2>1. PICK i \in 1..Len(b) : b[i] = x
    BY <1>3
  <2>2. i = Len(b) \/ i < Len(b)
    OBVIOUS
  <2>3. CASE i < Len(b)
    <3>1. Dist(b[i]) <= Dist(b[Len(b)])
      BY <1>1, <2>3 DEF Nearest
    <3> QED
      BY <1>2, <2>1, <3>1
  <2>4. CASE i = Len(b)
    BY <1>2, <1>4, <2>1, <2>4
  <2> QED
    BY <2>2, <2>3, <2>4
<1> QED
  BY <1>1, <1>2, <1>3, <1>4, <1>5

\* A vector pass delivers: a bolt's lanes are at least its ranked rows, so a pass as wide as
\* the lanes has them all; and beyond the worst hit of any other pass no pending row is taken.
LEMMA VecPass ==
    ASSUME World, NEW s \in ScanRecord, s.plain = NoGate, s.width >= 1,
           want.kind = "vec", NEW t, t = weave_vec_pass(s)
    PROVE  \E b \in Seq(Row) : Delivers(t, b) /\ PassSets(s, t, Unseen(s, b), t.candfull)
<1> DEFINE F == {r \in Flushed : Ranks(r)}
           Q == {r \in Pending : Ranks(r)}
           hits == Best(F, s.width)
           done == Len(hits) < s.width \/ s.width >= nlane
           pend == {r \in Q : ~done /\ hits # <<>> => Dist(r) <= Dist(Last(hits))}
           U == ToSet(hits) \cup pend
           b == Best(U, Cardinality(Row))
<1>1. t = [NewCand(s, b) EXCEPT !.lanes = nlane, !.candfull = ~done]
  BY DEF weave_vec_pass, weave_vec_topk_guarded, weave_vec_collect_pending
<1>2. s.width \in Nat
  BY DEF ScanRecord
<1>3. F \cup Q = Found /\ Found \in SUBSET Rankable /\ IsFiniteSet(Found) /\ Cardinality(Found) \in Nat
  BY FoundFacts
<1>4. nlane \in Nat /\ Cardinality(F) <= nlane /\ F \in SUBSET Rankable
  <2> DEFINE L == {r \in Row : place[r] \in Bolts}
  <2>1. IsFiniteSet(L) /\ Cardinality(L) \in Nat
    BY RowFacts
  <2>2. F \in SUBSET L
    BY DEF Flushed
  <2>3. Cardinality(F) <= Cardinality(L)
    BY <2>1, <2>2, FS_Subset
  <2> QED
    BY <1>3, <2>1, <2>3 DEF nlane
<1>5. Row \in SUBSET Nat /\ Cardinality(Row) \in Nat
  BY RowFacts
<1> HIDE DEF F, Q
<1>6. /\ hits \in Seq(F) /\ Len(hits) \in Nat /\ Len(hits) <= s.width
      /\ Distinct(hits) /\ Nearest(hits) /\ Foremost(ToSet(hits), F)
      /\ Cardinality(ToSet(hits)) = Len(hits)
      /\ Len(hits) < s.width \/ Cardinality(F) <= s.width => ToSet(hits) = F
  BY <1>2, <1>4, BestFacts
<1> HIDE DEF hits
<1>7. done => ToSet(hits) = F
  BY <1>2, <1>4, <1>6, FS_CardinalityType, RowFacts DEF Rankable
<1>8. ~done => hits # <<>>
  BY <1>2, <1>6
<1>9. ASSUME ~done
      PROVE  /\ Last(hits) \in ToSet(hits) /\ Last(hits) \in Rankable
             /\ \A x \in ToSet(hits) : Dist(x) <= Dist(Last(hits))
  BY <1>4, <1>6, <1>8, <1>9, LastIsWorst
<1>10. U \in SUBSET Rankable /\ U \in SUBSET Row /\ U \in SUBSET Found
  BY <1>3, <1>6 DEF Rankable, Foremost
<1>11. ToSet(hits) \subseteq U /\ pend \subseteq U /\ \A x \in U : x \in ToSet(hits) \/ x \in pend
  OBVIOUS
<1>12. done => U = Found
  BY <1>3, <1>7
<1>13. ~done => \A x \in U : Dist(x) <= Dist(Last(hits))
  BY <1>8, <1>9
<1>14. ASSUME NEW x \in U, NEW y \in Found \ U PROVE Dist(x) <= Dist(y)
  <2>1. ~done /\ hits # <<>>
    BY <1>8, <1>12
  <2>2. x \in Rankable /\ y \in Rankable /\ Dist(x) \in Nat /\ Dist(y) \in Nat
    BY <1>3, <1>10, DistFacts DEF Rankable
  <2>3. Dist(x) <= Dist(Last(hits)) /\ Dist(Last(hits)) \in Nat
    BY <1>9, <1>13, <2>1, DistFacts DEF Rankable
  <2>4. CASE y \in F
    <3>1. Ahead(Last(hits), y)
      BY <1>6, <1>9, <1>11, <2>1, <2>4 DEF Foremost
    <3>2. Dist(Last(hits)) <= Dist(y)
      BY <1>9, <2>1, <2>2, <3>1, AheadOrder
    <3> QED
      BY <2>2, <2>3, <3>2
  <2>5. CASE y \in Q
    <3>1. ~(Dist(y) <= Dist(Last(hits)))
      BY <1>11, <2>1, <2>5
    <3> QED
      BY <2>2, <2>3, <3>1
  <2> QED
    BY <1>3, <2>4, <2>5
<1> HIDE DEF U, done
<1>15. IsFiniteSet(Row) /\ Cardinality(U) <= Cardinality(Row)
  BY <1>10, RowFacts, FS_Subset
<1>16. /\ b \in Seq(U) /\ Distinct(b) /\ Nearest(b) /\ ToSet(b) = U
  BY <1>5, <1>10, <1>15, BestFacts
<1> HIDE DEF b
<1>17. b \in Seq(Row)
  BY <1>10, <1>16
<1>18. Unseen(s, b) \in Seq(Row)
  BY <1>17, UnseenType
<1>19. PassSets(s, t, Unseen(s, b), ~done)
  <2>1. t = PassedLanes(s, Unseen(s, b), nlane, ~done)
    BY <1>1 DEF NewCand, ScanRecord, PassedLanes
  <2>2. (~done) \in BOOLEAN
    OBVIOUS
  <2> QED
    BY <1>4, <1>18, <2>1, <2>2, PassUpdate
<1>20. Eligible(t) = Found
  BY <1>19, FoundFacts DEF PassSets
<1>21. Delivers(t, b)
  BY <1>10, <1>12, <1>14, <1>16, <1>17, <1>19, <1>20 DEF Delivers, GrowProves, PassSets
<1> QED
  BY <1>17, <1>19, <1>21 DEF PassSets

\* What an edit distance pass at a threshold reads is all that is found within it, and the
\* next threshold is infinite only if nothing lies beyond.
LEMMA EdistFacts ==
    ASSUME World, want.kind = "edist", NEW thr \in Nat
    PROVE  /\ EdistHits(thr) = {r \in Found : Dist(r) <= thr}
           /\ EdistNext(thr) \in Nat
           /\ EdistNext(thr) = NoThreshold => \A r \in Found : Dist(r) <= thr
<1> DEFINE W == edist_shuttle_words
           read == {d \in W : weave_edist_block_lower(d) <= thr}
           pages == {weave_edist_block_lower(d) : d \in W \ read}
           words == {weave_edist_shuttle_dist_le(d, thr) : d \in {x \in read : x > thr}}
           P == {r \in Pending : Ranks(r)}
           pend == {d \in {Dist(r) : r \in P} : d > thr}
           A == ({NoThreshold} \cup pages) \cup (words \cup pend)
<1>1. INF \in Nat /\ NoThreshold \in Nat /\ INF < NoThreshold /\ want.slack \in Nat
  BY RankBounds, KeyFacts DEF NoThreshold
<1>2. \A r \in Row : /\ rows[r].words \in SUBSET (0..(INF - 1)) /\ rows[r].words \in SUBSET Nat
                     /\ rows[r].nulldoc \in BOOLEAN
  BY <1>1, RowFacts DEF RowType
<1>3. \A r \in Row : Ranks(r) <=> ~rows[r].nulldoc /\ rows[r].words # {}
  BY DEF Ranks
<1>4. \A r \in Row : Dist(r) = Min(rows[r].words)
  BY DEF Dist
<1>5. ASSUME NEW r \in Row, rows[r].words # {}
      PROVE  Dist(r) \in rows[r].words /\ \A d \in rows[r].words : Dist(r) <= d
  BY <1>2, <1>4, <1>5, LeastNat
<1>6. \A d : d \in W <=> \E r \in Row : place[r] \in Bolts /\ d \in rows[r].words
  BY DEF edist_shuttle_words
<1>7. \A d \in W : d \in Nat /\ d < INF
  BY <1>1, <1>2, <1>6
<1>8. ASSUME NEW d \in W
      PROVE  weave_edist_block_lower(d) \in Nat /\ weave_edist_block_lower(d) <= d
  <2> DEFINE e == d - want.slack
  <2>1. d \in Nat /\ e \in Int /\ e <= d
    BY <1>1, <1>7
  <2>2. weave_edist_block_lower(d) = Max({0, e})
    BY DEF weave_edist_block_lower
  <2> DEFINE z == 0
  <2>3. z \in Int
    OBVIOUS
  <2> HIDE DEF e, z
  <2>4. Max({z, e}) \in {z, e} /\ z <= Max({z, e})
    BY <2>1, <2>3, TwoOf
  <2> QED
    BY <2>1, <2>2, <2>4 DEF z
<1>9. \A d \in W : /\ weave_edist_shuttle_dist_le(d, thr) <= thr <=> d <= thr
                   /\ d > thr => weave_edist_shuttle_dist_le(d, thr) = thr + 1
  BY <1>7 DEF weave_edist_shuttle_dist_le
<1> HIDE DEF W
<1>10. \A d \in W : d <= thr => weave_edist_block_lower(d) <= thr
  BY <1>7, <1>8
<1> DEFINE D == {x \in W : weave_edist_block_lower(x) <= thr /\ weave_edist_shuttle_dist_le(x, thr) <= thr}
           C == {edist_collect_term(d) : d \in D}
<1>11. EdistHits(thr) = (UNION C) \cup edist_collect_pending(thr)
  BY DEF EdistHits, W
<1>11a. \A r : r \in UNION C <=> \E d \in D : r \in edist_collect_term(d)
  <2> HIDE DEF D
  <2> QED
    OBVIOUS
<1>12. \A r : r \in EdistHits(thr) <=>
          \/ r \in Flushed /\ ~rows[r].nulldoc /\ \E d \in W : d <= thr /\ d \in rows[r].words
          \/ r \in P /\ Dist(r) <= thr
  <2>1. \A d, r : r \in edist_collect_term(d) <=> r \in Flushed /\ ~rows[r].nulldoc /\ d \in rows[r].words
    BY DEF edist_collect_term
  <2>2. \A r : r \in edist_collect_pending(thr) <=> r \in P /\ Dist(r) <= thr
    BY DEF edist_collect_pending
  <2>3. \A d : d \in D <=> d \in W /\ d <= thr
    BY <1>9, <1>10
  <2> HIDE DEF P, C, D
  <2> QED
    BY <1>11, <1>11a, <2>1, <2>2, <2>3
<1>13. /\ Live = Flushed \cup Pending /\ Flushed \subseteq Row /\ Pending \subseteq Row
       /\ \A r \in Flushed : place[r] \in Bolts
  BY LiveFacts
<1>14. \A r \in Row : rows[r].words # {} => Dist(r) \in Nat
  BY <1>2, <1>5
<1>15. ASSUME NEW r \in Flushed, Ranks(r) PROVE Dist(r) \in W /\ Dist(r) \in rows[r].words
  BY <1>3, <1>5, <1>6, <1>13, <1>15
<1>16. ASSUME NEW r \in EdistHits(thr) PROVE r \in Found /\ Dist(r) <= thr
  <2>1. CASE r \in P /\ Dist(r) <= thr
    BY <1>13, <2>1 DEF Found
  <2>2. CASE r \in Flushed /\ ~rows[r].nulldoc /\ \E d \in W : d <= thr /\ d \in rows[r].words
    <3>1. PICK d \in W : d <= thr /\ d \in rows[r].words
      BY <2>2
    <3>2. r \in Row /\ rows[r].words # {} /\ Dist(r) <= d /\ Dist(r) \in Nat
      BY <1>5, <1>13, <1>14, <2>2, <3>1
    <3> QED
      BY <1>3, <1>7, <1>13, <2>2, <3>1, <3>2 DEF Found
  <2> QED
    BY <1>12, <2>1, <2>2
<1>17. ASSUME NEW r \in Found, Dist(r) <= thr PROVE r \in EdistHits(thr)
  <2>1. r \in Live /\ Ranks(r)
    BY DEF Found
  <2>2. CASE r \in Pending
    BY <1>12, <1>17, <2>1, <2>2
  <2>3. CASE r \in Flushed
    BY <1>3, <1>12, <1>13, <1>15, <1>17, <2>1, <2>3
  <2> QED
    BY <1>13, <2>1, <2>2, <2>3
<1>18. A \in SUBSET Nat /\ A # {} /\ EdistNext(thr) = Min(A)
  <2>1. EdistNext(thr) = Min({NoThreshold} \cup pages \cup words \cup pend)
    BY DEF EdistNext, W
  <2>2. A = {NoThreshold} \cup pages \cup words \cup pend
    OBVIOUS
  <2>3. pages \in SUBSET Nat /\ words \in SUBSET Nat
    BY <1>8, <1>9
  <2>4. pend \in SUBSET Nat
    BY <1>3, <1>13, <1>14
  <2> QED
    BY <1>1, <2>1, <2>2, <2>3, <2>4
<1>18a. NoThreshold \in A /\ pages \subseteq A /\ words \subseteq A /\ pend \subseteq A
  OBVIOUS
<1> HIDE DEF A
<1>19. Min(A) \in Nat /\ \A x \in A : Min(A) <= x
  BY <1>18, LeastNat
<1>20. ASSUME EdistNext(thr) = NoThreshold, NEW r \in Found, ~(Dist(r) <= thr) PROVE FALSE
  <2>1. r \in Live /\ Ranks(r) /\ r \in Row
    BY <1>13 DEF Found
  <2>2. Dist(r) \in Nat /\ Dist(r) < INF /\ Dist(r) > thr
    BY <1>20, <2>1, DistFacts
  <2>3. \A x \in A : x \in Nat /\ ~(x < INF)
    BY <1>1, <1>18, <1>19, <1>20
  <2>4. CASE r \in Pending
    <3>1. Dist(r) \in pend
      BY <2>1, <2>2, <2>4
    <3> QED
      BY <1>18a, <2>2, <2>3, <3>1
  <2>5. CASE r \in Flushed
    <3>1. Dist(r) \in W
      BY <1>15, <2>1, <2>5
    <3>2. CASE Dist(r) \in read
      <4>1. weave_edist_shuttle_dist_le(Dist(r), thr) \in words
        BY <2>2, <3>2
      <4>2. thr + 1 \in A
        BY <1>9, <1>18a, <2>2, <3>1, <4>1
      <4>3. thr + 1 < INF
        BY <1>1, <2>2
      <4> QED
        BY <2>3, <4>2, <4>3
    <3>3. CASE Dist(r) \notin read
      <4>1. weave_edist_block_lower(Dist(r)) \in pages
        BY <3>1, <3>3
      <4>2. weave_edist_block_lower(Dist(r)) \in Nat /\ weave_edist_block_lower(Dist(r)) <= Dist(r)
        BY <1>8, <3>1
      <4> QED
        BY <1>1, <1>18a, <2>2, <2>3, <4>1, <4>2
    <3> QED
      BY <3>2, <3>3
  <2> QED
    BY <1>13, <2>1, <2>4, <2>5
<1> QED
  BY <1>16, <1>17, <1>18, <1>19, <1>20

\* An edit distance pass delivers what lies within its threshold.
LEMMA EdistPass ==
    ASSUME World, NEW s, NEW g \in ScanRecord, g = EdistGate(s), g.thr = s.thr,
           want.kind = "edist", NEW t, t = weave_edist_pass(s)
    PROVE  \E b \in Seq(Row) : Delivers(t, b) /\ PassSets(g, t, Unseen(g, b), t.candfull)
<1> DEFINE H == {r \in EdistHits(g.thr) : Gated(g, r)}
           b == Best(H, Cardinality(Row))
           f == EdistNext(g.thr) # NoThreshold
<1>1. t = [NewCand(g, b) EXCEPT !.next = EdistNext(g.thr), !.candfull = f]
  BY DEF weave_edist_pass
<1>2. g.thr \in Nat
  BY DEF ScanRecord
<1>3. /\ EdistHits(g.thr) = {r \in Found : Dist(r) <= g.thr}
      /\ EdistNext(g.thr) \in Nat
      /\ ~f => \A r \in Found : Dist(r) <= g.thr
  BY <1>2, EdistFacts
<1>4. Found \in SUBSET Rankable /\ Cardinality(Row) \in Nat /\ IsFiniteSet(Row) /\ Row \in SUBSET Nat
  BY FoundFacts, RowFacts
<1>5. \A x : x \in H <=> x \in Eligible(g) /\ Dist(x) <= g.thr
  BY <1>3 DEF Eligible, Found
<1>6. H \in SUBSET Rankable /\ H \in SUBSET Row /\ f \in BOOLEAN
  BY <1>3, <1>4 DEF Rankable
<1> HIDE DEF H, f
<1>7. Cardinality(H) <= Cardinality(Row)
  BY <1>4, <1>6, FS_Subset
<1>8. b \in Seq(H) /\ Distinct(b) /\ Nearest(b) /\ ToSet(b) = H
  BY <1>4, <1>6, <1>7, BestFacts
<1> HIDE DEF b
<1>9. b \in Seq(Row)
  BY <1>6, <1>8
<1>10. PassSets(g, t, Unseen(g, b), f)
  <2>1. t = PassedNext(g, Unseen(g, b), EdistNext(g.thr), f)
    BY <1>1 DEF NewCand, ScanRecord, PassedNext
  <2> QED
    BY <1>3, <1>6, <1>9, <2>1, UnseenType, PassUpdate
<1>11. Eligible(t) = Eligible(g)
  BY <1>10 DEF Eligible, Gated, PassSets
<1>12. ASSUME NEW x \in H, NEW y \in Eligible(t) \ H PROVE Dist(x) <= Dist(y)
  <2>1. Dist(x) <= g.thr /\ ~(Dist(y) <= g.thr) /\ x \in Rankable /\ y \in Rankable
    BY <1>4, <1>5, <1>6, <1>11, FoundFacts
  <2>2. Dist(x) \in Nat /\ Dist(y) \in Nat
    BY <2>1, DistFacts DEF Rankable
  <2> QED
    BY <1>2, <2>1, <2>2
<1>13. GrowProves(t) => Eligible(t) \subseteq H
  <2>1. GrowProves(t) => ~f
    BY <1>10 DEF GrowProves, PassSets
  <2> QED
    BY <1>3, <1>5, <1>11, <2>1, FoundFacts
<1>14. H \subseteq Eligible(t)
  BY <1>5, <1>11
<1>15. Delivers(t, b)
  BY <1>8, <1>9, <1>12, <1>13, <1>14 DEF Delivers
<1> QED
  BY <1>9, <1>10, <1>15 DEF PassSets

\* A fused pass delivers: each bolt gives its best, their best is kept when one was full,
\* and pending rows beyond the worst of those wait.
LEMMA FusePass ==
    ASSUME World, NEW s, FuseGate(s) \in ScanRecord, FuseGate(s).width >= 1,
           want.kind = "fuse", NEW t, t = weave_fuse_pass(s)
    PROVE  \E b \in Seq(Row) : Delivers(t, b) /\ PassSets(FuseGate(s), t, Unseen(FuseGate(s), b), t.candfull)
<1> DEFINE g == FuseGate(s)
           width == IF g.width = WidthMax THEN g.width + 1 ELSE g.width
           D(b) == {r \in (IF weave_fuse_has_vec THEN fuse_vec_lanes(b) ELSE fuse_lex_docs(b)) : Gated(g, r)}
           h(b) == Best(D(b), width)
           complete == \A b \in Bolts : Len(h(b)) < width
           A == UNION {ToSet(h(b)) : b \in Bolts}
           all == Best(A, Cardinality(Row))
           acc == IF complete THEN all ELSE SubSeq(all, 1, Min({Len(all), g.width}))
           last == complete \/ g.width >= g.maxhits \/ acc = <<>>
           Q == {r \in Pending : Ranks(r) /\ Gated(g, r)}
           pend == {r \in Q : last \/ Dist(r) <= Dist(Last(acc))}
           U == ToSet(acc) \cup pend
           c == Best(U, Cardinality(Row))
           enough == ~(Cardinality(Found) > g.maxhits)
<1>1. g.width \in Nat /\ g.maxhits \in Nat /\ g.width >= 1 /\ g \in ScanRecord
  BY DEF ScanRecord
<1>2. width \in Nat /\ g.width <= width
  BY <1>1
<1>3. t = IF g.plain = {} THEN Passed(g, <<>>, FALSE)
          ELSE [NewCand(g, c) EXCEPT !.candfull = ~complete]
  <2> DEFINE hits == [b \in Bolts |-> weave_fuse_bolt(g, b, width)]
  <2>1. \A b \in Bolts : hits[b] = h(b)
    BY DEF weave_fuse_bolt
  <2>2. {ToSet(hits[b]) : b \in Bolts} = {ToSet(h(b)) : b \in Bolts}
    BY <2>1
  <2>3. (\A b \in Bolts : Len(hits[b]) < width) <=> complete
    BY <2>1
  <2>4. weave_fuse_pass(s) = IF g.plain = {} THEN Passed(g, <<>>, FALSE)
          ELSE LET cm == \A b \in Bolts : Len(hits[b]) < width
                   al == Best(UNION {ToSet(hits[b]) : b \in Bolts}, Cardinality(Row))
                   ac == IF cm THEN al ELSE SubSeq(al, 1, Min({Len(al), g.width}))
                   la == cm \/ g.width >= g.maxhits \/ ac = <<>>
                   pe == {r \in Q : la \/ Dist(r) <= Dist(Last(ac))}
               IN [NewCand(g, Best(ToSet(ac) \cup pe, Cardinality(Row))) EXCEPT !.candfull = ~cm]
    BY DEF weave_fuse_pass, weave_fuse_collect_pending, Passed
  <2> HIDE DEF hits
  <2> QED
    BY <2>2, <2>3, <2>4
<1> HIDE DEF width, g
<1>4. Found \in SUBSET Rankable /\ IsFiniteSet(Found) /\ Cardinality(Found) \in Nat
      /\ Eligible(g) \subseteq Found /\ Cardinality(Row) \in Nat /\ IsFiniteSet(Row)
  BY FoundFacts, RowFacts
<1>5. \A r \in Row : Ranks(r) <=> IF weave_fuse_has_vec THEN rows[r].vec /\ (HasLexChan => ~rows[r].nulldoc)
                                  ELSE ~rows[r].nulldoc /\ rows[r].terms # {}
  BY DEF Ranks
<1>6. \A b \in Bolts : \A r : r \in D(b) <=> r \in Flushed /\ place[r] = b /\ Ranks(r) /\ Gated(g, r)
  <2>1. \A b \in Bolts : \A r : r \in InBolt(b) <=> r \in Flushed /\ place[r] = b
    BY DEF InBolt, Flushed
  <2>2. InBolt({}) \subseteq Row /\ \A b : InBolt(b) \subseteq Row
    BY DEF InBolt
  <2>3. \A b : \A r : r \in (IF weave_fuse_has_vec THEN fuse_vec_lanes(b) ELSE fuse_lex_docs(b))
                 <=> r \in InBolt(b) /\ Ranks(r)
    BY <1>5, <2>2 DEF fuse_vec_lanes, weave_fuse_vec_warpmap, fuse_lex_docs
  <2> QED
    BY <2>1, <2>3
<1>7. Eligible(g) = {r \in Flushed : Ranks(r) /\ Gated(g, r)} \cup Q
  BY LiveFacts DEF Eligible
<1>8. \A r \in Flushed : place[r] \in Bolts /\ r \in Row
  BY LiveFacts
<1> DEFINE F == {r \in Flushed : Ranks(r) /\ Gated(g, r)}
<1>9. F \in SUBSET Rankable /\ F \in SUBSET Found /\ Q \in SUBSET Rankable /\ Q \in SUBSET Found
  BY <1>4, <1>7
<1>10. /\ \A b \in Bolts : D(b) \in SUBSET F
       /\ \A r \in F : \E b \in Bolts : r \in D(b)
  BY <1>6, <1>8
<1>11. Eligible(g) = F \cup Q
  BY <1>7
<1> HIDE DEF D, F, Q
<1>12. ASSUME NEW b \in Bolts
       PROVE  /\ Len(h(b)) \in Nat /\ Len(h(b)) <= width
              /\ Foremost(ToSet(h(b)), D(b)) /\ Cardinality(ToSet(h(b))) = Len(h(b))
              /\ Len(h(b)) < width => ToSet(h(b)) = D(b)
  <2>1. D(b) \in SUBSET Rankable
    BY <1>9, <1>10
  <2> QED
    BY <1>2, <2>1, BestFacts
<1> HIDE DEF h
<1>13. /\ A \in SUBSET F /\ \A b \in Bolts : ToSet(h(b)) \in SUBSET A
       /\ \A x \in F \ A : \E b \in Bolts : x \in D(b) \ ToSet(h(b))
  BY <1>10, <1>12 DEF Foremost
<1> HIDE DEF A
<1>14. A \in SUBSET Rankable /\ A \in SUBSET Row /\ IsFiniteSet(A) /\ Cardinality(A) <= Cardinality(Row)
       /\ Cardinality(A) \in Nat
  <2>1. A \in SUBSET Row
    BY <1>9, <1>13 DEF Rankable
  <2> QED
    BY <1>4, <1>9, <1>13, <2>1, FS_Subset, FS_CardinalityType
<1>15. /\ all \in Seq(A) /\ Len(all) \in Nat /\ ToSet(all) = A /\ Cardinality(A) = Len(all)
       /\ \A i, j \in DOMAIN all : i < j => Ahead(all[i], all[j])
       /\ Distinct(all) /\ Nearest(all) /\ Foremost(ToSet(all), A)
  BY <1>4, <1>14, BestFacts
<1> HIDE DEF all
<1>16. complete => A = F
  BY <1>12, <1>13
<1>17. ASSUME ~complete
       PROVE  Len(all) >= g.width /\ \E b \in Bolts : Cardinality(ToSet(h(b))) = width
  <2>1. PICK b \in Bolts : ~(Len(h(b)) < width)
    BY <1>17
  <2>2. Cardinality(ToSet(h(b))) = width
    BY <1>2, <1>12, <2>1
  <2>3. Cardinality(ToSet(h(b))) <= Cardinality(A)
    BY <1>13, <1>14, FS_Subset
  <2> QED
    BY <1>1, <1>2, <1>15, <2>2, <2>3
<1> HIDE DEF complete
<1>18. /\ acc \in Seq(A) /\ Distinct(acc) /\ Nearest(acc) /\ Foremost(ToSet(acc), A)
       /\ complete => ToSet(acc) = A
       /\ ~complete => Cardinality(ToSet(acc)) = g.width /\ Len(acc) = g.width
       /\ Len(acc) \in Nat
  <2>1. CASE complete
    BY <1>15, <2>1
  <2>2. CASE ~complete
    <3> DEFINE m == Min({Len(all), g.width})
    <3>1. m = g.width
      <4> DEFINE a == Len(all)
                 w == g.width
      <4>1. a \in Int /\ w \in Int /\ w <= a
        BY <1>1, <1>15, <1>17, <2>2
      <4> HIDE DEF a, w
      <4>2. Min({a, w}) \in {a, w} /\ Min({a, w}) <= a /\ Min({a, w}) <= w
        BY <4>1, TwoOf
      <4>3. Min({a, w}) = w
        BY <4>1, <4>2
      <4> QED
        BY <4>3 DEF a, w
    <3>2. m \in 0..Len(all)
      BY <1>1, <1>15, <1>17, <2>2, <3>1
    <3>3. acc = SubSeq(all, 1, m)
      BY <2>2
    <3> HIDE DEF m, acc
    <3>4. /\ SubSeq(all, 1, m) \in Seq(A) /\ Len(SubSeq(all, 1, m)) = m
          /\ Distinct(SubSeq(all, 1, m)) /\ Nearest(SubSeq(all, 1, m))
          /\ Foremost(ToSet(SubSeq(all, 1, m)), A) /\ Cardinality(ToSet(SubSeq(all, 1, m))) = m
      BY <1>14, <1>15, <3>2, PrefixFacts
    <3> QED
      BY <1>1, <2>2, <3>1, <3>3, <3>4
  <2> QED
    BY <2>1, <2>2
<1> HIDE DEF acc
<1>19. ToSet(acc) \subseteq A
  BY <1>18 DEF Foremost
<1>20. ~complete => acc # <<>>
  BY <1>1, <1>18
<1>21. ASSUME ~complete, NEW x \in F \ ToSet(acc), NEW y \in ToSet(acc) PROVE Ahead(y, x)
  <2>1. CASE x \in A
    BY <1>18, <2>1 DEF Foremost
  <2>2. CASE x \notin A
    <3>1. PICK b \in Bolts : x \in D(b) \ ToSet(h(b))
      BY <1>13, <2>2
    <3>2. Len(h(b)) = width /\ \A z \in ToSet(h(b)) : Ahead(z, x)
      BY <1>2, <1>12, <3>1 DEF Foremost
    <3>3. Cardinality(ToSet(acc)) <= Cardinality(ToSet(h(b)))
      BY <1>1, <1>2, <1>12, <1>18, <1>21, <3>2
    <3>4. x \in Rankable \ A /\ ToSet(h(b)) \in SUBSET A
      BY <1>9, <1>13, <2>2
    <3> QED
      BY <1>14, <1>18, <3>2, <3>3, <3>4, CutOff
  <2> QED
    BY <2>1, <2>2
<1>22. ASSUME ~complete, g.width >= g.maxhits, enough PROVE ToSet(acc) = Found
  <2>1. Cardinality(Found) <= Cardinality(ToSet(acc)) /\ ToSet(acc) \in SUBSET Found
    BY <1>1, <1>4, <1>9, <1>13, <1>18, <1>19, <1>22
  <2> QED
    BY <1>4, <2>1, WholeSet
<1>23. /\ U \in SUBSET Eligible(g) /\ ToSet(acc) \subseteq U
       /\ \A x \in U : x \in ToSet(acc) \/ (x \in Q /\ (last \/ Dist(x) <= Dist(Last(acc))))
       /\ \A x \in Q \ U : ~last /\ ~(Dist(x) <= Dist(Last(acc)))
  <2> HIDE DEF last
  <2>1. pend \subseteq Q /\ \A x \in pend : last \/ Dist(x) <= Dist(Last(acc))
    OBVIOUS
  <2>2. \A x \in Q \ pend : ~last /\ ~(Dist(x) <= Dist(Last(acc)))
    OBVIOUS
  <2>3. U = ToSet(acc) \cup pend
    OBVIOUS
  <2> HIDE DEF pend, U
  <2>4. \A x \in U : x \in ToSet(acc) \/ (x \in Q /\ (last \/ Dist(x) <= Dist(Last(acc))))
    BY <2>1, <2>3
  <2>5. \A x \in Q \ U : ~last /\ ~(Dist(x) <= Dist(Last(acc)))
    BY <2>2, <2>3
  <2> QED
    BY <1>11, <1>13, <1>19, <2>1, <2>3, <2>4, <2>5
<1>24. complete => U = Eligible(g)
  <2>1. ASSUME complete PROVE last
    BY <2>1
  <2> QED
    BY <1>11, <1>16, <1>18, <1>23, <2>1
<1>25. g.width >= g.maxhits /\ enough => U = Eligible(g)
  BY <1>4, <1>22, <1>23, <1>24
<1>26. last /\ ~complete => g.width >= g.maxhits
  BY <1>20
<1>27. U \in SUBSET Rankable /\ U \in SUBSET Row
  BY <1>4, <1>23 DEF Rankable
<1> HIDE DEF U, last
<1>28. ASSUME g.width >= g.maxhits => complete \/ enough, NEW x \in U, NEW y \in Eligible(g) \ U
       PROVE  Dist(x) <= Dist(y)
  <2>1. ~complete /\ ~last /\ acc # <<>>
    BY <1>20, <1>24, <1>25, <1>26, <1>28
  <2>2. /\ Last(acc) \in ToSet(acc) /\ Last(acc) \in Rankable /\ Dist(Last(acc)) \in Nat
        /\ \A z \in ToSet(acc) : Dist(z) <= Dist(Last(acc))
    BY <1>14, <1>18, <2>1, LastIsWorst
  <2>3. x \in Rankable /\ y \in Rankable /\ Dist(x) \in Nat /\ Dist(y) \in Nat
    BY <1>4, <1>27, DistFacts DEF Rankable
  <2>4. Dist(x) <= Dist(Last(acc))
    BY <1>23, <2>1, <2>2
  <2>5. CASE y \in F
    <3>1. Ahead(Last(acc), y)
      BY <1>21, <1>23, <2>1, <2>2, <2>5
    <3>2. Dist(Last(acc)) <= Dist(y)
      BY <2>2, <2>3, <3>1, AheadOrder
    <3> QED
      BY <2>2, <2>3, <2>4, <3>2
  <2>6. CASE y \in Q
    BY <1>23, <2>2, <2>3, <2>4, <2>6
  <2> QED
    BY <1>11, <2>5, <2>6
<1>29. Cardinality(U) <= Cardinality(Row)
  BY <1>4, <1>27, FS_Subset
<1>30. c \in Seq(U) /\ Distinct(c) /\ Nearest(c) /\ ToSet(c) = U
  BY <1>4, <1>27, <1>29, BestFacts
<1> HIDE DEF c
<1>31. c \in Seq(Row)
  BY <1>27, <1>30
<1>32. CASE g.plain # {}
  <2>1. PassSets(g, t, Unseen(g, c), ~complete)
    <3>1. t = Passed(g, Unseen(g, c), ~complete)
      BY <1>1, <1>3, <1>32 DEF NewCand, ScanRecord, Passed
    <3>2. (~complete) \in BOOLEAN
      OBVIOUS
    <3> QED
      BY <1>1, <1>31, <3>1, <3>2, UnseenType, PassUpdate
  <2>2. Eligible(t) = Eligible(g)
    BY <2>1 DEF Eligible, Gated, PassSets
  <2>3. GrowProves(t) /\ ~Short(t) => U = Eligible(g)
    BY <1>24, <1>25, <2>1 DEF GrowProves, Short, PassSets, PassFields
  <2>4. (GrowProves(t) => ~Short(t)) => (g.width >= g.maxhits => complete \/ enough)
    BY <2>1 DEF GrowProves, Short, PassSets, PassFields
  <2>5. (GrowProves(t) => ~Short(t)) =>
          \A x \in U : \A y \in Eligible(g) \ U : Dist(x) <= Dist(y)
    BY <1>28, <2>4
  <2>6. Delivers(t, c)
    BY <1>23, <1>30, <1>31, <2>2, <2>3, <2>5 DEF Delivers
  <2> QED
    BY <1>31, <2>1, <2>6 DEF PassSets, g
<1>33. CASE g.plain = {}
  <2> DEFINE e == <<>>
  <2>1. e \in Seq(Row) /\ ToSet(e) = {} /\ Distinct(e) /\ Nearest(e)
    BY DEF ToSet, Distinct, Nearest
  <2>2. Unseen(g, e) = e
    <3> DEFINE P == {i \in DOMAIN e : e[i] \notin ToSet(g.ordered)}
    <3>1. P = {} /\ P \in SUBSET DOMAIN e
      OBVIOUS
    <3>2. Unseen(g, e) = Pick(e, P)
      BY DEF Unseen
    <3> HIDE DEF P, e
    <3>3. Pick(e, P) \in Seq(Row) /\ Len(Pick(e, P)) = Cardinality(P)
      BY <2>1, <3>1, PickFacts
    <3>4. Cardinality({}) = 0
      BY FS_EmptySet
    <3>5. Pick(e, P) = <<>>
      BY <3>1, <3>3, <3>4
    <3> QED
      BY <3>2, <3>5 DEF e
  <2> HIDE DEF e
  <2>3. t = Passed(g, e, FALSE)
    BY <1>3, <1>33 DEF e
  <2>4. PassSets(g, t, Unseen(g, e), FALSE)
    BY <1>1, <2>1, <2>2, <2>3, PassUpdate
  <2>5. Eligible(t) = {}
    <3>1. NoGate # {}
      BY DEF NoGate
    <3> QED
      BY <1>33, <2>4, <3>1 DEF Eligible, Gated, PassSets
  <2>6. Delivers(t, e)
    BY <2>1, <2>5 DEF Delivers
  <2> QED
    BY <2>1, <2>4, <2>6 DEF PassSets, g
<1> QED
  BY <1>32, <1>33

-----------------------------------------------------------------------------
(* The gate *)

\* A due row with a lexical key is no NULL document; with version 12, every due row is listed.
LEMMA DueFacts ==
    ASSUME World, want.kind # "search", NEW r \in Due
    PROVE  /\ r \in Row /\ rows[r].vis /\ rows[r].pred /\ Where(r)
           /\ want.lex # "no" => LexWhere(r) /\ ~rows[r].nulldoc
           /\ want.dv \/ want.cgram => rows[r].other
           /\ ~rows[r].nulldoc \/ want.v12 => place[r] # OUT /\ r \in Live
<1>1. r \in Row /\ rows[r].vis /\ rows[r].pred /\ Where(r)
  BY DEF Due
<1>2. place[r] = OUT => rows[r].nulldoc /\ ~want.v12
  BY <1>1 DEF World, Lists, Row
<1>3. want.lex # "no" => LexWhere(r) /\ ~rows[r].nulldoc
  BY <1>1 DEF Where, LexWhere
<1>4. want.dv \/ want.cgram => rows[r].other
  BY <1>1 DEF Where
<1> QED
  BY <1>1, <1>2, <1>3, <1>4, LiveFacts

\* A set of rows is not the mark that there is no gate.
LEMMA SetOfRows ==
    ASSUME World, NEW S \in SUBSET Row
    PROVE  S # NoGate /\ S \in (SUBSET Row) \cup {NoGate}
<1>1. \A r \in Row : r # -1
  BY RowFacts
<1> QED
  BY <1>1 DEF NoGate

\* The rows of a lexical key: those of the clause that are listed, exactly them unless
\* they need a recheck, all of them that are due unless a NOT meets an index before version 12.
LEMMA CollectFacts ==
    ASSUME World, want.kind # "search", want.lex # "no"
    PROVE  /\ weave_collect_matches \in SUBSET Row /\ weave_collect_matches # NoGate
           /\ \A r \in Live : LexWhere(r) /\ (~want.not \/ want.v12 \/ rows[r].words # {})
                                => r \in weave_collect_matches
           /\ ~want.lossy => \A r \in weave_collect_matches : LexWhere(r)
           /\ ~want.not \/ want.v12 => Due \subseteq weave_collect_matches
<1>1. weave_collect_matches \in SUBSET Row
  BY LiveFacts DEF weave_collect_matches
<1>2. \A r \in Live : LexWhere(r) => ~rows[r].nulldoc
  BY DEF LexWhere
<1>3. \A r \in Live : LexWhere(r) /\ (~want.not \/ want.v12 \/ rows[r].words # {})
                        => r \in weave_collect_matches
  BY <1>2 DEF weave_collect_matches, weave_query_has_not
<1>4. ~want.lossy => \A r \in weave_collect_matches : LexWhere(r)
  BY DEF weave_collect_matches
<1>5. ASSUME ~want.not \/ want.v12, NEW r \in Due PROVE r \in weave_collect_matches
  <2>1. LexWhere(r) /\ r \in Live
    BY DueFacts
  <2> QED
    BY <1>3, <1>5, <2>1
<1> QED
  BY <1>1, <1>3, <1>4, <1>5, SetOfRows

\* The rows of a document list.
LEMMA DocvalsFacts ==
    ASSUME World, want.kind # "search"
    PROVE  /\ weave_docvals_gate \in SUBSET Row /\ weave_docvals_gate # NoGate
           /\ \A r \in Live : rows[r].other <=> r \in weave_docvals_gate
           /\ want.dv /\ want.v12 => Due \subseteq weave_docvals_gate
<1>1. weave_docvals_gate \in SUBSET Row
  BY LiveFacts DEF weave_docvals_gate
<1>2. \A r \in Live : rows[r].other <=> r \in weave_docvals_gate
  BY DEF weave_docvals_gate
<1>3. ASSUME want.dv, want.v12, NEW r \in Due PROVE r \in weave_docvals_gate
  BY <1>2, <1>3, DueFacts
<1> QED
  BY <1>1, <1>2, <1>3, SetOfRows

\* The gate a pass starts from.
GateOf(s) == CASE want.kind = "edist" -> EdistGate(s)
               [] want.kind = "fuse" -> FuseGate(s)
               [] OTHER -> s

\* What the gate says depends on three fields.
LEMMA GateSame ==
    ASSUME NEW s, NEW t, GateInv(s), t.plain = s.plain, t.plainRecheck = s.plainRecheck,
           t.gateLex = s.gateLex
    PROVE  GateInv(t) /\ Admitted(t) = Admitted(s)
<1>1. \A r : Gated(t, r) <=> Gated(s, r)
  BY DEF Gated
<1>2. Recheck(t) <=> Recheck(s)
  BY DEF Recheck
<1> QED
  BY <1>1, <1>2 DEF GateInv, Admitted

\* Setting the gate: the other fields stay.
GateSets(s, t, p, a, b) ==
    /\ t \in ScanRecord /\ t.plain = p /\ t.plainRecheck = a /\ t.gateLex = b
    /\ t.phase = s.phase /\ t.ordered = s.ordered /\ t.ordpos = s.ordpos /\ t.width = s.width
    /\ t.maxhits = s.maxhits /\ t.thr = s.thr /\ t.nulls = s.nulls

\* A scan with another gate.
WithGate(s, p, a, b) == [s EXCEPT !.plain = p, !.plainRecheck = a, !.gateLex = b]

\* It is a record of the scan.
LEMMA GateUpdate ==
    ASSUME NEW s \in ScanRecord, NEW p \in (SUBSET Row) \cup {NoGate}, NEW a \in BOOLEAN, NEW b \in BOOLEAN
    PROVE  GateSets(s, WithGate(s, p, a, b), p, a, b)
<1> DEFINE r1 == [s EXCEPT !.plain = p]
           r2 == [r1 EXCEPT !.plainRecheck = a]
           t == [s EXCEPT !.plain = p, !.plainRecheck = a, !.gateLex = b]
<1>1. r1 \in ScanRecord
  BY DEF ScanRecord
<1>2. ASSUME NEW r \in ScanRecord PROVE [r EXCEPT !.plainRecheck = a] \in ScanRecord
  BY DEF ScanRecord
<1>3. ASSUME NEW r \in ScanRecord PROVE [r EXCEPT !.gateLex = b] \in ScanRecord
  BY DEF ScanRecord
<1>4. t = [r2 EXCEPT !.gateLex = b]
  OBVIOUS
<1>5. /\ t.plain = p /\ t.plainRecheck = a /\ t.gateLex = b
      /\ t.phase = s.phase /\ t.ordered = s.ordered /\ t.ordpos = s.ordpos /\ t.width = s.width
      /\ t.maxhits = s.maxhits /\ t.thr = s.thr /\ t.nulls = s.nulls
  BY DEF ScanRecord
<1> HIDE DEF r1
<1>6. r2 \in ScanRecord
  BY <1>1, <1>2
<1> HIDE DEF r2
<1>7. t \in ScanRecord
  BY <1>3, <1>4, <1>6
<1> QED
  BY <1>5, <1>7 DEF GateSets, WithGate

\* The first gate of an edit distance or fused scan lets every admitted row through, but
\* those without a document list, and
\* where rows are not rechecked, no others.
LEMMA FirstGate ==
    ASSUME World, NEW s \in ScanRecord, want.kind # "search",
           s.plain = NoGate, s.plainRecheck = FALSE, s.gateLex = FALSE
    PROVE  \E p \in (SUBSET Row) \cup {NoGate}, a \in BOOLEAN, b \in BOOLEAN :
             GateSets(s, GateOf(s), p, a, b) /\ GateInv(GateOf(s))
<1> DEFINE g == GateOf(s)
<1>1. want.kind \in {"lex", "vec", "edist", "fuse"} /\ want.lex \in {"no", "same", "other"}
      /\ want.dv \in BOOLEAN /\ want.cgram \in BOOLEAN /\ want.not \in BOOLEAN
      /\ want.lossy \in BOOLEAN /\ want.v12 \in BOOLEAN
  BY KeyFacts
<1>2. \A r \in Ranked : r \in Row /\ r \in Live /\ rows[r].vis /\ Ranks(r)
  BY LiveFacts DEF Ranked
<1>3. \A r \in Row : Where(r) <=> /\ want.lex # "no" => LexWhere(r)
                                  /\ want.dv \/ want.cgram => rows[r].other
  BY DEF Where
<1>4. HasLex(want) <=> want.lex # "no" /\ ~want.cgram
  BY DEF HasLex
<1>5. NoKeys(want) <=> want.lex = "no" /\ ~want.dv /\ ~want.cgram
  BY DEF NoKeys
<1>6. CASE \/ want.kind \in {"lex", "vec"}
           \/ want.kind = "edist" /\ ~HasLex(want)
           \/ want.kind = "fuse" /\ ~HasLex(want) /\ ~want.dv
  <2>1. g = s
    BY <1>1, <1>6 DEF GateOf, EdistGate, FuseGate
  <2>2. GateSets(s, g, NoGate, FALSE, FALSE)
    BY <2>1 DEF GateSets
  <2>3. ASSUME ~Recheck(g), NEW r \in Row, Ranks(r) PROVE Where(r)
    <3>1. CASE NoKeys(want)
      BY <1>3, <1>5, <3>1
    <3>2. CASE ~NoKeys(want)
      <4>1. CASE want.kind \in {"lex", "vec"}
        <5>1. want.kind = "lex" /\ want.lex = "same" /\ ~want.dv /\ ~want.cgram
          BY <2>3, <3>2, <4>1 DEF Recheck, ordSameQuery
        <5>2. LexWhere(r)
          BY <2>3, <5>1 DEF LexWhere, Ranks
        <5> QED
          BY <1>3, <5>1, <5>2
      <4>2. CASE want.kind = "edist" /\ ~HasLex(want)
        BY <2>3, <3>2, <4>2 DEF Recheck
      <4>3. CASE want.kind = "fuse" /\ ~HasLex(want) /\ ~want.dv
        <5>1. ~want.cgram
          BY <2>3, <3>2, <4>3 DEF Recheck, unhonoured
        <5> QED
          BY <1>4, <1>5, <3>2, <4>3, <5>1
      <4> QED
        BY <1>6, <4>1, <4>2, <4>3
    <3> QED
      BY <3>1, <3>2
  <2>4. g.plain = NoGate
    BY <2>2 DEF GateSets
  <2>5. GateInv(g)
    BY <1>6, <2>3, <2>4 DEF GateInv, Gated
  <2> QED
    BY <2>2, <2>5
<1>7. CASE want.kind = "edist" /\ HasLex(want)
  <2> DEFINE C == weave_collect_matches
  <2>1. /\ C \in SUBSET Row /\ C # NoGate
        /\ \A r \in Live : LexWhere(r) /\ (~want.not \/ want.v12 \/ rows[r].words # {}) => r \in C
        /\ ~want.lossy => \A r \in C : LexWhere(r)
        /\ ~want.not \/ want.v12 => Due \subseteq C
    BY <1>4, <1>7, CollectFacts
  <2>2. g = WithGate(s, C, want.lossy, ~want.not)
    BY <1>7 DEF GateOf, EdistGate, WithGate, weave_query_has_not
  <2> HIDE DEF C
  <2>3. GateSets(s, g, C, want.lossy, ~want.not)
    <3>1. C \in (SUBSET Row) \cup {NoGate} /\ (~want.not) \in BOOLEAN
      BY <2>1
    <3> QED
      BY <1>1, <2>2, <3>1, GateUpdate
  <2>4. g.plain = C /\ g.plainRecheck = want.lossy /\ g.gateLex = ~want.not
    BY <2>3 DEF GateSets
  <2>5. ASSUME NEW r \in Ranked, Where(r) PROVE r \in C
    <3>1. rows[r].words # {}
      BY <1>2, <1>7 DEF Ranks
    <3> QED
      BY <1>2, <1>3, <1>4, <1>7, <2>1, <2>5, <3>1
  <2>6. ASSUME ~Recheck(g), NEW r \in Row, r \in C PROVE Where(r)
    <3>1. ~NoKeys(want) /\ want.kind = "edist"
      BY <1>4, <1>5, <1>7
    <3>2. ~want.dv /\ ~want.lossy /\ ~want.cgram
      BY <1>4, <1>7, <2>4, <2>6, <3>1 DEF Recheck
    <3> QED
      BY <1>3, <2>1, <2>6, <3>2
  <2>7. GateInv(g)
    BY <1>7, <2>1, <2>4, <2>5, <2>6 DEF GateInv, Gated
  <2> QED
    BY <1>1, <2>1, <2>3, <2>7
<1>8. CASE want.kind = "fuse" /\ (HasLex(want) \/ want.dv)
  <2> DEFINE C == IF ~HasLex(want) THEN weave_docvals_gate
                  ELSE IF want.dv THEN weave_collect_matches \cap weave_docvals_gate
                  ELSE weave_collect_matches
             a == HasLex(want) /\ want.lossy
             b == HasLex(want) /\ ~want.not
  <2>1. g = WithGate(s, C, a, b)
    BY <1>8 DEF GateOf, FuseGate, WithGate, weave_query_has_not
  <2>2. \A r : r \in C <=> /\ HasLex(want) => r \in weave_collect_matches
                           /\ want.dv => r \in weave_docvals_gate
    <3>1. CASE HasLex(want) /\ want.dv
      <4>1. C = weave_collect_matches \cap weave_docvals_gate
        BY <3>1
      <4> HIDE DEF C
      <4> QED
        BY <3>1, <4>1
    <3>2. CASE HasLex(want) /\ ~want.dv
      BY <3>2
    <3>3. CASE ~HasLex(want) /\ want.dv
      BY <3>3
    <3> QED
      BY <1>8, <3>1, <3>2, <3>3
  <2>3. HasLex(want) =>
          /\ weave_collect_matches \in SUBSET Row
          /\ \A r \in Live : LexWhere(r) /\ (~want.not \/ want.v12 \/ rows[r].words # {})
                               => r \in weave_collect_matches
          /\ ~want.lossy => \A r \in weave_collect_matches : LexWhere(r)
          /\ ~want.not \/ want.v12 => Due \subseteq weave_collect_matches
    BY <1>1, <1>4, CollectFacts
  <2>4. /\ weave_docvals_gate \in SUBSET Row
        /\ \A r \in Live : rows[r].other <=> r \in weave_docvals_gate
        /\ want.dv /\ want.v12 => Due \subseteq weave_docvals_gate
    BY <1>1, DocvalsFacts
  <2>5. C \in SUBSET Row
    BY <1>8, <2>2, <2>3, <2>4
  <2> HIDE DEF C
  <2>6. C # NoGate /\ C \in (SUBSET Row) \cup {NoGate} /\ a \in BOOLEAN /\ b \in BOOLEAN
    BY <1>1, <2>5, SetOfRows
  <2> HIDE DEF a, b
  <2>7. GateSets(s, g, C, a, b)
    BY <2>1, <2>6, GateUpdate
  <2>8. g.plain = C /\ g.plainRecheck = a /\ g.gateLex = b
    BY <2>7 DEF GateSets
  <2>9. ASSUME NEW r \in Ranked, Where(r), ~WithoutList(r) PROVE r \in C
    <3>1. r \in Live /\ r \in Row
      BY <1>2
    <3>2. HasLex(want) => ~want.not \/ want.v12 \/ rows[r].words # {}
      BY <1>8, <2>9 DEF WithoutList, weave_query_has_not
    <3>2a. HasLex(want) => r \in weave_collect_matches
      BY <1>3, <1>4, <2>3, <2>9, <3>1, <3>2
    <3>3. want.dv => r \in weave_docvals_gate
      BY <1>3, <2>4, <2>9, <3>1
    <3> QED
      BY <2>2, <3>2a, <3>3
  <2>10. ASSUME ~Recheck(g), NEW r \in Row, Ranks(r), r \in C PROVE Where(r)
    <3>1. ~NoKeys(want)
      BY <1>4, <1>5, <1>8
    <3>2. ~a /\ ~want.cgram
      BY <1>8, <2>8, <2>10, <3>1 DEF Recheck, unhonoured
    <3>3. want.lex # "no" => LexWhere(r)
      BY <1>4, <2>2, <2>3, <2>10, <3>2 DEF a
    <3>4. want.dv => rows[r].other
      BY <2>2, <2>10 DEF weave_docvals_gate
    <3> QED
      BY <1>3, <3>2, <3>3, <3>4
  <2>11. ASSUME g.gateLex \/ want.v12 PROVE Due \subseteq C
    <3>1. HasLex(want) => ~want.not \/ want.v12
      BY <1>1, <2>8, <2>11 DEF b
    <3>2. ~HasLex(want) => want.v12
      BY <2>8, <2>11 DEF b
    <3>3. ASSUME NEW r \in Due, want.dv PROVE r \in weave_docvals_gate
      <4>1. r \in Live /\ rows[r].other
        BY <1>1, <1>4, <3>2, <3>3, DueFacts
      <4> QED
        BY <2>4, <4>1
    <3> QED
      BY <2>2, <2>3, <3>1, <3>3
  <2>12. GateInv(g)
    BY <1>8, <2>6, <2>8, <2>9, <2>10, <2>11 DEF GateInv, Gated
  <2> QED
    BY <2>6, <2>7, <2>12
<1>9. want.kind = "edist" \/ want.kind = "fuse" \/ want.kind \in {"lex", "vec"}
  BY <1>1
<1> HIDE DEF g
<1> QED
  BY <1>6, <1>7, <1>8, <1>9 DEF g

-----------------------------------------------------------------------------
(* The most hits, and the width *)

\* The rows found are no more than the documents, nor than the terms account for, but for
\* the fused orders that do not count their union.
LEMMA MaxHits ==
    ASSUME World, want.kind \in {"lex", "fuse"}
    PROVE  LET m == IF want.kind = "lex" THEN weave_query_maxhits(want.q) ELSE FuseMaxHits
           IN  m \in Nat /\ (UnionCounted => Cardinality(Found) <= m)
<1> DEFINE P == {r \in Pending : Ranks(r)}
           F == {r \in Flushed : Ranks(r)}
           D(k) == {r \in Row : place[r] \in Bolts /\ k \in rows[r].terms}
           docs == {r \in Live : ~rows[r].nulldoc}
<1>1. \A S \in SUBSET Row : IsFiniteSet(S) /\ Cardinality(S) \in Nat
  BY RowFacts
<1>2. ASSUME NEW S \in SUBSET Row, NEW T \in SUBSET S PROVE Cardinality(T) <= Cardinality(S)
  BY <1>1, FS_Subset
<1>3. ASSUME NEW S \in SUBSET Row, NEW T \in SUBSET Row
      PROVE  Cardinality(S \cup T) <= Cardinality(S) + Cardinality(T)
  <2>1. IsFiniteSet(S) /\ IsFiniteSet(T) /\ S \cap T \in SUBSET Row
    BY <1>1
  <2>2. Cardinality(S \cup T) = Cardinality(S) + Cardinality(T) - Cardinality(S \cap T)
    BY <2>1, FS_Union
  <2>3. Cardinality(S) \in Nat /\ Cardinality(T) \in Nat /\ Cardinality(S \cap T) \in Nat
    BY <1>1, <2>1
  <2> QED
    BY <2>2, <2>3
<1>4. /\ Live \subseteq Row /\ Flushed \subseteq Row /\ Pending \subseteq Row
      /\ Found = F \cup P /\ Found \subseteq Row
      /\ \A r \in Flushed : place[r] \in Bolts
  BY LiveFacts, FoundFacts DEF Rankable
<1>5. \A r \in Row : rows[r].terms \in SUBSET {1, 2} /\ rows[r].nulldoc \in BOOLEAN
  BY RowFacts DEF RowType
<1>6. ndocs = Cardinality(docs) /\ ndocs \in Nat /\ docs \in SUBSET Row
  BY <1>1, <1>4 DEF ndocs
<1>7. N \in Nat /\ ndocs <= N
  <2> DEFINE o == 1
             n == ndocs
  <2>1. o \in Int /\ n \in Int
    BY <1>6
  <2>2. N = Max({o, n})
    BY DEF N
  <2> HIDE DEF o, n
  <2>3. Max({o, n}) \in {o, n} /\ n <= Max({o, n})
    BY <2>1, TwoOf
  <2> QED
    BY <1>6, <2>2, <2>3 DEF o, n
<1>8. /\ df(1) = Cardinality(D(1)) /\ df(2) = Cardinality(D(2)) /\ df(1) \in Nat /\ df(2) \in Nat
      /\ D(1) \in SUBSET Row /\ D(2) \in SUBSET Row
  BY <1>1 DEF df
<1> DEFINE p == Cardinality(Pending)
<1>9. p \in Nat /\ Cardinality(P) <= p /\ Cardinality(P) \in Nat
  BY <1>1, <1>2, <1>4
<1>10. Cardinality(Found) <= Cardinality(F) + Cardinality(P) /\ Cardinality(F) \in Nat
       /\ Cardinality(Found) \in Nat
  BY <1>1, <1>3, <1>4
<1> DEFINE x == CASE want.q = "term" -> df(1)
                  [] want.q = "or" -> df(1) + df(2)
                  [] want.q = "and" -> Min({df(1), df(2)})
                  [] want.q = "andnot" -> Min({df(1), N})
                  [] OTHER -> df(1) + N
<1>11. ASSUME NEW a \in Nat, NEW b \in Nat
       PROVE  Min({a, b}) \in {a, b} /\ Min({a, b}) \in Nat
  <2>1. a \in Int /\ b \in Int
    OBVIOUS
  <2>2. Min({a, b}) \in {a, b}
    BY <2>1, TwoOf
  <2> QED
    BY <2>2
<1> HIDE DEF D, docs, F, P, p
<1>12. x \in Nat
  <2>1. Min({df(1), df(2)}) \in Nat /\ Min({df(1), N}) \in Nat
    BY <1>7, <1>8, <1>11
  <2> QED
    BY <1>7, <1>8, <2>1
<1>13. weave_query_maxhits(want.q) = Min({N, p + x})
  BY DEF weave_query_maxhits, DictHits, p
<1>14. want.q \in {"term", "or", "and", "andnot", "ornot", "wild"}
       /\ want.chan \in {"none", "lexlex", "lexvec", "vecvec"}
  BY KeyFacts
<1>15. weave_query_maxhits(want.q) \in Nat /\ weave_query_maxhits(want.q) \in {N, p + x}
  <2> DEFINE y == p + x
  <2>1. y \in Nat
    BY <1>9, <1>12
  <2> HIDE DEF y, x
  <2>2. Min({N, y}) \in {N, y} /\ Min({N, y}) \in Nat
    BY <1>7, <1>11, <2>1
  <2> QED
    BY <1>13, <2>2 DEF y
<1>16. Found \subseteq docs => Cardinality(Found) <= N
  <2>1. ASSUME Found \subseteq docs PROVE Cardinality(Found) <= Cardinality(docs)
    BY <1>2, <1>6, <2>1
  <2> QED
    BY <1>6, <1>7, <1>10, <2>1
<1>17. CASE want.kind = "lex"
  <2>1. Found \subseteq docs
    BY <1>17 DEF Found, Ranks, docs
  <2>2. \A r \in F : r \in Row /\ place[r] \in Bolts /\ Match(want.q, rows[r].terms)
                     /\ rows[r].terms \cap weave_query_terms(want.q) # {}
    BY <1>4, <1>17 DEF F, Ranks
  <2>3. Cardinality(F) <= N
    <3>1. F \subseteq Found /\ Cardinality(F) <= Cardinality(Found)
      BY <1>2, <1>4
    <3> QED
      BY <1>7, <1>10, <1>16, <2>1, <3>1
  <2>4. \A r \in F : 1 \in rows[r].terms => r \in D(1)
    BY <2>2 DEF D
  <2>5. \A r \in F : 2 \in rows[r].terms => r \in D(2)
    BY <2>2 DEF D
  <2>6. Cardinality(F) <= x
    <3>1. CASE want.q = "term"
      <4>1. F \in SUBSET D(1)
        BY <2>2, <2>4, <3>1 DEF Match
      <4> QED
        BY <1>2, <1>8, <3>1, <4>1
    <3>2. CASE want.q = "or"
      <4>1. F \in SUBSET (D(1) \cup D(2)) /\ D(1) \cup D(2) \in SUBSET Row
        BY <1>5, <1>8, <2>2, <2>4, <2>5, <3>2 DEF Match
      <4>2. Cardinality(F) <= Cardinality(D(1) \cup D(2))
        BY <1>2, <4>1
      <4>3. Cardinality(D(1) \cup D(2)) <= df(1) + df(2) /\ Cardinality(D(1) \cup D(2)) \in Nat
        BY <1>1, <1>3, <1>8, <4>1
      <4> QED
        BY <1>8, <1>10, <3>2, <4>2, <4>3
    <3>3. CASE want.q = "and"
      <4>1. F \in SUBSET D(1) /\ F \in SUBSET D(2)
        BY <2>2, <2>4, <2>5, <3>3 DEF Match
      <4>2. Cardinality(F) <= df(1) /\ Cardinality(F) <= df(2)
        BY <1>2, <1>8, <4>1
      <4>3. Min({df(1), df(2)}) \in {df(1), df(2)}
        BY <1>8, <1>11
      <4> QED
        BY <3>3, <4>2, <4>3
    <3>4. CASE want.q = "andnot"
      <4>1. F \in SUBSET D(1)
        BY <2>2, <2>4, <3>4 DEF Match
      <4>2. Cardinality(F) <= df(1)
        BY <1>2, <1>8, <4>1
      <4>3. Min({df(1), N}) \in {df(1), N}
        BY <1>7, <1>8, <1>11
      <4> QED
        BY <2>3, <3>4, <4>2, <4>3
    <3>5. CASE want.q \in {"ornot", "wild"}
      <4>1. x = df(1) + N
        BY <3>5
      <4> QED
        BY <1>7, <1>8, <1>10, <2>3, <4>1
    <3> QED
      BY <1>14, <3>1, <3>2, <3>3, <3>4, <3>5
  <2> HIDE DEF x
  <2>7. Cardinality(Found) <= p + x
    BY <1>9, <1>10, <1>12, <2>6
  <2> QED
    BY <1>15, <1>16, <1>17, <2>1, <2>7
<1>17a. want.kind = "fuse" => FuseMaxHits \in Nat
  <2> DEFINE y == df(2) + p
  <2>1. y \in Nat
    BY <1>8, <1>9
  <2>2. Min({N, y}) \in Nat
    <3> HIDE DEF y
    <3> QED
      BY <1>7, <1>11, <2>1
  <2>3. want.chan = "lexlex" => FuseMaxHits = weave_query_maxhits(want.q) + Min({N, y})
    BY DEF FuseMaxHits, p
  <2>4. /\ want.chan = "lexvec" => FuseMaxHits = weave_query_maxhits(want.q) + N
        /\ want.chan = "vecvec" => FuseMaxHits = N + N
    BY DEF FuseMaxHits
  <2>5. want.kind = "fuse" => want.chan # "none"
    BY KeyFacts
  <2> HIDE DEF y
  <2> QED
    BY <1>7, <1>14, <1>15, <2>2, <2>3, <2>4, <2>5
<1>18. CASE want.kind = "fuse" /\ want.chan = "lexlex" /\ UnionCounted
  <2> DEFINE y == df(2) + p
  <2>1. y \in Nat
    BY <1>8, <1>9
  <2>2. FuseMaxHits = weave_query_maxhits(want.q) + Min({N, y})
    BY <1>18 DEF FuseMaxHits, p
  <2>3. want.q # "and"
    BY <1>18 DEF UnionCounted
  <2>4. \A r \in Row : Ranks(r) => ~rows[r].nulldoc /\ rows[r].terms # {}
    BY <1>18 DEF Ranks, weave_fuse_has_vec
  <2>5. Found \subseteq docs
    BY <1>4, <2>4 DEF Found, docs
  <2>6. F \in SUBSET (D(1) \cup D(2)) /\ D(1) \cup D(2) \in SUBSET Row
    BY <1>4, <1>5, <1>8, <2>4 DEF F, D
  <2>7. Cardinality(F) <= df(1) + df(2)
    <3>1. Cardinality(F) <= Cardinality(D(1) \cup D(2))
      BY <1>2, <2>6
    <3>2. Cardinality(D(1) \cup D(2)) <= df(1) + df(2) /\ Cardinality(D(1) \cup D(2)) \in Nat
      BY <1>1, <1>3, <1>8, <2>6
    <3> QED
      BY <1>8, <1>10, <3>1, <3>2
  <2>8. x = df(1) \/ x = df(1) + df(2) \/ (x \in Nat /\ x >= N)
    <3>1. Min({df(1), N}) \in {df(1), N}
      BY <1>7, <1>8, <1>11
    <3> QED
      BY <1>7, <1>8, <1>14, <2>3, <3>1
  <2> HIDE DEF y, x
  <2>9. Min({N, y}) \in {N, y} /\ Min({N, y}) \in Nat
    BY <1>7, <1>11, <2>1
  <2>10. Cardinality(Found) <= N
    BY <1>16, <2>5
  <2>11. Cardinality(Found) <= (df(1) + df(2)) + p
    BY <1>8, <1>9, <1>10, <2>7
  <2>12. Cardinality(Found) <= weave_query_maxhits(want.q) + Min({N, y})
    <3>1. CASE weave_query_maxhits(want.q) = N \/ Min({N, y}) = N \/ x >= N
      BY <1>7, <1>8, <1>9, <1>10, <1>12, <1>15, <2>1, <2>9, <2>10, <3>1
    <3>2. CASE weave_query_maxhits(want.q) = p + x /\ Min({N, y}) = y /\ x \in {df(1), df(1) + df(2)}
      BY <1>8, <1>9, <1>10, <2>11, <3>2 DEF y
    <3> QED
      BY <1>15, <2>8, <2>9, <3>1, <3>2
  <2> QED
    BY <1>15, <1>18, <2>2, <2>9, <2>12
<1>19. CASE want.kind = "fuse" /\ want.chan = "lexvec"
  <2>1. FuseMaxHits = weave_query_maxhits(want.q) + N
    BY <1>19 DEF FuseMaxHits
  <2>2. Found \subseteq docs
    BY <1>19 DEF Found, docs, Ranks, weave_fuse_has_vec, HasLexChan
  <2> QED
    BY <1>7, <1>10, <1>15, <1>16, <1>19, <2>1, <2>2
<1>20. CASE want.kind = "fuse" /\ want.chan = "vecvec" /\ UnionCounted
  <2> DEFINE nd == {r \in Row : rows[r].vec /\ rows[r].nulldoc}
             vd == {r \in Row : rows[r].vis /\ rows[r].pred /\ ~rows[r].nulldoc}
             o == 1
             m == Cardinality(vd)
  <2>1. FuseMaxHits = N + N
    BY <1>20 DEF FuseMaxHits
  <2>2. Cardinality(nd) <= Max({o, m})
    BY <1>20 DEF UnionCounted
  <2>3. Found \in SUBSET (docs \cup nd)
    BY <1>4, <1>5, <1>20 DEF Found, docs, Ranks, weave_fuse_has_vec
  <2>4. vd \in SUBSET docs
    BY LiveFacts DEF World, Lists, docs, Row
  <2>5. nd \in SUBSET Row /\ vd \in SUBSET Row /\ docs \cup nd \in SUBSET Row
    BY <1>6
  <2>6. m \in Int /\ o \in Int /\ m <= ndocs
    BY <1>1, <1>2, <1>6, <2>4, <2>5
  <2>7. Cardinality(docs \cup nd) <= ndocs + Cardinality(nd) /\ Cardinality(docs \cup nd) \in Nat
        /\ Cardinality(nd) \in Nat
    BY <1>1, <1>3, <1>6, <2>5
  <2>8. Cardinality(Found) <= Cardinality(docs \cup nd)
    BY <1>2, <2>3, <2>5
  <2> HIDE DEF nd, vd, m, o
  <2>9. Max({o, m}) \in {o, m}
    BY <2>6, TwoOf
  <2>10. 1 <= N
    <3> DEFINE n == ndocs
    <3>1. N = Max({o, n}) /\ n \in Int
      BY <1>6 DEF N, o
    <3> HIDE DEF n
    <3>2. o <= Max({o, n})
      BY <2>6, <3>1, TwoOf
    <3> QED
      BY <3>1, <3>2 DEF o
  <2>11. Cardinality(nd) <= N
    BY <1>6, <1>7, <2>2, <2>6, <2>7, <2>9, <2>10 DEF o
  <2> QED
    BY <1>6, <1>7, <1>10, <1>20, <2>1, <2>7, <2>8, <2>11
<1>21. want.kind = "fuse" => want.chan # "none"
  BY KeyFacts
<1> QED
  BY <1>14, <1>17, <1>17a, <1>18, <1>19, <1>20, <1>21

\* Passes are never empty: the first width and every wider one is at least one.
LEMMA WidthFacts ==
    /\ \A k \in Nat : weave_ord_width(k) \in Nat /\ weave_ord_width(k) >= 1
    /\ \A h \in Nat : weave_ord_first_width(h) \in Nat /\ weave_ord_first_width(h) >= 1
    /\ \A w \in Nat : w >= 1 => Wider(w) \in Nat /\ Wider(w) >= 1
<1>1. WidthMax \in Nat /\ WidthMax >= 1 /\ WidthFloor \in Nat /\ WidthFloor >= 1
      /\ Factor \in Nat /\ Factor >= 1 /\ InitialK \in Nat
  BY RankBounds
<1>2. ASSUME NEW k \in Nat PROVE weave_ord_width(k) \in Nat /\ weave_ord_width(k) >= 1
  <2> DEFINE p == k * Factor
             w == WidthFloor
  <2>1. p \in Int /\ w \in Int /\ w >= 1
    BY <1>1
  <2>2. weave_ord_width(k) = WidthMax \/ weave_ord_width(k) = Max({p, w})
    BY DEF weave_ord_width
  <2> HIDE DEF p, w
  <2>3. Max({p, w}) \in {p, w} /\ w <= Max({p, w})
    BY <2>1, TwoOf
  <2> QED
    BY <1>1, <2>1, <2>2, <2>3
<1>3. ASSUME NEW h \in Nat PROVE weave_ord_first_width(h) \in Nat /\ weave_ord_first_width(h) >= 1
  <2> DEFINE a == weave_ord_width(h)
             b == weave_ord_width(InitialK)
  <2>1. a \in Nat /\ a >= 1 /\ b \in Nat /\ b >= 1 /\ a \in Int /\ b \in Int
    BY <1>1, <1>2
  <2>2. weave_ord_first_width(h) \in {b, Min({a, b})}
    BY DEF weave_ord_first_width
  <2> HIDE DEF a, b
  <2>3. Min({a, b}) \in {a, b}
    BY <2>1, TwoOf
  <2> QED
    BY <2>1, <2>2, <2>3
<1>4. ASSUME NEW w \in Nat, w >= 1 PROVE Wider(w) \in Nat /\ Wider(w) >= 1
  <2>1. w * Factor \in Nat /\ w * Factor >= 1
    BY <1>1, <1>4
  <2> QED
    BY <1>1, <2>1 DEF Wider
<1> QED
  BY <1>2, <1>3, <1>4

\* The next rung of the ladder.
Grown(s) == CASE want.kind = "lex" -> weave_ord_grow(s)
              [] want.kind = "fuse" -> weave_fuse_grow(s)
              [] want.kind = "vec" -> weave_vec_grow(s)
              [] want.kind = "edist" -> weave_edist_grow(s)

\* It is another width or threshold, and nothing else.
LEMMA GrownFacts ==
    ASSUME World, want.kind # "search", NEW s \in ScanRecord, s.width >= 1
    PROVE  /\ Grown(s) \in ScanRecord /\ Grown(s).width >= 1
           /\ Grown(s).phase = s.phase /\ Grown(s).ordered = s.ordered /\ Grown(s).ordpos = s.ordpos
           /\ Grown(s).maxhits = s.maxhits /\ Grown(s).nulls = s.nulls
           /\ Grown(s).plain = s.plain /\ Grown(s).plainRecheck = s.plainRecheck
           /\ Grown(s).gateLex = s.gateLex
<1>1. s.width \in Nat /\ s.lanes \in Nat /\ s.next \in Nat
  BY DEF ScanRecord
<1>2. Wider(s.width) \in Nat /\ Wider(s.width) >= 1
  BY <1>1, WidthFacts
<1>3. ASSUME NEW w \in Nat, w >= 1, Grown(s) = [s EXCEPT !.width = w]
      PROVE  /\ Grown(s) \in ScanRecord /\ Grown(s).width >= 1
             /\ Grown(s).phase = s.phase /\ Grown(s).ordered = s.ordered /\ Grown(s).ordpos = s.ordpos
             /\ Grown(s).maxhits = s.maxhits /\ Grown(s).nulls = s.nulls
             /\ Grown(s).plain = s.plain /\ Grown(s).plainRecheck = s.plainRecheck
             /\ Grown(s).gateLex = s.gateLex
  BY <1>3 DEF ScanRecord
<1>4. CASE want.kind \in {"lex", "fuse"}
  BY <1>2, <1>3, <1>4 DEF Grown, weave_ord_grow, weave_fuse_grow
<1>5. CASE want.kind = "vec"
  <2> DEFINE L == {Wider(s.width)} \cup {n \in {s.lanes} : n > 0}
  <2>1. L \in SUBSET Nat /\ L # {} /\ \A n \in L : n >= 1
    BY <1>1, <1>2
  <2>2. Grown(s) = [s EXCEPT !.width = Min(L)]
    BY <1>5 DEF Grown, weave_vec_grow
  <2> HIDE DEF L
  <2>3. Min(L) \in L
    BY <2>1, LeastNat
  <2> QED
    BY <1>3, <2>1, <2>2, <2>3
<1>6. CASE want.kind = "edist"
  <2>1. Grown(s) = [s EXCEPT !.thr = s.next]
    BY <1>6 DEF Grown, weave_edist_grow
  <2> QED
    BY <1>1, <2>1 DEF ScanRecord
<1> QED
  BY <1>4, <1>5, <1>6, KeyFacts

\* A pass takes the ladder one rung further.
LEMMA PassStep ==
    ASSUME World, want.kind # "search", NEW s \in ScanRecord, NEW g, g = GateOf(s), g \in ScanRecord,
           g.phase = s.phase, g.ordered = s.ordered, g.ordpos = s.ordpos, g.thr = s.thr,
           g.nulls = s.nulls, GateInv(g), HitsInv(g), TakenInv(g, g)
    PROVE  LET t == Pass(s) IN
           /\ t \in ScanRecord /\ t.phase = s.phase /\ t.ordered = s.ordered /\ t.ordpos = s.ordpos
           /\ t.nulls = s.nulls /\ t.candpos = 0
           /\ PassInv(t) /\ LadderInv(t) /\ HitsInv(t) /\ GateInv(t)
<1> DEFINE o == OnePass(s)
           t == [o EXCEPT !.short = Short(o)]
<1>0. Pass(s) = t
  BY DEF Pass
<1>1. want.kind \in {"lex", "vec", "edist", "fuse"}
  BY KeyFacts
<1>2. g.width >= 1
  BY DEF HitsInv
<1>3. \E b \in Seq(Row) : Delivers(o, b) /\ PassSets(g, o, Unseen(g, b), o.candfull)
  <2>1. CASE want.kind = "lex"
    <3>1. g = s /\ g.plain = NoGate
      BY <2>1 DEF GateOf, GateInv
    <3>2. o = weave_ord_pass(g)
      BY <2>1, <3>1 DEF OnePass
    <3> HIDE DEF o
    <3> QED
      BY <1>2, <2>1, <3>1, <3>2, LexPass
  <2>2. CASE want.kind = "vec"
    <3>1. g = s /\ g.plain = NoGate
      BY <2>2 DEF GateOf, GateInv
    <3>2. o = weave_vec_pass(g)
      BY <2>2, <3>1 DEF OnePass
    <3> HIDE DEF o
    <3> QED
      BY <1>2, <2>2, <3>1, <3>2, VecPass
  <2>3. CASE want.kind = "edist"
    <3>1. g = EdistGate(s)
      BY <2>3 DEF GateOf
    <3>2. o = weave_edist_pass(s)
      BY <2>3 DEF OnePass
    <3> HIDE DEF o
    <3> QED
      BY <2>3, <3>1, <3>2, EdistPass
  <2>4. CASE want.kind = "fuse"
    <3>1. g = FuseGate(s)
      BY <2>4 DEF GateOf
    <3>2. o = weave_fuse_pass(s)
      BY <2>4 DEF OnePass
    <3> HIDE DEF o
    <3> QED
      BY <1>2, <2>4, <3>1, <3>2, FusePass
  <2> QED
    BY <1>1, <2>1, <2>2, <2>3, <2>4
<1> HIDE DEF o
<1>4. PICK b \in Seq(Row) : Delivers(o, b) /\ PassSets(g, o, Unseen(g, b), o.candfull)
  BY <1>3
<1>4a. o \in ScanRecord /\ Short(o) \in BOOLEAN
  BY <1>4 DEF PassSets, PassFields, Short, ScanRecord
<1>4b. /\ t \in ScanRecord /\ t.short = Short(o)
       /\ t.phase = o.phase /\ t.ordered = o.ordered /\ t.ordpos = o.ordpos /\ t.width = o.width
       /\ t.maxhits = o.maxhits /\ t.candpos = o.candpos /\ t.nulls = o.nulls /\ t.cand = o.cand
       /\ t.candfull = o.candfull /\ t.plain = o.plain /\ t.plainRecheck = o.plainRecheck
       /\ t.gateLex = o.gateLex
  BY <1>4a DEF ScanRecord
<1> HIDE DEF t
<1>5. /\ t \in ScanRecord /\ t.phase = g.phase /\ t.ordered = g.ordered /\ t.ordpos = g.ordpos
      /\ t.width = g.width /\ t.maxhits = g.maxhits /\ t.candpos = 0 /\ t.nulls = g.nulls
      /\ t.plain = g.plain /\ t.plainRecheck = g.plainRecheck /\ t.gateLex = g.gateLex
      /\ t.cand = Unseen(g, b)
  BY <1>4, <1>4b DEF PassSets, PassFields
<1>5a. t.short = Short(t)
  BY <1>4b DEF Short
<1>5b. Delivers(t, b)
  <2>1. (GrowProves(t) <=> GrowProves(o)) /\ (Short(t) <=> Short(o)) /\ Eligible(t) = Eligible(o)
    BY <1>4b DEF GrowProves, Short, Eligible, Gated
  <2> QED
    BY <1>4, <2>1 DEF Delivers
<1>6. GateInv(t) /\ Admitted(t) = Admitted(g)
  BY <1>5, GateSame
<1>7. TakenInv(g, t)
  BY <1>6 DEF TakenInv
<1>8. PassInv(t) /\ LadderInv(t)
  BY <1>5, <1>5a, <1>5b, <1>7, NewPass
<1>9. HitsInv(t)
  BY <1>5 DEF HitsInv
<1> QED
  BY <1>0, <1>5, <1>6, <1>8, <1>9

-----------------------------------------------------------------------------
(* Steps of the scan *)

\* A step that leaves rows, index and keys alone leaves the rank of every row alone.
Same == UNCHANGED <<rows, place, dead, want>>

\* What such a step leaves alone.
LEMMA SameFacts ==
    ASSUME Same
    PROVE  /\ World <=> World'
           /\ Row' = Row /\ ScanRecord' = ScanRecord /\ Due' = Due /\ Ranked' = Ranked
           /\ \A r : /\ Where(r)' <=> Where(r)
                     /\ TrueDist(r)' = TrueDist(r)
                     /\ KeyNull(r)' <=> KeyNull(r)
                     /\ WithoutList(r)' <=> WithoutList(r)
           /\ \A s : /\ PassInv(s)' <=> PassInv(s)
                     /\ LadderInv(s)' <=> LadderInv(s)
                     /\ HitsInv(s)' <=> HitsInv(s)
                     /\ GateInv(s)' <=> GateInv(s)
<1> USE DEF Same
<1>1. Row' = Row
  BY DEF Row
<1>2. ScanRecord' = ScanRecord
  BY <1>1 DEF ScanRecord
<1>3. World <=> World'
  BY <1>1 DEF World, Lists, KeysFit, Rescanned, HasLex, NoKeys
<1>4. /\ HasLexChan' = HasLexChan /\ weave_fuse_has_vec' = weave_fuse_has_vec
      /\ Live' = Live
  BY <1>1 DEF HasLexChan, weave_fuse_has_vec, Live, Flushed, Pending, Bolts
<1>5. \A r : Ranks(r)' <=> Ranks(r)
  BY <1>4 DEF Ranks
<1>6. \A r : KeyNull(r)' <=> KeyNull(r)
  BY <1>4 DEF KeyNull
<1>7. \A r : Dist(r)' = Dist(r)
  BY DEF Dist
<1>8. \A r : Where(r)' <=> Where(r)
  BY DEF Where, LexWhere
<1>9. \A r : TrueDist(r)' = TrueDist(r)
  BY <1>5, <1>6, <1>7 DEF TrueDist
<1>10. Due' = Due
  BY <1>1, <1>8 DEF Due
<1>11. Ranked' = Ranked
  BY <1>1, <1>5 DEF Ranked
<1>12. ASSUME NEW s PROVE PassInv(s)' <=> PassInv(s)
  BY <1>5, <1>7 DEF PassInv, Nearest, Gated
<1>13. \A s : Admitted(s)' = Admitted(s)
  BY <1>11 DEF Admitted, Gated
<1>14. ASSUME NEW s PROVE LadderInv(s)' <=> LadderInv(s)
  BY <1>7, <1>11, <1>13 DEF LadderInv, Nearest, Exact, GrowProves, Left, Taken
<1>15. ASSUME NEW s PROVE HitsInv(s)' <=> HitsInv(s)
  <2>1. Counted' = Counted
    BY <1>4, <1>5 DEF Counted, Found
  <2>2. UnionCounted' <=> UnionCounted
    BY <1>1 DEF UnionCounted
  <2> QED
    BY <2>1, <2>2 DEF HitsInv
<1>15a. \A r : WithoutList(r)' <=> WithoutList(r)
  BY DEF WithoutList, HasLex, weave_query_has_not
<1>16. ASSUME NEW s PROVE GateInv(s)' <=> GateInv(s)
  <2>1. Recheck(s)' <=> Recheck(s)
    BY DEF Recheck
  <2> QED
    BY <1>1, <1>5, <1>8, <1>10, <1>11, <1>15a, <2>1 DEF GateInv, Gated
<1> QED
  BY <1>1, <1>2, <1>3, <1>6, <1>8, <1>9, <1>10, <1>11, <1>12, <1>14, <1>15, <1>15a, <1>16

\* That the ladder was short is not forgotten once a row is given for that reason.
ShortKept == (so.short => so'.short) \/ \A i \in DOMAIN out : out[i].dist = TrueDist(out[i].row)

\* A row handed out stays right.
Kept(x, d) ==
    /\ x \in Due
    /\ d = TrueDist(x) \/ (d = INF /\ TrueDist(x) < INF /\ (so'.short \/ WithoutList(x)))
LEMMA GivenKept ==
    ASSUME ShortKept, RankOrdered, NEW i \in DOMAIN out
    PROVE  Kept(out[i].row, out[i].dist)
<1>1. /\ out[i].row \in Due
      /\ \/ out[i].dist = TrueDist(out[i].row)
         \/ out[i].dist = INF /\ TrueDist(out[i].row) < INF /\ Overlooked(out[i].row)
  BY DEF RankOrdered
<1>2. CASE out[i].dist = TrueDist(out[i].row)
  BY <1>1, <1>2 DEF Kept
<1>3. CASE out[i].dist # TrueDist(out[i].row)
  <2>1. so.short => so'.short
    BY <1>3 DEF ShortKept
  <2> QED
    BY <1>1, <1>3, <2>1 DEF Overlooked, Kept
<1> QED
  BY <1>2, <1>3

\* What has been handed out is in order when each row is right, and each pair.
LEMMA KeptOrdered ==
    ASSUME Same, \A i \in DOMAIN out' : Kept(out'[i].row, out'[i].dist),
           \A i, j \in DOMAIN out' : i < j => out'[i].dist <= out'[j].dist /\ out'[i].row # out'[j].row
    PROVE  RankOrdered'
<1>1. Due' = Due /\ \A x : TrueDist(x)' = TrueDist(x) /\ (WithoutList(x)' <=> WithoutList(x))
  BY SameFacts
<1> QED
  BY <1>1 DEF Kept, RankOrdered, Overlooked

\* What is handed out stays in order when nothing is handed out.
LEMMA OutSame ==
    ASSUME Same, out' = out, ShortKept, RankOrdered
    PROVE  RankOrdered'
<1>1. \A i, j \in DOMAIN out : i < j => out[i].dist <= out[j].dist /\ out[i].row # out[j].row
  BY DEF RankOrdered
<1>2. \A i \in DOMAIN out : Kept(out[i].row, out[i].dist)
  BY GivenKept
<1> QED
  BY <1>1, <1>2, KeptOrdered

\* Handing out one more row: it is admitted by the clause, has its distance or was overlooked,
\* comes after the others and is none of them.
LEMMA GiveFacts ==
    ASSUME World, Same, ScanType, RankOrdered, want.kind # "search",
           NEW r \in Row, NEW d \in Int, NEW recheck \in BOOLEAN, Give(r, d, recheck),
           ~recheck => Where(r), rows[r].vis, rows[r].pred, ShortKept,
           Where(r) => d = TrueDist(r) \/ (d = INF /\ TrueDist(r) < INF /\ (so'.short \/ WithoutList(r))),
           \A i \in DOMAIN out : out[i].dist <= d /\ out[i].row # r
    PROVE  /\ RankOrdered' /\ out' \in Seq([row : Row, dist : Int])
           /\ Given' = IF Where(r) THEN Given \cup {r} ELSE Given
           /\ DOMAIN out \subseteq DOMAIN out' /\ \A i \in DOMAIN out : out'[i] = out[i]
           /\ \A i \in DOMAIN out' \ DOMAIN out : out'[i] = [row |-> r, dist |-> d] /\ Where(r)
           /\ out' = out \/ out' = Append(out, [row |-> r, dist |-> d])
<1>1. out \in Seq([row : Row, dist : Int])
  BY DEF ScanType
<1>2. CASE ~Where(r)
  <2>1. out' = out
    BY <1>2 DEF Give
  <2> QED
    BY <1>1, <1>2, <2>1, OutSame DEF Given
<1>3. CASE Where(r)
  <2> DEFINE x == [row |-> r, dist |-> d]
             n == Len(out)
  <2>1. out' = Append(out, x)
    BY <1>3 DEF Give
  <2>2. x \in [row : Row, dist : Int] /\ x.row = r /\ x.dist = d
    OBVIOUS
  <2> HIDE DEF x
  <2>3. /\ out' \in Seq([row : Row, dist : Int]) /\ n \in Nat /\ DOMAIN out = 1..n
        /\ DOMAIN out' = 1..(n + 1) /\ \A i \in 1..n : out'[i] = out[i]
        /\ out'[n + 1] = x
    BY <1>1, <2>1, <2>2
  <2>4. Given' = Given \cup {r}
    <3>1. Given' = {out'[i].row : i \in 1..(n + 1)} /\ Given = {out[i].row : i \in 1..n}
      BY <2>3 DEF Given
    <3>2. 1..(n + 1) = 1..n \cup {n + 1}
      BY <2>3
    <3> QED
      BY <2>2, <2>3, <3>1, <3>2
  <2>5. r \in Due
    BY <1>3 DEF Due
  <2>7. ASSUME NEW i \in 1..(n + 1)
        PROVE  /\ Kept(out'[i].row, out'[i].dist)
               /\ \A j \in 1..(n + 1) : i < j => out'[i].dist <= out'[j].dist /\ out'[i].row # out'[j].row
    <3>1. CASE i \in 1..n
      <4>1. out'[i] = out[i] /\ i \in DOMAIN out
        BY <2>3, <3>1
      <4>2. \A j \in DOMAIN out : i < j => out[i].dist <= out[j].dist /\ out[i].row # out[j].row
        BY <4>1 DEF RankOrdered
      <4>2a. Kept(out[i].row, out[i].dist)
        BY <4>1, GivenKept
      <4>3. ASSUME NEW j \in 1..(n + 1), i < j
            PROVE  out'[i].dist <= out'[j].dist /\ out'[i].row # out'[j].row
        <5>1. CASE j \in 1..n
          BY <2>3, <4>1, <4>2, <4>3, <5>1
        <5>2. CASE j = n + 1
          BY <2>2, <2>3, <4>1, <5>2
        <5> QED
          BY <2>3, <5>1, <5>2
      <4> QED
        BY <4>1, <4>2a, <4>3
    <3>2. CASE i = n + 1
      <4>1. out'[i].row = r /\ out'[i].dist = d
        BY <2>2, <2>3, <3>2
      <4>2. \A j \in 1..(n + 1) : ~(i < j)
        BY <2>3, <3>2
      <4>3. Kept(r, d)
        BY <1>3, <2>5 DEF Kept
      <4> QED
        BY <4>1, <4>2, <4>3
    <3> QED
      BY <2>3, <3>1, <3>2
  <2>8. RankOrdered'
    BY <2>3, <2>7, KeptOrdered
  <2>9. \A i \in DOMAIN out' \ DOMAIN out : out'[i] = x
    BY <2>3
  <2> QED
    BY <1>3, <2>1, <2>3, <2>4, <2>8, <2>9 DEF x
<1> QED
  BY <1>2, <1>3

\* weave_fuse_search() is not past what it wants when it reads on.
LEMMA FuseGive ==
    ASSUME ScanType, FuseInv, ~Satisfied, want' = want, want.k \in Nat, NEW x,
           out' = out \/ out' = Append(out, x)
    PROVE  FuseInv'
<1>1. /\ out \in Seq([row : Row, dist : Int]) /\ Len(out) \in Nat /\ DOMAIN out = 1..Len(out)
      /\ \A i \in 1..Len(out) : out[i].dist \in Int
  <2> DEFINE T == [row : Row, dist : Int]
  <2>1. out \in Seq(T) /\ \A e \in T : e.dist \in Int
    BY DEF ScanType
  <2> HIDE DEF T
  <2>2. Len(out) \in Nat /\ DOMAIN out = 1..Len(out) /\ \A i \in 1..Len(out) : out[i] \in T
    BY <2>1
  <2> QED
    BY <2>1, <2>2 DEF T
<1>2. CASE out' = out
  BY <1>2 DEF FuseInv
<1>3. CASE out' = Append(out, x)
  <2> SUFFICES ASSUME want.kind = "fuse", want.k > 0
               PROVE  Len(out') <= want.k /\ \A i \in DOMAIN out' : i < Len(out') => out'[i].dist < INF
    BY DEF FuseInv
  <2>1. Len(out) <= want.k /\ \A i \in DOMAIN out : i < Len(out) => out[i].dist < INF
    BY DEF FuseInv
  <2>2. Len(out') = Len(out) + 1 /\ DOMAIN out' = 1..(Len(out) + 1) /\ \A i \in 1..Len(out) : out'[i] = out[i]
    BY <1>1, <1>3
  <2>3. CASE out = <<>>
    BY <1>1, <2>2, <2>3
  <2>4. CASE out # <<>>
    <3>1. Last(out) = out[Len(out)] /\ Len(out) \in 1..Len(out) /\ out[Len(out)].dist \in Int
      <4>1. Len(out) # 0
        BY <1>1, <2>4
      <4>2. Len(out) \in 1..Len(out)
        BY <1>1, <4>1
      <4> QED
        BY <1>1, <4>2 DEF Last
    <3>2. Len(out) # want.k /\ out[Len(out)].dist < INF
      BY <2>4, <3>1, RankBounds DEF Satisfied
    <3>3. \A i \in 1..Len(out) : out[i].dist < INF
      BY <1>1, <2>1, <3>2
    <3> QED
      BY <1>1, <2>1, <2>2, <3>2, <3>3
  <2> QED
    BY <2>3, <2>4
<1> QED
  BY <1>2, <1>3

\* A fresh scan is a record of the scan.
LEMMA FreshType ==
    ASSUME World
    PROVE  FreshScan \in ScanRecord
<1>1. NoThreshold \in Nat /\ NoGate \in (SUBSET Row) \cup {NoGate}
  BY RankBounds DEF NoThreshold
<1>2. <<>> \in Seq(Row) /\ <<>> \in Seq(Nat) /\ {} \in SUBSET Row
  OBVIOUS
<1> HIDE DEF NoGate, NoThreshold
<1> QED
  BY <1>1, <1>2 DEF FreshScan, ScanRecord

\* The first pass.
LEMMA OrderInitStep ==
    ASSUME IInv, OrderInit
    PROVE  IInv'
<1> DEFINE mh == CASE want.kind = "lex" -> weave_query_maxhits(want.q)
                   [] want.kind = "fuse" -> FuseMaxHits
                   [] OTHER -> 0
           s == [so EXCEPT !.phase = "ranked", !.width = FirstWidth, !.maxhits = mh]
           g == GateOf(s)
<1>1. World /\ ScanType /\ PhaseInv /\ RankOrdered /\ RankComplete
  BY DEF IInv
<1>2. so.phase = "start" /\ want.kind # "search" /\ so' = Pass(s) /\ out' = out /\ ~Satisfied
  BY DEF OrderInit, Scan
<1>3. Same
  BY DEF OrderInit, Scan, Same, indexVars
<1>4. so = FreshScan /\ out = <<>> /\ so \in ScanRecord
  BY <1>1, <1>2 DEF PhaseInv, ScanType
<1>5. want.kind \in {"lex", "vec", "edist", "fuse"} /\ want.hint \in Nat /\ want.k \in Nat
  BY <1>1, <1>2, KeyFacts
<1>6. FirstWidth \in Nat /\ FirstWidth >= 1
  <2>1. InitialK \in Nat
    BY RankBounds
  <2>2. 0 \in Nat
    OBVIOUS
  <2> QED
    BY <1>5, <2>1, <2>2, WidthFacts DEF FirstWidth
<1>7. mh \in Nat /\ (want.kind \in {"lex", "fuse"} /\ UnionCounted => Cardinality(Found) <= mh)
  BY <1>1, <1>5, MaxHits
<1> HIDE DEF mh
<1>7a. want.kind \in {"lex", "fuse"} /\ UnionCounted => Cardinality(Counted) <= mh
  <2>1. Found \in SUBSET Row /\ IsFiniteSet(Found) /\ Cardinality(Found) \in Nat
    BY <1>1, FoundFacts DEF Rankable
  <2>2. Cardinality(Counted) <= Cardinality(Found) /\ Cardinality(Counted) \in Nat
    BY <2>1, FS_Subset, FS_CardinalityType DEF Counted
  <2> QED
    BY <1>7, <2>1, <2>2
<1>8. /\ s \in ScanRecord /\ s.phase = "ranked" /\ s.ordered = <<>> /\ s.ordpos = 0
      /\ s.width = FirstWidth /\ s.maxhits = mh /\ s.nulls = <<>>
      /\ s.plain = NoGate /\ s.plainRecheck = FALSE /\ s.gateLex = FALSE
  <2> DEFINE r1 == [so EXCEPT !.phase = "ranked"]
             r2 == [r1 EXCEPT !.width = FirstWidth]
  <2>1. r1 \in ScanRecord
    BY <1>4 DEF ScanRecord
  <2>2. r2 \in ScanRecord
    <3> HIDE DEF r1
    <3> QED
      BY <1>6, <2>1 DEF ScanRecord
  <2>3. s = [r2 EXCEPT !.maxhits = mh]
    OBVIOUS
  <2>4. s \in ScanRecord
    <3> HIDE DEF r2, s
    <3> QED
      BY <1>7, <2>2, <2>3 DEF ScanRecord
  <2> QED
    BY <1>4, <2>4 DEF FreshScan
<1> HIDE DEF s
<1>9. PICK p \in (SUBSET Row) \cup {NoGate}, a \in BOOLEAN, b \in BOOLEAN :
        GateSets(s, g, p, a, b) /\ GateInv(g)
  BY <1>1, <1>2, <1>8, FirstGate
<1>10. /\ g \in ScanRecord /\ g.phase = s.phase /\ g.ordered = s.ordered /\ g.ordpos = s.ordpos
       /\ g.thr = s.thr /\ g.nulls = s.nulls /\ g.width = s.width /\ g.maxhits = s.maxhits
  BY <1>9 DEF GateSets
<1>11. HitsInv(g)
  BY <1>6, <1>7a, <1>8, <1>10 DEF HitsInv
<1>12. TakenInv(g, g)
  <2>1. g.ordered = <<>>
    BY <1>8, <1>10
  <2>2. g.ordered \in Seq(Row) /\ Distinct(g.ordered) /\ Nearest(g.ordered) /\ Taken(g) = {}
    BY <2>1 DEF Distinct, Nearest, Taken, ToSet
  <2> QED
    BY <2>2 DEF TakenInv
<1> HIDE DEF g
<1>13. g = GateOf(s)
  BY DEF g
<1>14. /\ so' \in ScanRecord /\ so'.phase = "ranked" /\ so'.ordered = <<>> /\ so'.ordpos = 0
       /\ so'.nulls = <<>> /\ so'.candpos = 0
       /\ PassInv(so') /\ LadderInv(so') /\ HitsInv(so') /\ GateInv(so')
  BY <1>1, <1>2, <1>8, <1>9, <1>10, <1>11, <1>12, <1>13, PassStep
<1>15. World' /\ RankOrdered' /\ ScanRecord' = ScanRecord
  <2>1. ShortKept
    BY <1>4 DEF ShortKept
  <2> QED
    BY <1>1, <1>2, <1>3, <2>1, SameFacts, OutSame
<1>16. ScanType'
  <2>1. so'.ordpos <= Len(so'.ordered) /\ so'.candpos <= Len(so'.cand)
    <3>1. so'.cand \in Seq(Row)
      BY <1>14 DEF ScanRecord
    <3> QED
      BY <1>14, <3>1
  <2>2. out' \in Seq([row : Row, dist : Int])' /\ so' \in ScanRecord'
    BY <1>1, <1>2, <1>3, <1>14, <1>15, SameFacts DEF ScanType
  <2> QED
    BY <2>1, <2>2 DEF ScanType
<1>17. PhaseInv'
  <2>1. want' = want
    BY <1>3 DEF Same
  <2>2. FuseInv'
    BY <1>2, <1>4, <1>5, <2>1 DEF FuseInv
  <2>3. GivenInv'
    BY <1>2, <1>4, <1>14 DEF GivenInv
  <2>4. PassInv(so)' /\ LadderInv(so)' /\ HitsInv(so)' /\ GateInv(so)'
    BY <1>3, <1>14, SameFacts
  <2> QED
    BY <1>2, <1>14, <2>1, <2>2, <2>3, <2>4 DEF PhaseInv
<1>18. RankComplete'
  BY <1>14 DEF RankComplete
<1> QED
  BY <1>15, <1>16, <1>17, <1>18 DEF IInv

\* What the ladder has between two passes, once all candidates are probed.
LEMMA LadderTaken ==
    ASSUME World, ScanType, LadderInv(so), so.candpos >= Len(so.cand)
    PROVE  /\ Left(so) = {} /\ (~GrowProves(so) => TakenInv(so, so))
           /\ so.ordered \in Seq(Row) /\ Distinct(so.ordered) /\ Nearest(so.ordered)
           /\ Taken(so) \subseteq Admitted(so)
           /\ GrowProves(so) /\ ~so.short => Admitted(so) \subseteq Taken(so)
<1>1. so \in ScanRecord /\ so.candpos <= Len(so.cand)
  BY DEF ScanType
<1>2. so.cand \in Seq(Row) /\ so.candpos \in Nat /\ so.ordered \in Seq(Row)
  BY <1>1 DEF ScanRecord
<1>3. so.candpos = Len(so.cand) /\ Len(so.cand) \in Nat
  BY <1>1, <1>2
<1>4. \A j : ~(j \in (so.candpos + 1)..Len(so.cand))
  BY <1>3
<1>5. Left(so) = {}
  BY <1>4 DEF Left
<1> QED
  BY <1>2, <1>5 DEF LadderInv, TakenInv, Exact

\* A wider pass.
LEMMA GrowStep ==
    ASSUME IInv, Grow
    PROVE  IInv'
<1> DEFINE s == Grown(so)
           g == GateOf(s)
<1>1. World /\ ScanType /\ PhaseInv /\ RankOrdered /\ RankComplete
  BY DEF IInv
<1>2. so.phase = "ranked" /\ so.ordpos >= Len(so.ordered) /\ so.candpos >= Len(so.cand)
      /\ so' = Pass(s) /\ out' = out /\ ~Satisfied /\ ~GrowProves(so)
  BY DEF Grow, Scan, OutOfCandidates, Exhausted, Grown
<1>3. Same
  BY DEF Grow, Scan, Same, indexVars
<1>4. /\ want.kind # "search" /\ FuseInv /\ PassInv(so) /\ LadderInv(so) /\ HitsInv(so) /\ GateInv(so)
      /\ GivenInv /\ so \in ScanRecord
  BY <1>1, <1>2 DEF PhaseInv, ScanType
<1>5. /\ s \in ScanRecord /\ s.width >= 1
      /\ s.phase = so.phase /\ s.ordered = so.ordered /\ s.ordpos = so.ordpos
      /\ s.maxhits = so.maxhits /\ s.nulls = so.nulls
      /\ s.plain = so.plain /\ s.plainRecheck = so.plainRecheck /\ s.gateLex = so.gateLex
  BY <1>1, <1>4, GrownFacts DEF HitsInv
<1> HIDE DEF s
<1>6. g = s
  BY <1>4, <1>5 DEF GateOf, EdistGate, FuseGate, GateInv
<1>7. TakenInv(so, so)
  BY <1>1, <1>2, <1>4, LadderTaken
<1>8. GateInv(s) /\ Admitted(s) = Admitted(so)
  BY <1>4, <1>5, GateSame
<1>9. TakenInv(s, s)
  BY <1>5, <1>7, <1>8 DEF TakenInv, Taken
<1>10. HitsInv(s)
  BY <1>4, <1>5 DEF HitsInv
<1>11. /\ so' \in ScanRecord /\ so'.phase = "ranked" /\ so'.ordered = so.ordered /\ so'.ordpos = so.ordpos
       /\ so'.nulls = so.nulls /\ so'.candpos = 0
       /\ PassInv(so') /\ LadderInv(so') /\ HitsInv(so') /\ GateInv(so')
  BY <1>1, <1>2, <1>4, <1>5, <1>6, <1>8, <1>9, <1>10, PassStep
<1>12. World' /\ RankOrdered' /\ ScanRecord' = ScanRecord
  <2>1. ShortKept
    BY <1>4 DEF ShortKept, GivenInv
  <2> QED
    BY <1>1, <1>2, <1>3, <2>1, SameFacts, OutSame
<1>13. ScanType'
  <2>1. so'.ordpos <= Len(so'.ordered) /\ so'.candpos <= Len(so'.cand)
    <3>1. so'.cand \in Seq(Row)
      BY <1>11 DEF ScanRecord
    <3> QED
      BY <1>1, <1>11, <3>1 DEF ScanType
  <2>2. out' \in Seq([row : Row, dist : Int])' /\ so' \in ScanRecord'
    BY <1>1, <1>2, <1>3, <1>11, <1>12, SameFacts DEF ScanType
  <2> QED
    BY <2>1, <2>2 DEF ScanType
<1>14. PhaseInv'
  <2>1. want' = want
    BY <1>3 DEF Same
  <2>2. FuseInv'
    BY <1>2, <1>4, <2>1 DEF FuseInv
  <2>3. GivenInv'
    <3>1. \A r : (Where(r)' <=> Where(r)) /\ TrueDist(r)' = TrueDist(r)
      BY <1>3, SameFacts
    <3>2. Given' = Given
      BY <1>2 DEF Given
    <3> QED
      BY <1>2, <1>4, <1>11, <3>1, <3>2 DEF GivenInv
  <2>4. PassInv(so)' /\ LadderInv(so)' /\ HitsInv(so)' /\ GateInv(so)'
    BY <1>3, <1>11, SameFacts
  <2> QED
    BY <1>4, <1>11, <2>1, <2>2, <2>3, <2>4 DEF PhaseInv
<1>15. RankComplete'
  BY <1>11 DEF RankComplete
<1> QED
  BY <1>12, <1>13, <1>14, <1>15 DEF IInv

\* A scan that ends keeps what it has handed out.
LEMMA EndType ==
    ASSUME World, ScanType, Same, NEW p \in {"done", "error"}, so' = [so EXCEPT !.phase = p], out' = out,
           RankOrdered, RankComplete'
    PROVE  IInv'
<1>1. so \in ScanRecord /\ so.ordpos <= Len(so.ordered) /\ so.candpos <= Len(so.cand)
      /\ out \in Seq([row : Row, dist : Int])
  BY DEF ScanType
<1>2. /\ so' \in ScanRecord /\ so'.phase = p
      /\ so'.ordered = so.ordered /\ so'.ordpos = so.ordpos
      /\ so'.cand = so.cand /\ so'.candpos = so.candpos
  BY <1>1 DEF ScanRecord
<1>3. World' /\ RankOrdered' /\ ScanRecord' = ScanRecord /\ Row' = Row
  <2>1. ShortKept
    BY <1>1 DEF ShortKept, ScanRecord
  <2> QED
    BY <2>1, SameFacts, OutSame
<1>4. ScanType'
  BY <1>1, <1>2, <1>3 DEF ScanType
<1>5. PhaseInv'
  BY <1>2 DEF PhaseInv
<1> QED
  BY <1>3, <1>4, <1>5 DEF IInv

\* The limit is an error.
LEMMA GrowErrorStep ==
    ASSUME IInv, GrowError
    PROVE  IInv'
<1>1. World /\ ScanType /\ PhaseInv /\ RankOrdered /\ RankComplete
  BY DEF IInv
<1>2. so' = [so EXCEPT !.phase = "error"] /\ out' = out
  BY DEF GrowError, Scan
<1>3. Same
  BY DEF GrowError, Scan, Same, indexVars
<1>4. RankComplete'
  BY <1>1, <1>2 DEF RankComplete, ScanType, ScanRecord
<1> QED
  BY <1>1, <1>2, <1>3, <1>4, EndType

\* The elements of a sequence put behind another.
LEMMA ConcatFacts ==
    ASSUME NEW T, NEW a \in Seq(T), NEW b \in Seq(T)
    PROVE  LET c == a \o b IN
           /\ c \in Seq(T) /\ Len(c) = Len(a) + Len(b) /\ DOMAIN c = 1..(Len(a) + Len(b))
           /\ \A i \in 1..Len(a) : c[i] = a[i]
           /\ \A i \in 1..(Len(a) + Len(b)) : i > Len(a) => i - Len(a) \in 1..Len(b) /\ c[i] = b[i - Len(a)]
<1>1. Len(a) \in Nat /\ Len(b) \in Nat
  OBVIOUS
<1>2. a \o b \in Seq(T) /\ Len(a \o b) = Len(a) + Len(b)
  OBVIOUS
<1>3. \A i \in 1..(Len(a) + Len(b)) : (a \o b)[i] = IF i <= Len(a) THEN a[i] ELSE b[i - Len(a)]
  OBVIOUS
<1>4. \A i \in 1..(Len(a) + Len(b)) : i > Len(a) => i - Len(a) \in 1..Len(b)
  BY <1>1
<1>5. DOMAIN (a \o b) = 1..(Len(a) + Len(b))
  BY <1>1, <1>2
<1>6. \A i \in 1..Len(a) : (a \o b)[i] = a[i]
  BY <1>1, <1>3
<1>7. \A i \in 1..(Len(a) + Len(b)) : i > Len(a) => (a \o b)[i] = b[i - Len(a)]
  BY <1>1, <1>3
<1> QED
  BY <1>2, <1>4, <1>5, <1>6, <1>7

\* u is o and then the elements of c at the positions D.
Joined(u, o, c, D) ==
    /\ u \in Seq(Row) /\ Len(o) <= Len(u) /\ \A j \in 1..Len(o) : u[j] = o[j]
    /\ ToSet(u) = ToSet(o) \cup {c[k] : k \in D}
    /\ \A i, j \in DOMAIN u : i < j =>
         \/ i \in DOMAIN o /\ j \in DOMAIN o /\ u[i] = o[i] /\ u[j] = o[j]
         \/ u[i] \in ToSet(o) /\ u[j] \in {c[k] : k \in D}
         \/ \E k, l \in D : k < l /\ u[i] = c[k] /\ u[j] = c[l]

\* Appending what is picked does that.
LEMMA JoinFacts ==
    ASSUME NEW o \in Seq(Row), NEW c \in Seq(Row), NEW D \in SUBSET DOMAIN c
    PROVE  Joined(o \o Pick(c, D), o, c, D)
<1> DEFINE q == Pick(c, D)
           p == Asc(D)
           u == o \o q
           n == Len(o)
           m == Len(q)
<1>1. /\ q \in Seq(Row) /\ DOMAIN q = 1..m /\ m \in Nat
      /\ \A k \in DOMAIN q : p[k] \in D /\ q[k] = c[p[k]]
      /\ \A i \in D : \E k \in DOMAIN q : p[k] = i
      /\ \A i, j \in DOMAIN q : i < j => p[i] < p[j]
  BY PickFacts
<1> HIDE DEF p, q
<1>2. /\ u \in Seq(Row) /\ Len(u) = n + m /\ DOMAIN u = 1..(n + m)
      /\ \A i \in 1..n : u[i] = o[i]
      /\ \A i \in 1..(n + m) : i > n => i - n \in 1..m /\ u[i] = q[i - n]
  BY <1>1, ConcatFacts
<1>3. n \in Nat /\ DOMAIN o = 1..n
  OBVIOUS
<1> DEFINE New == {c[k] : k \in D}
<1>4. ToSet(o) = {o[i] : i \in 1..n} /\ ToSet(u) = {u[i] : i \in 1..(n + m)}
  BY <1>2, <1>3 DEF ToSet
<1> HIDE DEF u, n, m
<1>5. \A i \in 1..(n + m) : \/ i \in 1..n /\ u[i] = o[i]
                            \/ i > n /\ i - n \in 1..m /\ p[i - n] \in D /\ u[i] = c[p[i - n]]
  <2>1. \A i \in 1..(n + m) : i \in 1..n \/ i > n
    BY <1>1, <1>3
  <2> QED
    BY <1>1, <1>2, <2>1
<1>6. ToSet(u) \subseteq ToSet(o) \cup New
  BY <1>4, <1>5
<1>7. ToSet(o) \subseteq ToSet(u)
  <2>1. \A i \in 1..n : i \in 1..(n + m)
    BY <1>1, <1>3
  <2> QED
    BY <1>2, <1>4, <2>1
<1>8. New \subseteq ToSet(u)
  <2> SUFFICES ASSUME NEW i \in D PROVE c[i] \in ToSet(u)
    OBVIOUS
  <2>1. PICK k \in 1..m : p[k] = i
    BY <1>1
  <2> DEFINE e == n + k
  <2>2. e \in 1..(n + m) /\ e > n /\ e - n = k
    BY <1>1, <1>3, <2>1
  <2> HIDE DEF e
  <2>3. u[e] = q[k]
    BY <1>2, <2>2
  <2>4. q[k] = c[i]
    BY <1>1, <2>1
  <2> QED
    BY <1>4, <2>2, <2>3, <2>4
<1>9. ASSUME NEW i \in 1..(n + m), NEW j \in 1..(n + m), i < j
      PROVE  \/ i \in DOMAIN o /\ j \in DOMAIN o /\ u[i] = o[i] /\ u[j] = o[j]
             \/ u[i] \in ToSet(o) /\ u[j] \in New
             \/ \E k, l \in D : k < l /\ u[i] = c[k] /\ u[j] = c[l]
  <2>1. CASE j \in 1..n
    <3>1. i \in 1..n
      BY <1>1, <1>3, <1>9, <2>1
    <3> QED
      BY <1>2, <1>3, <2>1, <3>1
  <2>2. CASE j > n /\ p[j - n] \in D /\ u[j] = c[p[j - n]] /\ i \in 1..n
    BY <1>2, <1>4, <2>2
  <2>3. CASE /\ j > n /\ j - n \in 1..m /\ p[j - n] \in D /\ u[j] = c[p[j - n]]
             /\ i > n /\ i - n \in 1..m /\ p[i - n] \in D /\ u[i] = c[p[i - n]]
    <3>1. i - n < j - n
      BY <1>1, <1>3, <1>9
    <3>2. p[i - n] < p[j - n]
      BY <1>1, <2>3, <3>1
    <3> QED
      BY <2>3, <3>2
  <2> QED
    BY <1>5, <2>1, <2>2, <2>3
<1>10. Len(o) <= Len(u) /\ \A j \in 1..Len(o) : u[j] = o[j]
  BY <1>1, <1>2, <1>3 DEF n
<1>11. ToSet(u) = ToSet(o) \cup New
  BY <1>6, <1>7, <1>8
<1> HIDE DEF New
<1>12. u \in Seq(Row) /\ DOMAIN u = 1..(n + m)
  BY <1>2
<1>13. Joined(u, o, c, D)
  BY <1>9, <1>10, <1>11, <1>12 DEF Joined, New
<1> QED
  BY <1>13 DEF u, q

\* Taking the visible ones of the next candidates keeps the ladder.
LEMMA ProbeLadder ==
    ASSUME World, NEW s \in ScanRecord, PassInv(s), LadderInv(s),
           NEW stop \in Nat, s.candpos < stop, stop <= Len(s.cand),
           NEW D, D = {i \in (s.candpos + 1)..stop : rows[s.cand[i]].vis},
           NEW t, t.cand = s.cand, t.candpos = stop, Joined(t.ordered, s.ordered, s.cand, D),
           t.plain = s.plain, t.candfull = s.candfull, t.width = s.width, t.maxhits = s.maxhits,
           t.short = s.short
    PROVE  PassInv(t) /\ LadderInv(t)
<1> DEFINE c == s.cand
           o == s.ordered
           u == t.ordered
           L == Len(c)
           New == {c[k] : k \in D}
<1>1. /\ c \in Seq(Row) /\ o \in Seq(Row) /\ s.candpos \in Nat /\ L \in Nat
      /\ DOMAIN c = 1..L /\ stop <= L
  BY DEF ScanRecord
<1>2. \A i : i \in D <=> i \in Int /\ s.candpos < i /\ i <= stop /\ rows[c[i]].vis
  BY <1>1
<1>3. /\ Distinct(c) /\ Nearest(c)
      /\ \A i \in DOMAIN c : /\ Ranks(c[i]) /\ Gated(s, c[i])
                             /\ rows[c[i]].vis => place[c[i]] # OUT
  BY DEF PassInv
<1>4. /\ ToSet(u) = ToSet(o) \cup New
      /\ \A i, j \in DOMAIN u : i < j =>
           \/ i \in DOMAIN o /\ j \in DOMAIN o /\ u[i] = o[i] /\ u[j] = o[j]
           \/ u[i] \in ToSet(o) /\ u[j] \in New
           \/ \E k, l \in D : k < l /\ u[i] = c[k] /\ u[j] = c[l]
      /\ DOMAIN u = 1..Len(u) /\ Len(u) \in Nat
  BY DEF Joined
<1>5. /\ \A x : x \in Left(s) <=> \E j \in (s.candpos + 1)..L : c[j] = x
      /\ \A x : x \in Left(t) <=> \E j \in (stop + 1)..L : c[j] = x
  BY DEF Left
<1>6. Taken(s) = ToSet(o) /\ Taken(t) = ToSet(u)
  BY DEF Taken
<1>7. PassInv(t)
  BY DEF PassInv, Gated
<1>8. Taken(s) \cap Left(s) = {} /\ Taken(s) \subseteq Admitted(s) /\ Distinct(o) /\ Nearest(o)
       /\ (\A x \in Taken(s) : \A y \in Left(s) \cap Ranked : Dist(x) <= Dist(y))
       /\ (Exact(s) => \A x \in Taken(s) \cup (Left(s) \cap Ranked) :
             \A y \in Admitted(s) \ (Taken(s) \cup Left(s)) : Dist(x) <= Dist(y))
       /\ (GrowProves(s) /\ ~s.short => Admitted(s) \subseteq Taken(s) \cup Left(s))
  BY DEF LadderInv
<1>9. Admitted(t) = Admitted(s) /\ (GrowProves(t) <=> GrowProves(s)) /\ Admitted(s) \subseteq Ranked
      /\ (Exact(t) <=> Exact(s))
  BY DEF Admitted, Gated, GrowProves, Exact
<1> HIDE DEF c, o, u, L
<1>10. \A i \in D : i \in DOMAIN c /\ i \in Int /\ i \in (s.candpos + 1)..L
  BY <1>1, <1>2
<1>11. \A x \in New : x \in Left(s) /\ x \in Admitted(s) /\ x \in Ranked
  <2> SUFFICES ASSUME NEW i \in D PROVE c[i] \in Left(s) /\ c[i] \in Admitted(s) /\ c[i] \in Ranked
    OBVIOUS
  <2>1. i \in DOMAIN c /\ i \in (s.candpos + 1)..L /\ rows[c[i]].vis
    BY <1>2, <1>10
  <2>2. c[i] \in Row
    BY <1>1, <2>1
  <2>3. Ranks(c[i]) /\ Gated(s, c[i]) /\ place[c[i]] # OUT
    BY <1>3, <2>1
  <2> QED
    BY <1>5, <2>1, <2>2, <2>3 DEF Admitted, Ranked
<1>12. \A x \in Left(t) : x \in Left(s)
  <2>1. \A j \in (stop + 1)..L : j \in (s.candpos + 1)..L
    BY <1>1
  <2> QED
    BY <1>5, <2>1
<1>13. ASSUME NEW x \in Left(s) \cap Ranked, x \notin Left(t) PROVE x \in New
  <2>1. PICK j \in (s.candpos + 1)..L : c[j] = x
    BY <1>5
  <2>2. ~(j \in (stop + 1)..L)
    BY <1>5, <1>13, <2>1
  <2>3. j \in Int /\ s.candpos < j /\ j <= stop
    BY <1>1, <2>1, <2>2
  <2>4. rows[c[j]].vis
    BY <2>1 DEF Ranked
  <2> QED
    BY <1>2, <2>1, <2>3, <2>4
<1>14. ASSUME NEW x \in New, NEW y \in Left(t) PROVE x # y /\ Dist(x) <= Dist(y)
  <2>1. PICK i \in D : c[i] = x
    OBVIOUS
  <2>2. PICK j \in (stop + 1)..L : c[j] = y
    BY <1>5
  <2>3. i \in DOMAIN c /\ j \in DOMAIN c /\ i < j /\ i \in Int /\ j \in Int
    BY <1>1, <1>2, <1>10
  <2> QED
    BY <1>3, <2>1, <2>2, <2>3 DEF Distinct, Nearest
<1> HIDE DEF New
<1>15. ASSUME NEW i \in DOMAIN u, NEW j \in DOMAIN u, i < j
       PROVE  u[i] # u[j] /\ Dist(u[i]) <= Dist(u[j])
  <2>1. CASE i \in DOMAIN o /\ j \in DOMAIN o /\ u[i] = o[i] /\ u[j] = o[j]
    <3>1. i \in Int /\ j \in Int /\ i # j
      BY <1>4, <1>15
    <3> QED
      BY <1>8, <1>15, <2>1, <3>1 DEF Distinct, Nearest
  <2>2. CASE u[i] \in ToSet(o) /\ u[j] \in New
    BY <1>6, <1>8, <1>11, <2>2
  <2>3. CASE \E k, l \in D : k < l /\ u[i] = c[k] /\ u[j] = c[l]
    <3>1. PICK k \in D, l \in D : k < l /\ u[i] = c[k] /\ u[j] = c[l]
      BY <2>3
    <3>2. k \in DOMAIN c /\ l \in DOMAIN c /\ k # l
      BY <1>10, <3>1
    <3> QED
      BY <1>3, <3>1, <3>2 DEF Distinct, Nearest
  <2> QED
    BY <1>4, <1>15, <2>1, <2>2, <2>3
<1>16. Distinct(u) /\ Nearest(u)
  <2>1. \A i, j \in DOMAIN u : i < j \/ j < i \/ i = j
    BY <1>4
  <2> QED
    BY <1>15, <2>1 DEF Distinct, Nearest
<1>17. \A x : x \in Taken(t) <=> x \in Taken(s) \/ x \in New
  BY <1>4, <1>6
<1>18. Taken(t) \subseteq Admitted(t) /\ Taken(t) \cap Left(t) = {}
  BY <1>8, <1>9, <1>11, <1>12, <1>14, <1>17
<1>19. ASSUME NEW x \in Taken(t), NEW y \in Left(t) \cap Ranked PROVE Dist(x) <= Dist(y)
  BY <1>8, <1>12, <1>14, <1>17
<1>20. ASSUME Exact(t), NEW x \in Taken(t) \cup (Left(t) \cap Ranked),
              NEW y \in Admitted(t) \ (Taken(t) \cup Left(t))
       PROVE  Dist(x) <= Dist(y)
  <2>1. x \in Taken(s) \cup (Left(s) \cap Ranked)
    BY <1>11, <1>12, <1>17
  <2>2. y \in Admitted(s) \ (Taken(s) \cup Left(s))
    BY <1>9, <1>13, <1>17
  <2> QED
    BY <1>8, <1>9, <1>20, <2>1, <2>2
<1>21. ASSUME GrowProves(t), ~t.short, NEW y \in Admitted(t) PROVE y \in Taken(t) \cup Left(t)
  BY <1>8, <1>9, <1>13, <1>17, <1>21
<1>22. LadderInv(t)
  BY <1>16, <1>18, <1>19, <1>20, <1>21 DEF LadderInv, u
<1> QED
  BY <1>7, <1>22

\* A probe.
LEMMA ProbeStep ==
    ASSUME IInv, weave_ord_probe
    PROVE  IInv'
<1> DEFINE V(n) == {i \in (so.candpos + 1)..n : rows[so.cand[i]].vis}
           room == BatchSize - Len(so.ordered)
           S == {Len(so.cand)} \cup {n \in (so.candpos + 1)..Len(so.cand) : Cardinality(V(n)) >= room}
           stop == Min(S)
           q == Pick(so.cand, V(stop))
<1>1. World /\ ScanType /\ PhaseInv /\ RankOrdered /\ RankComplete
  BY DEF IInv
<1>2. so.phase = "ranked" /\ so.candpos < Len(so.cand) /\ out' = out
      /\ so' = [so EXCEPT !.ordered = @ \o q, !.candpos = stop]
  BY DEF weave_ord_probe, Scan, Exhausted
<1>3. Same
  BY DEF weave_ord_probe, Scan, Same, indexVars
<1>4. /\ want.kind # "search" /\ FuseInv /\ PassInv(so) /\ LadderInv(so) /\ HitsInv(so) /\ GateInv(so)
      /\ GivenInv /\ so \in ScanRecord /\ so.ordpos <= Len(so.ordered)
  BY <1>1, <1>2 DEF PhaseInv, ScanType
<1>5. so.cand \in Seq(Row) /\ so.ordered \in Seq(Row) /\ so.candpos \in Nat /\ Len(so.cand) \in Nat
      /\ so.ordpos \in Nat /\ Len(so.ordered) \in Nat
  BY <1>4 DEF ScanRecord
<1> HIDE DEF room
<1>6. stop \in Nat /\ so.candpos < stop /\ stop <= Len(so.cand)
  <2>1. S \in SUBSET Nat /\ S # {} /\ \A n \in S : so.candpos < n /\ n <= Len(so.cand)
    BY <1>2, <1>5
  <2> HIDE DEF S
  <2>2. Min(S) \in S
    BY <2>1, LeastNat
  <2> QED
    BY <2>1, <2>2
<1> HIDE DEF S, stop
<1>7. q \in Seq(Row)
  <2>1. V(stop) \in SUBSET DOMAIN so.cand
    BY <1>5, <1>6
  <2> QED
    BY <1>5, <2>1, PickFacts
<1> HIDE DEF q
<1>8. /\ so' \in ScanRecord /\ so'.phase = so.phase /\ so'.ordered = so.ordered \o q
      /\ so'.ordpos = so.ordpos /\ so'.cand = so.cand /\ so'.candpos = stop /\ so'.nulls = so.nulls
      /\ so'.plain = so.plain /\ so'.plainRecheck = so.plainRecheck /\ so'.gateLex = so.gateLex
      /\ so'.candfull = so.candfull /\ so'.width = so.width /\ so'.maxhits = so.maxhits
      /\ so'.short = so.short
  <2> DEFINE o == so.ordered \o q
             r1 == [so EXCEPT !.ordered = o]
  <2>1. o \in Seq(Row)
    BY <1>5, <1>7
  <2> HIDE DEF o
  <2>2. r1 \in ScanRecord
    BY <1>4, <2>1 DEF ScanRecord
  <2>3. so' = [r1 EXCEPT !.candpos = stop]
    BY <1>2 DEF o
  <2>4. so' \in ScanRecord
    <3> HIDE DEF r1
    <3> QED
      BY <1>6, <2>2, <2>3 DEF ScanRecord
  <2> QED
    BY <1>2, <1>4, <2>4 DEF ScanRecord
<1>9. /\ so'.ordered \in Seq(Row) /\ PassInv(so') /\ LadderInv(so')
      /\ Len(so.ordered) <= Len(so'.ordered) /\ \A j \in 1..Len(so.ordered) : so'.ordered[j] = so.ordered[j]
  <2> DEFINE t == so'
             D == V(stop)
             o == so.ordered
             c == so.cand
  <2>1. D \in SUBSET DOMAIN c
    BY <1>5, <1>6
  <2>2. /\ t.cand = so.cand /\ t.candpos = stop /\ t.ordered = o \o Pick(c, D)
        /\ t.plain = so.plain /\ t.candfull = so.candfull /\ t.width = so.width /\ t.maxhits = so.maxhits
        /\ t.short = so.short
    BY <1>8 DEF q
  <2>3. o \in Seq(Row) /\ c \in Seq(Row) /\ D = {i \in (so.candpos + 1)..stop : rows[so.cand[i]].vis}
        /\ o = so.ordered /\ c = so.cand
    BY <1>5
  <2> HIDE DEF t, D, o, c
  <2>4. Joined(t.ordered, o, c, D)
    BY <2>1, <2>2, <2>3, JoinFacts
  <2>5. PassInv(t) /\ LadderInv(t)
    BY <1>1, <1>4, <1>6, <2>2, <2>3, <2>4, ProbeLadder
  <2>6. t.ordered \in Seq(Row) /\ Len(o) <= Len(t.ordered) /\ \A j \in 1..Len(o) : t.ordered[j] = o[j]
    BY <2>4 DEF Joined
  <2> QED
    BY <2>5, <2>6 DEF t, o
<1>10. GateInv(so') /\ HitsInv(so')
  BY <1>4, <1>8, GateSame DEF HitsInv
<1>11. World' /\ RankOrdered' /\ ScanRecord' = ScanRecord /\ Row' = Row
  <2>1. ShortKept
    BY <1>8 DEF ShortKept
  <2> QED
    BY <1>1, <1>2, <1>3, <2>1, SameFacts, OutSame
<1>12. ScanType'
  <2>1. so'.ordpos <= Len(so'.ordered) /\ so'.candpos <= Len(so'.cand)
    <3>1. Len(so'.ordered) \in Nat
      BY <1>9
    <3> QED
      BY <1>4, <1>5, <1>6, <1>8, <1>9, <3>1
  <2>2. out' \in Seq([row : Row, dist : Int])' /\ so' \in ScanRecord'
    BY <1>1, <1>2, <1>8, <1>11 DEF ScanType
  <2> QED
    BY <2>1, <2>2 DEF ScanType
<1>13. PhaseInv'
  <2>1. want' = want
    BY <1>3 DEF Same
  <2>2. FuseInv'
    BY <1>2, <1>4, <2>1 DEF FuseInv
  <2>3. GivenInv'
    <3>1. \A r : (Where(r)' <=> Where(r)) /\ TrueDist(r)' = TrueDist(r)
      BY <1>3, SameFacts
    <3>2. Given' = Given
      BY <1>2 DEF Given
    <3>3. \A j \in 1..so.ordpos : so'.ordered[j] = so.ordered[j]
      BY <1>4, <1>5, <1>9
    <3>4. so'.nulls = <<>> /\ so'.ordpos = so.ordpos /\ out' = out
      BY <1>2, <1>4, <1>8 DEF GivenInv
    <3>5. /\ \A i \in DOMAIN out : \E j \in 1..so.ordpos : out[i].row = so.ordered[j]
          /\ \A j \in 1..so.ordpos : Where(so.ordered[j]) => so.ordered[j] \in Given
          /\ \A i \in DOMAIN out : out[i].dist = TrueDist(out[i].row)
      BY <1>4 DEF GivenInv
    <3>6. \A i \in DOMAIN out : \E j \in 1..so.ordpos : out[i].row = so'.ordered[j]
      BY <3>3, <3>5
    <3>7. \A j \in 1..so.ordpos : Where(so.ordered[j])' => so'.ordered[j] \in Given'
      BY <3>1, <3>2, <3>3, <3>5
    <3> QED
      BY <3>1, <3>4, <3>5, <3>6, <3>7 DEF GivenInv
  <2>4. PassInv(so)' /\ LadderInv(so)' /\ HitsInv(so)' /\ GateInv(so)'
    BY <1>3, <1>9, <1>10, SameFacts
  <2> QED
    BY <1>2, <1>4, <1>8, <2>1, <2>2, <2>3, <2>4 DEF PhaseInv
<1>14. RankComplete'
  BY <1>2, <1>8 DEF RankComplete
<1> QED
  BY <1>11, <1>12, <1>13, <1>14 DEF IInv

\* A row of the ranking is one the predicate admits, at its own distance.
LEMMA RankedFacts ==
    ASSUME World, NEW r \in Ranked
    PROVE  /\ r \in Row /\ rows[r].vis /\ rows[r].pred /\ Ranks(r) /\ place[r] # OUT
           /\ TrueDist(r) = Dist(r) /\ Dist(r) \in Nat /\ Dist(r) < INF
<1>1. r \in Row /\ rows[r].vis /\ place[r] # OUT /\ Ranks(r)
  BY DEF Ranked
<1>2. rows[r].pred
  BY <1>1 DEF World, Lists, Row
<1>3. Dist(r) \in Nat /\ Dist(r) < INF /\ ~KeyNull(r)
  BY <1>1, DistFacts
<1> QED
  BY <1>1, <1>2, <1>3 DEF TrueDist

\* The next of the probed rows is handed out.
LEMMA GettupleStep ==
    ASSUME IInv, weave_gettuple
    PROVE  IInv'
<1> DEFINE r == so.ordered[so.ordpos + 1]
           d == Dist(r)
           b == Recheck(so)
<1>1. World /\ ScanType /\ PhaseInv /\ RankOrdered /\ RankComplete
  BY DEF IInv
<1>2. /\ so.phase = "ranked" /\ so.ordpos < Len(so.ordered) /\ Give(r, d, b)
      /\ so' = [so EXCEPT !.ordpos = @ + 1] /\ ~Satisfied
  BY DEF weave_gettuple, Scan
<1>3. Same
  BY DEF weave_gettuple, Scan, Same, indexVars
<1>4. /\ want.kind # "search" /\ FuseInv /\ PassInv(so) /\ LadderInv(so) /\ HitsInv(so) /\ GateInv(so)
      /\ GivenInv /\ so \in ScanRecord /\ so.ordpos <= Len(so.ordered) /\ so.candpos <= Len(so.cand)
  BY <1>1, <1>2 DEF PhaseInv, ScanType
<1>5. so.ordered \in Seq(Row) /\ so.ordpos \in Nat /\ DOMAIN so.ordered = 1..Len(so.ordered)
      /\ Len(so.ordered) \in Nat
  BY <1>4 DEF ScanRecord
<1>6. so.ordpos + 1 \in DOMAIN so.ordered /\ \A j \in 1..so.ordpos : j \in DOMAIN so.ordered /\ j < so.ordpos + 1
  BY <1>2, <1>5
<1>7. \A j \in DOMAIN so.ordered : so.ordered[j] \in Ranked /\ Gated(so, so.ordered[j])
  BY <1>4 DEF LadderInv, Admitted, Taken, ToSet
<1>8. r \in Ranked /\ Gated(so, r)
  BY <1>6, <1>7
<1>9. r \in Row /\ rows[r].vis /\ rows[r].pred /\ Ranks(r) /\ TrueDist(r) = d /\ d \in Nat /\ d < INF
  BY <1>1, <1>8, RankedFacts
<1>10. b \in BOOLEAN
  BY DEF Recheck
<1>11. ~b => Where(r)
  BY <1>4, <1>8, <1>9 DEF GateInv
<1>12. ASSUME NEW i \in DOMAIN out PROVE out[i].dist <= d /\ out[i].row # r
  <2>1. PICK j \in 1..so.ordpos : out[i].row = so.ordered[j]
    BY <1>4 DEF GivenInv
  <2>2. out[i].dist = TrueDist(so.ordered[j])
    BY <1>4, <2>1 DEF GivenInv
  <2>3. TrueDist(so.ordered[j]) = Dist(so.ordered[j])
    BY <1>1, <1>6, <1>7, RankedFacts
  <2>4. Dist(so.ordered[j]) <= d
    BY <1>4, <1>6 DEF LadderInv, Nearest
  <2>5. so.ordered[j] # r
    <3>1. j # so.ordpos + 1
      BY <1>5
    <3> QED
      BY <1>4, <1>6, <3>1 DEF LadderInv, Distinct
  <2> QED
    BY <2>1, <2>2, <2>3, <2>4, <2>5
<1> HIDE DEF b
<1>13. d \in Int
  BY <1>9
<1> HIDE DEF d
<1>13a. so'.short = so.short
  BY <1>2, <1>4 DEF ScanRecord
<1>14. /\ RankOrdered' /\ out' \in Seq([row : Row, dist : Int])
       /\ Given' = IF Where(r) THEN Given \cup {r} ELSE Given
       /\ DOMAIN out \subseteq DOMAIN out' /\ \A i \in DOMAIN out : out'[i] = out[i]
       /\ \A i \in DOMAIN out' \ DOMAIN out : out'[i] = [row |-> r, dist |-> d] /\ Where(r)
       /\ out' = out \/ out' = Append(out, [row |-> r, dist |-> d])
  <2>1. Give(r, d, b) /\ r \in Row /\ rows[r].vis /\ rows[r].pred /\ d = TrueDist(r)
    BY <1>2, <1>9
  <2> HIDE DEF r
  <2>2. \A i \in DOMAIN out : out[i].dist <= d /\ out[i].row # r
    BY <1>12
  <2>3. ShortKept
    BY <1>13a DEF ShortKept
  <2> QED
    BY <1>1, <1>3, <1>4, <1>10, <1>11, <1>13, <2>1, <2>2, <2>3, GiveFacts
<1>15. /\ so' \in ScanRecord /\ so'.phase = so.phase /\ so'.ordered = so.ordered
       /\ so'.ordpos = so.ordpos + 1 /\ so'.cand = so.cand /\ so'.candpos = so.candpos
       /\ so'.nulls = so.nulls /\ so'.plain = so.plain /\ so'.plainRecheck = so.plainRecheck
       /\ so'.gateLex = so.gateLex /\ so'.candfull = so.candfull /\ so'.width = so.width
       /\ so'.maxhits = so.maxhits
  <2> DEFINE o == so.ordpos + 1
  <2>1. o \in Nat /\ so' = [so EXCEPT !.ordpos = o]
    BY <1>2, <1>5
  <2> HIDE DEF o
  <2>2. /\ so' \in ScanRecord /\ so'.phase = so.phase /\ so'.ordered = so.ordered
        /\ so'.ordpos = o /\ so'.cand = so.cand /\ so'.candpos = so.candpos
        /\ so'.nulls = so.nulls /\ so'.plain = so.plain /\ so'.plainRecheck = so.plainRecheck
        /\ so'.gateLex = so.gateLex /\ so'.candfull = so.candfull /\ so'.width = so.width
        /\ so'.maxhits = so.maxhits
    BY <1>4, <2>1 DEF ScanRecord
  <2> QED
    BY <2>2 DEF o
<1>16. GateInv(so') /\ Admitted(so') = Admitted(so) /\ HitsInv(so')
  BY <1>4, <1>15, GateSame DEF HitsInv
<1>17. PassInv(so') /\ LadderInv(so')
  <2>1. Taken(so') = Taken(so) /\ Left(so') = Left(so) /\ (GrowProves(so') <=> GrowProves(so))
        /\ so'.short = so.short /\ (Exact(so') <=> Exact(so))
    BY <1>13a, <1>15 DEF Taken, Left, GrowProves, Exact
  <2>2. LadderInv(so')
    BY <1>4, <1>15, <1>16, <2>1 DEF LadderInv
  <2>3. \A x : Gated(so', x) <=> Gated(so, x)
    BY <1>15 DEF Gated
  <2>4. PassInv(so')
    BY <1>4, <1>15, <2>3 DEF PassInv
  <2> QED
    BY <2>2, <2>4
<1>18. World' /\ ScanRecord' = ScanRecord /\ Row' = Row
  BY <1>1, <1>3, SameFacts
<1>19. ScanType'
  <2>1. so'.ordpos <= Len(so'.ordered)
    BY <1>2, <1>5, <1>15
  <2> QED
    BY <1>4, <1>14, <1>15, <1>18, <2>1 DEF ScanType
<1>20. PhaseInv'
  <2>1. want' = want /\ want.k \in Nat
    BY <1>1, <1>3, KeyFacts DEF Same
  <2>2. FuseInv'
    BY <1>1, <1>2, <1>4, <1>14, <2>1, FuseGive
  <2>3. GivenInv'
    <3>1. \A x : (Where(x)' <=> Where(x)) /\ TrueDist(x)' = TrueDist(x)
      BY <1>3, SameFacts
    <3>2. /\ \A i \in DOMAIN out : \E j \in 1..so.ordpos : out[i].row = so.ordered[j]
          /\ \A j \in 1..so.ordpos : Where(so.ordered[j]) => so.ordered[j] \in Given
          /\ \A i \in DOMAIN out : out[i].dist = TrueDist(out[i].row)
      BY <1>4 DEF GivenInv
    <3>2a. ASSUME NEW i \in DOMAIN out' PROVE out'[i].dist = TrueDist(out'[i].row)
      <4>1. CASE i \in DOMAIN out
        BY <1>14, <3>2, <4>1
      <4>2. CASE i \notin DOMAIN out
        <5>1. out'[i].row = r /\ out'[i].dist = d
          BY <1>14, <4>2
        <5> QED
          BY <1>9, <5>1
      <4> QED
        BY <4>1, <4>2
    <3>3. 1..so.ordpos \subseteq 1..(so.ordpos + 1) /\ so.ordpos + 1 \in 1..(so.ordpos + 1)
          /\ \A j \in 1..(so.ordpos + 1) : j \in 1..so.ordpos \/ j = so.ordpos + 1
      BY <1>5
    <3>4. ASSUME NEW i \in DOMAIN out' PROVE \E j \in 1..(so.ordpos + 1) : out'[i].row = so.ordered[j]
      <4>1. CASE i \in DOMAIN out
        BY <1>14, <3>2, <3>3, <4>1
      <4>2. CASE i \notin DOMAIN out
        <5>1. out'[i].row = r
          BY <1>14, <4>2
        <5> QED
          BY <3>3, <5>1
      <4> QED
        BY <4>1, <4>2
    <3>5. \A j \in 1..(so.ordpos + 1) : Where(so.ordered[j]) => so.ordered[j] \in Given'
      BY <1>14, <3>2, <3>3
    <3>6. so'.nulls = <<>> /\ so'.ordered = so.ordered /\ so'.ordpos = so.ordpos + 1
      BY <1>4, <1>15 DEF GivenInv
    <3>7. \A i \in DOMAIN out' : \E j \in 1..so'.ordpos : out'[i].row = so'.ordered[j]
      BY <3>4, <3>6
    <3>8. \A j \in 1..so'.ordpos : Where(so.ordered[j])' => so'.ordered[j] \in Given'
      <4>1. \A x \in 1..(so.ordpos + 1) : so'.ordered[x] = so.ordered[x]
        BY <3>6
      <4>2. ASSUME NEW j \in 1..so'.ordpos PROVE Where(so.ordered[j])' => so'.ordered[j] \in Given'
        <5> DEFINE y == so'.ordered[j]
        <5>1. j \in 1..(so.ordpos + 1) /\ y = so.ordered[j]
          BY <3>6
        <5>2. Where(y) => y \in Given'
          BY <3>5, <5>1
        <5>3. Where(so.ordered[j])' <=> Where(y)
          BY <3>1
        <5> QED
          BY <5>2, <5>3
      <4> QED
        BY <4>2
    <3> QED
      BY <3>1, <3>2a, <3>6, <3>7, <3>8 DEF GivenInv
  <2>4. PassInv(so)' /\ LadderInv(so)' /\ HitsInv(so)' /\ GateInv(so)'
    BY <1>3, <1>16, <1>17, SameFacts
  <2> QED
    BY <1>2, <1>4, <1>15, <2>1, <2>2, <2>3, <2>4 DEF PhaseInv
<1>21. RankComplete'
  BY <1>2, <1>15 DEF RankComplete
<1> QED
  BY <1>14, <1>18, <1>19, <1>20, <1>21 DEF IInv

\* A ladder that has ended: what it took is ranked, holds every ranked row of the clause
\* but those it has overlooked, and has been handed out but for the clause; nothing else has.
LEMMA LadderEnd ==
    ASSUME World, ScanType, RankOrdered, LadderInv(so), GateInv(so), GivenInv,
           OutOfCandidates, GrowProves(so)
    PROVE  /\ ToSet(so.ordered) \subseteq Ranked
           /\ \A r \in Ranked : Where(r) => r \in ToSet(so.ordered) \/ so.short \/ WithoutList(r)
           /\ \A r \in ToSet(so.ordered) : Where(r) => r \in Given
           /\ \A i \in DOMAIN out : out[i].row \in ToSet(so.ordered) /\ out[i].dist < INF
<1>1. so.ordpos >= Len(so.ordered) /\ so.candpos >= Len(so.cand)
  BY DEF OutOfCandidates, Exhausted
<1>2. so \in ScanRecord /\ so.ordpos <= Len(so.ordered)
  BY DEF ScanType
<1>3. so.ordered \in Seq(Row) /\ so.ordpos \in Nat
  BY <1>2 DEF ScanRecord
<1>4. DOMAIN so.ordered = 1..so.ordpos
  BY <1>1, <1>2, <1>3
<1>5. ~so.short => Admitted(so) \subseteq ToSet(so.ordered)
  BY <1>1, LadderTaken DEF Taken
<1>6. ToSet(so.ordered) \subseteq Ranked
  BY DEF LadderInv, Taken, Admitted
<1>7. \A r \in Ranked : Where(r) => r \in ToSet(so.ordered) \/ so.short \/ WithoutList(r)
  BY <1>5 DEF GateInv, Admitted
<1>8. \A r \in ToSet(so.ordered) : Where(r) => r \in Given
  BY <1>4 DEF GivenInv, ToSet
<1>9. ASSUME NEW i \in DOMAIN out PROVE out[i].row \in ToSet(so.ordered) /\ out[i].dist < INF
  <2>1. out[i].row \in ToSet(so.ordered)
    BY <1>4 DEF GivenInv, ToSet
  <2>2. out[i].dist = TrueDist(out[i].row) /\ out[i].row \in Ranked
    BY <1>6, <2>1 DEF GivenInv
  <2> QED
    BY <2>1, <2>2, RankedFacts
<1> QED
  BY <1>6, <1>7, <1>8, <1>9

\* A row that the WHERE clause admits by the ordering query itself, all of whose answers
\* hold one of its literals, is ranked.
LEMMA SameQueryRanked ==
    ASSUME World, want.kind = "lex", want.lex = "same", weave_query_lit_covered(want.q), NEW r \in Due
    PROVE  r \in Ranked
<1>1. /\ r \in Row /\ rows[r].vis /\ rows[r].pred /\ Where(r)
      /\ LexWhere(r) /\ ~rows[r].nulldoc /\ place[r] # OUT
  BY DueFacts
<1>2. Match(want.q, rows[r].terms)
  BY <1>1 DEF LexWhere
<1>3. rows[r].terms \in SUBSET {1, 2}
  BY <1>1, RowFacts DEF RowType
<1>4. want.q \in {"term", "or", "and", "andnot"}
  BY KeyFacts DEF weave_query_lit_covered
<1>5. 1 \in rows[r].terms \/ (want.q = "or" /\ rows[r].terms # {})
  BY <1>2, <1>4 DEF Match
<1>6. rows[r].terms \cap weave_query_terms(want.q) # {}
  <2>1. 1 \in weave_query_terms(want.q)
    BY DEF weave_query_terms
  <2>2. want.q = "or" => weave_query_terms(want.q) = {1, 2}
    BY DEF weave_query_terms
  <2> QED
    BY <1>3, <1>5, <2>1, <2>2
<1>7. Ranks(r)
  BY <1>1, <1>2, <1>6 DEF Ranks
<1> QED
  BY <1>1, <1>7 DEF Ranked

\* The gate the padding may walk has every row that is due.
LEMMA PadGateFacts ==
    ASSUME World, want.kind # "search", NEW s \in ScanRecord, GateInv(s)
    PROVE  LET g == PadGate(s) IN
           /\ g \in ScanRecord /\ g.phase = s.phase /\ g.seen = s.seen /\ g.nulls = s.nulls
           /\ g.ordered = s.ordered /\ g.ordpos = s.ordpos /\ g.cand = s.cand /\ g.candpos = s.candpos
           /\ g.short = s.short
           /\ g.plain # NoGate /\ g.gateLex => g.plain \in SUBSET Row /\ Due \subseteq g.plain
<1> DEFINE g == PadGate(s)
           wq == want.kind \in {"vec", "lex"} /\ HasLex(want)
<1>1. /\ s.plain \in (SUBSET Row) \cup {NoGate} /\ s.gateLex \in BOOLEAN
      /\ want.v12 \in BOOLEAN /\ want.not \in BOOLEAN /\ want.dv \in BOOLEAN
  BY KeyFacts DEF ScanRecord
<1>2. CASE s.plain # NoGate
  <2> DEFINE b == s.gateLex \/ weave_index_v12_complete
  <2>1. b \in BOOLEAN
    OBVIOUS
  <2>2. g = [s EXCEPT !.gateLex = b]
    BY <1>2 DEF PadGate
  <2> HIDE DEF b, g
  <2>3. /\ g \in ScanRecord /\ g.phase = s.phase /\ g.seen = s.seen /\ g.nulls = s.nulls
        /\ g.ordered = s.ordered /\ g.ordpos = s.ordpos /\ g.cand = s.cand /\ g.candpos = s.candpos
        /\ g.short = s.short /\ g.plain = s.plain /\ g.gateLex = b
    BY <2>1, <2>2 DEF ScanRecord
  <2>4. b => Due \subseteq s.plain
    BY <1>2 DEF b, GateInv, weave_index_v12_complete
  <2> QED
    BY <1>1, <1>2, <2>3, <2>4 DEF g
<1>3. CASE s.plain = NoGate
  <2>1. CASE (wq \/ want.dv) /\ ((wq /\ ~want.not) \/ want.v12)
    <3> DEFINE p == IF wq THEN weave_collect_matches ELSE weave_docvals_gate
               r1 == [s EXCEPT !.plain = p]
    <3>1. g = [r1 EXCEPT !.gateLex = TRUE]
      BY <1>3, <2>1 DEF PadGate, weave_query_has_not, weave_index_v12_complete
    <3>2. p \in SUBSET Row /\ Due \subseteq p
      <4>1. CASE wq
        BY <2>1, <4>1, CollectFacts DEF HasLex
      <4>2. CASE ~wq
        BY <2>1, <4>2, DocvalsFacts
      <4> QED
        BY <4>1, <4>2
    <3> HIDE DEF p, g
    <3>3. /\ r1 \in ScanRecord /\ r1.phase = s.phase /\ r1.seen = s.seen /\ r1.nulls = s.nulls
          /\ r1.ordered = s.ordered /\ r1.ordpos = s.ordpos /\ r1.cand = s.cand /\ r1.candpos = s.candpos
          /\ r1.short = s.short /\ r1.plain = p
      BY <3>2 DEF ScanRecord
    <3> HIDE DEF r1
    <3>4. /\ g \in ScanRecord /\ g.phase = r1.phase /\ g.seen = r1.seen /\ g.nulls = r1.nulls
          /\ g.ordered = r1.ordered /\ g.ordpos = r1.ordpos /\ g.cand = r1.cand /\ g.candpos = r1.candpos
          /\ g.short = r1.short /\ g.plain = r1.plain
      BY <3>1, <3>3 DEF ScanRecord
    <3> QED
      BY <3>2, <3>3, <3>4 DEF g
  <2>2. CASE ~((wq \/ want.dv) /\ ((wq /\ ~want.not) \/ want.v12))
    <3>1. g = s
      BY <1>3, <2>2 DEF PadGate, weave_query_has_not, weave_index_v12_complete
    <3> HIDE DEF g
    <3> QED
      BY <1>3, <3>1 DEF g
  <2> QED
    BY <2>1, <2>2
<1> QED
  BY <1>2, <1>3

\* A sequence over a set is one over a larger set.
LEMMA SeqWider ==
    ASSUME NEW S, NEW T, S \in SUBSET T, NEW q \in Seq(S)
    PROVE  q \in Seq(T)
<1>1. Len(q) \in Nat /\ q \in [1..Len(q) -> S]
  OBVIOUS
<1>2. q = [i \in 1..Len(q) |-> q[i]] /\ \A i \in 1..Len(q) : q[i] \in T
  BY <1>1
<1>3. q \in [1..Len(q) -> T]
  BY <1>2
<1> QED
  BY <1>1, <1>3, FunctionIsSeq

\* The line pointers a walk visits for a set of rows.
WalkList(w, A) == IF w = "heap" THEN Asc({TupleTid(r) : r \in A}) ELSE Asc(A)
Walks(t, A) == t.walk \in {"match", "gate", "heap"} /\ t.pad = WalkList(t.walk, A)

\* What the padding walks: each row of the set once, by the root of its chain.
LEMMA WalkFacts ==
    ASSUME World, NEW t, NEW A \in SUBSET Row, Walks(t, A)
    PROVE  /\ t.pad \in Seq(Nat) /\ ToGo(t) = A
           /\ \A i, j \in DOMAIN t.pad : PadRow(t, i) = PadRow(t, j) => i = j
<1>1. Row = 1..Len(rows) /\ Len(rows) \in Nat /\ IsFiniteSet(A) /\ \A r \in Row : rows[r].hot \in BOOLEAN
  BY RowFacts DEF RowType
<1>2. CASE t.walk = "heap"
  <2> DEFINE S == {TupleTid(r) : r \in A}
             p == Asc(S)
  <2>1. \A r \in Row : TupleTid(r) \in Nat /\ padRoots(TupleTid(r)) = r
    BY <1>1 DEF TupleTid, padRoots, HotBase
  <2>2. S \in SUBSET Int /\ S \in SUBSET Nat
    BY <2>1
  <2>3. IsFiniteSet(S)
    <3> DEFINE f == [r \in A |-> TupleTid(r)]
    <3>1. f \in Surjection(A, S)
      BY DEF Surjection
    <3> QED
      BY <1>1, <3>1, FS_Surjection
  <2>4. \A x \in S : padRoots(x) \in A /\ TupleTid(padRoots(x)) = x
    BY <2>1
  <2>5. \A r \in A : TupleTid(r) \in S /\ padRoots(TupleTid(r)) = r
    BY <2>1
  <2>6. p = t.pad
    BY <1>2 DEF Walks, WalkList
  <2> HIDE DEF S, p
  <2>7. /\ p \in Seq(S) /\ Len(p) \in Nat
        /\ \A x \in S : \E k \in 1..Len(p) : p[k] = x
        /\ \A i, j \in 1..Len(p) : i < j => p[i] < p[j]
    BY <2>2, <2>3, AscFacts DEF p
  <2>8. DOMAIN p = 1..Len(p) /\ \A i \in DOMAIN p : p[i] \in S /\ p[i] \in Nat
    <3>1. DOMAIN p = 1..Len(p) /\ \A i \in 1..Len(p) : p[i] \in S
      <4>1. p \in Seq(S)
        BY <2>7
      <4> QED
        BY <4>1
    <3> QED
      BY <2>2, <3>1
  <2>9. p \in Seq(Nat)
    BY <2>2, <2>7, SeqWider
  <2>10. \A i \in DOMAIN p : PadRow(t, i) = padRoots(p[i])
    BY <1>2, <2>6 DEF PadRow
  <2>11. \A i, j \in DOMAIN p : p[i] = p[j] => i = j
    <3>1. \A i, j \in DOMAIN p : i < j \/ j < i \/ i = j
      BY <2>7, <2>8
    <3> QED
      BY <2>7, <2>8, <3>1
  <2>12. \A i, j \in DOMAIN p : PadRow(t, i) = PadRow(t, j) => i = j
    BY <2>4, <2>8, <2>10, <2>11
  <2>13. ToGo(t) = A
    <3>1. ToGo(t) \subseteq A
      BY <2>4, <2>6, <2>8, <2>10 DEF ToGo
    <3>2. ASSUME NEW r \in A PROVE r \in ToGo(t)
      <4>1. PICK k \in 1..Len(p) : p[k] = TupleTid(r)
        BY <2>5, <2>7
      <4>2. k \in DOMAIN t.pad /\ PadRow(t, k) = r
        BY <2>5, <2>6, <2>8, <2>10, <4>1
      <4> QED
        BY <4>2 DEF ToGo
    <3> QED
      BY <3>1, <3>2
  <2> QED
    BY <2>6, <2>9, <2>12, <2>13
<1>3. CASE t.walk # "heap"
  <2> DEFINE p == Asc(A)
  <2>1. A \in SUBSET Int /\ A \in SUBSET Nat
    BY <1>1
  <2>2. p = t.pad
    BY <1>3 DEF Walks, WalkList
  <2> HIDE DEF p
  <2>3. /\ p \in Seq(A) /\ Len(p) \in Nat
        /\ \A x \in A : \E k \in 1..Len(p) : p[k] = x
        /\ \A i, j \in 1..Len(p) : i < j => p[i] < p[j]
    BY <1>1, <2>1, AscFacts DEF p
  <2>4. DOMAIN p = 1..Len(p) /\ \A i \in DOMAIN p : p[i] \in A /\ p[i] \in Nat
    <3>1. DOMAIN p = 1..Len(p) /\ \A i \in 1..Len(p) : p[i] \in A
      <4>1. p \in Seq(A)
        BY <2>3
      <4> QED
        BY <4>1
    <3> QED
      BY <2>1, <3>1
  <2>5. p \in Seq(Nat)
    BY <2>1, <2>3, SeqWider
  <2>6. \A i \in DOMAIN p : PadRow(t, i) = p[i]
    BY <1>3, <2>2 DEF PadRow
  <2>7. \A i, j \in DOMAIN p : p[i] = p[j] => i = j
    <3>1. \A i, j \in DOMAIN p : i < j \/ j < i \/ i = j
      BY <2>3, <2>4
    <3> QED
      BY <2>3, <2>4, <3>1
  <2>8. ToGo(t) = A
    <3>1. ToGo(t) = {p[i] : i \in 1..Len(p)}
      BY <2>2, <2>4, <2>6 DEF ToGo
    <3> QED
      BY <2>3, <2>4, <3>1
  <2> QED
    <3>1. \A i, j \in DOMAIN p : PadRow(t, i) = PadRow(t, j) => i = j
      BY <2>6, <2>7
    <3> QED
      BY <2>2, <2>5, <2>8, <3>1
<1> QED
  BY <1>2, <1>3

\* The end of the ranking, without padding: every row that is due was ranked, or the
\* ladder was short.
LEMMA NoPadStep ==
    ASSUME IInv, PadBegin, ~weave_pad_wanted
    PROVE  IInv'
<1>1. World /\ ScanType /\ PhaseInv /\ RankOrdered /\ RankComplete
  BY DEF IInv
<1>2. /\ so.phase = "ranked" /\ OutOfCandidates /\ GrowProves(so) /\ out' = out
      /\ so' = [so EXCEPT !.phase = "done"]
  BY DEF PadBegin, Scan, OutOfCandidates, Exhausted
<1>3. Same
  BY DEF PadBegin, Scan, Same, indexVars
<1>4. LadderInv(so) /\ GateInv(so) /\ GivenInv /\ so \in ScanRecord
  BY <1>1, <1>2 DEF PhaseInv, ScanType
<1>5. want.kind = "lex" /\ want.lex = "same" /\ weave_query_lit_covered(want.q) /\ want.k = 0
  BY <1>1, KeyFacts DEF weave_pad_wanted, ordSameQuery, ordQueryRestricts
<1>6. ~so.short => Due \subseteq Given
  <2>1. ASSUME ~so.short, NEW r \in Due PROVE r \in Given
    <3>1. r \in Ranked /\ Where(r) /\ ~WithoutList(r)
      BY <1>1, <1>5, <2>1, SameQueryRanked DEF Due, WithoutList
    <3> QED
      BY <1>1, <1>2, <1>4, <2>1, <3>1, LadderEnd
  <2> QED
    BY <2>1
<1>7. ~so.short => Given = Due
  BY <1>1, <1>6 DEF RankOrdered, Given
<1>8. RankComplete'
  <2>1. want' = want /\ Due' = Due /\ Given' = Given
    BY <1>2, <1>3, SameFacts DEF Same, Given
  <2>2. so'.short = so.short
    BY <1>2, <1>4 DEF ScanRecord
  <2>3. ~weave_pad_wanted'
    BY <2>1 DEF weave_pad_wanted, ordSameQuery, ordQueryRestricts
  <2> QED
    BY <1>5, <1>7, <2>1, <2>2, <2>3 DEF RankComplete, Given
<1> QED
  BY <1>1, <1>2, <1>3, <1>8, EndType

\* What has been handed out, element by element.
LEMMA OutTypes ==
    ASSUME ScanType
    PROVE  /\ Len(out) \in Nat /\ DOMAIN out = 1..Len(out)
           /\ \A i \in DOMAIN out : out[i].row \in Row /\ out[i].dist \in Int
<1> DEFINE T == [row : Row, dist : Int]
<1>1. out \in Seq(T) /\ \A e \in T : e.row \in Row /\ e.dist \in Int
  BY DEF ScanType
<1> HIDE DEF T
<1>2. Len(out) \in Nat /\ DOMAIN out = 1..Len(out) /\ \A i \in 1..Len(out) : out[i] \in T
  BY <1>1
<1> QED
  BY <1>1, <1>2

\* A step that also leaves what is handed out alone leaves the padding alone.
LEMMA PadSame ==
    ASSUME Same, out' = out, NEW s
    PROVE  PadInv(s)' <=> PadInv(s)
<1>1. /\ Row' = Row /\ Due' = Due /\ Ranked' = Ranked
      /\ \A r : /\ Where(r)' <=> Where(r)
                /\ KeyNull(r)' <=> KeyNull(r)
                /\ WithoutList(r)' <=> WithoutList(r)
  BY SameFacts
<1>2. rows' = rows /\ want' = want /\ Given' = Given
  BY DEF Same, Given
<1>3. \A i : PadRow(s, i)' = PadRow(s, i)
  BY <1>2 DEF PadRow, padRoots, HotBase
<1>4. ToGo(s)' = ToGo(s)
  BY <1>3 DEF ToGo
<1> QED
  BY <1>1, <1>2, <1>3, <1>4 DEF PadInv

\* The scan x at the start of the walk w over the rows of A.
WalkOver(x, w, A) == [x EXCEPT !.walk = w, !.pad = WalkList(w, A)]

\* The beginning of the padding.
LEMMA PadBeginStep ==
    ASSUME IInv, PadBegin, weave_pad_wanted
    PROVE  IInv'
<1> DEFINE s == [so EXCEPT !.phase = "pad", !.seen = ToSet(so.ordered)]
           g == PadGate(s)
           t == weave_pad_begin(so)
<1>1. World /\ ScanType /\ PhaseInv /\ RankOrdered /\ RankComplete
  BY DEF IInv
<1>2. /\ so.phase = "ranked" /\ OutOfCandidates /\ GrowProves(so) /\ out' = out /\ so' = t
  BY DEF PadBegin, Scan, OutOfCandidates, Exhausted
<1>3. Same
  BY DEF PadBegin, Scan, Same, indexVars
<1>4. /\ want.kind # "search" /\ FuseInv /\ LadderInv(so) /\ GateInv(so) /\ GivenInv /\ so \in ScanRecord
      /\ so.ordpos <= Len(so.ordered) /\ so.candpos <= Len(so.cand) /\ so.nulls = <<>>
  BY <1>1, <1>2 DEF PhaseInv, ScanType, GivenInv
<1>5. /\ ToSet(so.ordered) \subseteq Ranked
      /\ \A r \in Ranked : Where(r) => r \in ToSet(so.ordered) \/ so.short \/ WithoutList(r)
      /\ \A r \in ToSet(so.ordered) : Where(r) => r \in Given
      /\ \A i \in DOMAIN out : out[i].row \in ToSet(so.ordered) /\ out[i].dist < INF
  BY <1>1, <1>2, <1>4, LadderEnd
<1>6. /\ s \in ScanRecord /\ s.phase = "pad" /\ s.seen = ToSet(so.ordered) /\ s.nulls = <<>>
      /\ s.ordered = so.ordered /\ s.ordpos = so.ordpos /\ s.cand = so.cand /\ s.candpos = so.candpos
      /\ s.plain = so.plain /\ s.plainRecheck = so.plainRecheck /\ s.gateLex = so.gateLex
      /\ s.short = so.short
  <2> DEFINE S == ToSet(so.ordered)
             r1 == [so EXCEPT !.phase = "pad"]
  <2>1. S \in SUBSET Row
    BY <1>5 DEF Ranked
  <2>2. s = [r1 EXCEPT !.seen = S]
    OBVIOUS
  <2> HIDE DEF S, s
  <2>3. /\ r1 \in ScanRecord /\ r1.phase = "pad" /\ r1.nulls = <<>>
        /\ r1.ordered = so.ordered /\ r1.ordpos = so.ordpos /\ r1.cand = so.cand /\ r1.candpos = so.candpos
        /\ r1.plain = so.plain /\ r1.plainRecheck = so.plainRecheck /\ r1.gateLex = so.gateLex
        /\ r1.short = so.short
    BY <1>4 DEF ScanRecord
  <2> HIDE DEF r1
  <2>4. /\ s \in ScanRecord /\ s.phase = r1.phase /\ s.seen = S /\ s.nulls = r1.nulls
        /\ s.ordered = r1.ordered /\ s.ordpos = r1.ordpos /\ s.cand = r1.cand /\ s.candpos = r1.candpos
        /\ s.plain = r1.plain /\ s.plainRecheck = r1.plainRecheck /\ s.gateLex = r1.gateLex
        /\ s.short = r1.short
    BY <2>1, <2>2, <2>3 DEF ScanRecord
  <2> QED
    BY <2>3, <2>4 DEF S, s
<1>7. GateInv(s)
  <2> HIDE DEF s
  <2> QED
    BY <1>4, <1>6, GateSame
<1>8. /\ g \in ScanRecord /\ g.phase = s.phase /\ g.seen = s.seen /\ g.nulls = s.nulls
      /\ g.ordered = s.ordered /\ g.ordpos = s.ordpos /\ g.cand = s.cand /\ g.candpos = s.candpos
      /\ g.short = s.short
      /\ g.plain # NoGate /\ g.gateLex => g.plain \in SUBSET Row /\ Due \subseteq g.plain
  <2> HIDE DEF s
  <2> QED
    BY <1>1, <1>4, <1>6, <1>7, PadGateFacts
<1>9. \E x \in {s, g} : \E w \in {"match", "gate", "heap"} : \E A \in SUBSET Row :
        /\ t = WalkOver(x, w, A)
        /\ Due \subseteq A
        /\ w = "match" => want.kind = "lex" /\ want.lex = "same" /\ ~want.cgram
  <2>1. Due \subseteq Row /\ Due \subseteq Heap /\ Heap \in SUBSET Row /\ Row \in SUBSET Row
    BY DEF Due, Heap
  <2>2. CASE want.kind = "lex" /\ ordQueryRestricts(want) /\ ~weave_query_lit_covered(want.q)
    <3>1. t = [s EXCEPT !.walk = "match", !.pad = Asc(Row)]
      BY <2>2 DEF weave_pad_begin
    <3>2. want.lex = "same" /\ ~want.cgram
      BY <2>2 DEF ordQueryRestricts
    <3> DEFINE w == "match"
               A == Row
    <3>3. t = WalkOver(s, w, A)
      BY <3>1 DEF WalkOver, WalkList
    <3>4. A \in SUBSET Row /\ Due \subseteq A /\ w \in {"match", "gate", "heap"}
      BY <2>1
    <3>5. want.kind = "lex" /\ want.lex = "same" /\ ~want.cgram
      BY <2>2, <3>2
    <3> HIDE DEF g, t, s, A, w
    <3> QED
      BY <3>3, <3>4, <3>5
  <2>3. CASE ~(want.kind = "lex" /\ ordQueryRestricts(want) /\ ~weave_query_lit_covered(want.q))
    <3>1. CASE g.plain # NoGate /\ g.gateLex
      <4>1. t = [g EXCEPT !.walk = "gate", !.pad = Asc(g.plain)]
        BY <2>3, <3>1 DEF weave_pad_begin
      <4> DEFINE w == "gate"
                 A == g.plain
      <4>2. t = WalkOver(g, w, A)
        BY <4>1 DEF WalkOver, WalkList
      <4>3. A \in SUBSET Row /\ Due \subseteq A /\ w \in {"match", "gate", "heap"} /\ w # "match"
        BY <1>8, <3>1
      <4> HIDE DEF g, t, s, A, w
      <4> QED
        BY <4>2, <4>3
    <3>2. CASE ~(g.plain # NoGate /\ g.gateLex)
      <4>1. t = [g EXCEPT !.walk = "heap", !.pad = Asc({TupleTid(r) : r \in Heap})]
        BY <2>3, <3>2 DEF weave_pad_begin
      <4> DEFINE w == "heap"
                 A == Heap
      <4>2. t = WalkOver(g, w, A)
        BY <4>1 DEF WalkOver, WalkList
      <4>3. A \in SUBSET Row /\ Due \subseteq A /\ w \in {"match", "gate", "heap"} /\ w # "match"
        BY <2>1
      <4> HIDE DEF g, t, s, A, w
      <4> QED
        BY <4>2, <4>3
    <3> QED
      BY <3>1, <3>2
  <2> QED
    BY <2>2, <2>3
<1> HIDE DEF g, s, t
<1>10. PICK x \in {s, g}, w \in {"match", "gate", "heap"}, A \in SUBSET Row :
        /\ t = WalkOver(x, w, A)
        /\ Due \subseteq A
        /\ w = "match" => want.kind = "lex" /\ want.lex = "same" /\ ~want.cgram
  BY <1>9
<1> DEFINE p == WalkList(w, A)
           y == [x EXCEPT !.walk = w]
<1>11. t = [y EXCEPT !.pad = p]
  BY <1>10 DEF WalkOver
<1> HIDE DEF p
<1>12. /\ x \in ScanRecord /\ x.phase = "pad" /\ x.seen = ToSet(so.ordered) /\ x.nulls = <<>>
       /\ x.ordered = so.ordered /\ x.ordpos = so.ordpos /\ x.cand = so.cand /\ x.candpos = so.candpos
       /\ x.short = so.short
  BY <1>6, <1>8
<1>13. /\ y \in ScanRecord /\ y.phase = "pad" /\ y.seen = ToSet(so.ordered) /\ y.nulls = <<>> /\ y.walk = w
       /\ y.ordered = so.ordered /\ y.ordpos = so.ordpos /\ y.cand = so.cand /\ y.candpos = so.candpos
       /\ y.short = so.short
  BY <1>12 DEF ScanRecord
<1> HIDE DEF y
<1>14. p \in Seq(Nat)
  <2> DEFINE z == [walk |-> w, pad |-> p]
  <2>1. z.walk = w /\ z.pad = p
    OBVIOUS
  <2> HIDE DEF z
  <2>2. Walks(z, A)
    BY <2>1 DEF p, Walks
  <2>3. z.pad \in Seq(Nat)
    BY <1>1, <2>2, WalkFacts
  <2> QED
    BY <2>1, <2>3
<1>15. /\ t \in ScanRecord /\ t.phase = "pad" /\ t.seen = ToSet(so.ordered) /\ t.nulls = <<>>
       /\ t.walk = w /\ t.pad = p /\ t.short = so.short
       /\ t.ordered = so.ordered /\ t.ordpos = so.ordpos /\ t.cand = so.cand /\ t.candpos = so.candpos
  BY <1>11, <1>13, <1>14 DEF ScanRecord
<1>16. ToGo(t) = A /\ \A i, j \in DOMAIN t.pad : PadRow(t, i) = PadRow(t, j) => i = j
  <2>1. Walks(t, A)
    BY <1>15 DEF p, Walks
  <2> QED
    BY <1>1, <2>1, WalkFacts
<1>17. PadInv(t)
  <2>1. t.walk # "none" /\ (t.walk = "match" => want.kind = "lex" /\ want.lex = "same" /\ ~want.cgram)
    BY <1>10, <1>15
  <2>2. Distinct(t.nulls) /\ DOMAIN t.nulls = {}
    BY <1>15 DEF Distinct
  <2>3. \A i \in DOMAIN out : out[i].dist <= INF
    <3>1. \A i \in DOMAIN out : out[i].dist \in Int
      BY <1>1, OutTypes
    <3>2. INF \in Int
      BY RankBounds
    <3> QED
      BY <1>5, <3>1, <3>2
  <2>4. Due \subseteq Given \cup ToSet(t.nulls) \cup ToGo(t)
    BY <1>10, <1>16
  <2> QED
    BY <1>5, <1>15, <1>16, <2>1, <2>2, <2>3, <2>4 DEF PadInv
<1>18. World' /\ RankOrdered' /\ ScanRecord' = ScanRecord /\ Row' = Row
  <2>1. ShortKept
    BY <1>2, <1>15 DEF ShortKept
  <2> QED
    BY <1>1, <1>2, <1>3, <2>1, SameFacts, OutSame
<1>19. ScanType'
  BY <1>1, <1>2, <1>4, <1>15, <1>18 DEF ScanType
<1>20. PhaseInv'
  <2>1. want' = want
    BY <1>3 DEF Same
  <2>2. FuseInv'
    BY <1>2, <1>4, <2>1 DEF FuseInv
  <2>3. PadInv(so)'
    BY <1>2, <1>3, <1>17, PadSame
  <2> QED
    BY <1>2, <1>4, <1>15, <2>1, <2>2, <2>3 DEF PhaseInv
<1>21. RankComplete'
  BY <1>2, <1>15 DEF RankComplete
<1> QED
  BY <1>18, <1>19, <1>20, <1>21 DEF IInv

\* The walk goes on: the row at its head is behind it, the others are ahead.
LEMMA WalkOn ==
    ASSUME World, so \in ScanRecord, PadInv(so), so.pad # <<>>,
           NEW t, t.pad = Tail(so.pad), t.walk = so.walk
    PROVE  LET r == PadRow(so, 1) IN
           /\ r \in Row /\ r \in ToGo(so) /\ Tail(so.pad) \in Seq(Nat)
           /\ r = IF so.walk = "heap" THEN padRoots(Head(so.pad)) ELSE Head(so.pad)
           /\ ToGo(t) = ToGo(so) \ {r}
           /\ \A i, j \in DOMAIN t.pad : PadRow(t, i) = PadRow(t, j) => i = j
<1> DEFINE r == PadRow(so, 1)
           p == so.pad
           n == Len(p)
<1>1. p \in Seq(Nat) /\ p # <<>>
  BY DEF ScanRecord
<1> HIDE DEF p
<1>2. /\ n \in Nat /\ n >= 1 /\ DOMAIN p = 1..n /\ Head(p) = p[1]
      /\ Tail(p) \in Seq(Nat) /\ DOMAIN Tail(p) = 1..(n - 1)
      /\ \A i \in 1..(n - 1) : Tail(p)[i] = p[i + 1]
  BY <1>1
<1> HIDE DEF n
<1>3. \A i \in 1..(n - 1) : PadRow(t, i) = PadRow(so, i + 1)
  BY <1>2 DEF PadRow, p
<1>4. r = IF so.walk = "heap" THEN padRoots(Head(p)) ELSE Head(p)
  BY <1>2 DEF PadRow, p
<1>5. \A i, j \in 1..n : PadRow(so, i) = PadRow(so, j) => i = j
  BY <1>2 DEF PadInv, p
<1>6. ToGo(so) = {PadRow(so, i) : i \in 1..n} /\ ToGo(t) = {PadRow(t, i) : i \in 1..(n - 1)}
  BY <1>2 DEF ToGo, p
<1>7. 1 \in 1..n /\ \A i \in 1..(n - 1) : i + 1 \in 1..n /\ i + 1 # 1
  BY <1>2
<1>8. \A i \in 1..n : i = 1 \/ \E j \in 1..(n - 1) : i = j + 1
  <2>1. ASSUME NEW i \in 1..n, i # 1 PROVE \E j \in 1..(n - 1) : i = j + 1
    <3>1. i - 1 \in 1..(n - 1) /\ i = (i - 1) + 1
      BY <1>2, <2>1
    <3> QED
      BY <3>1
  <2> QED
    BY <2>1
<1>9. r \in ToGo(so) /\ r \in Row
  BY <1>6, <1>7 DEF PadInv
<1>10. ToGo(t) = ToGo(so) \ {r}
  <2>1. ASSUME NEW x \in ToGo(t) PROVE x \in ToGo(so) \ {r}
    <3>1. PICK i \in 1..(n - 1) : x = PadRow(so, i + 1)
      BY <1>3, <1>6
    <3> QED
      BY <1>5, <1>6, <1>7, <3>1
  <2>2. ASSUME NEW x \in ToGo(so) \ {r} PROVE x \in ToGo(t)
    <3>1. PICK i \in 1..n : x = PadRow(so, i)
      BY <1>6
    <3>2. PICK j \in 1..(n - 1) : i = j + 1
      BY <1>8, <3>1
    <3> QED
      BY <1>3, <1>6, <3>1, <3>2
  <2> QED
    BY <2>1, <2>2
<1>11. ASSUME NEW i \in 1..(n - 1), NEW j \in 1..(n - 1), PadRow(t, i) = PadRow(t, j) PROVE i = j
  <2>1. i + 1 = j + 1
    BY <1>3, <1>5, <1>7, <1>11
  <2> QED
    BY <1>2, <2>1
<1>12. DOMAIN t.pad = 1..(n - 1)
  BY <1>2 DEF p
<1> QED
  BY <1>2, <1>4, <1>9, <1>10, <1>11, <1>12 DEF p

\* The row the walk leaves behind is handed out, or has been, or is not due.
LEMMA PadAdvance ==
    ASSUME Same, World, so \in ScanRecord, PadInv(so), so.pad # <<>>, NEW r, r = PadRow(so, 1),
           NEW t, t.pad = Tail(so.pad), t.walk = so.walk, t.seen = so.seen, t.nulls = so.nulls,
           t.short = so.short,
           \/ Given' = Given \cup {r}
           \/ Given' = Given /\ (r \in Due => r \in Given),
           \A i \in DOMAIN out : i \in DOMAIN out' /\ out'[i] = out[i],
           \A i \in DOMAIN out' \ DOMAIN out : out'[i].row = r /\ out'[i].dist = INF
    PROVE  PadInv(t)'
<1>1. /\ Row' = Row /\ Due' = Due /\ Ranked' = Ranked
      /\ \A x : /\ Where(x)' <=> Where(x)
                /\ KeyNull(x)' <=> KeyNull(x)
                /\ WithoutList(x)' <=> WithoutList(x)
  BY SameFacts
<1>2. rows' = rows /\ want' = want
  BY DEF Same
<1>3. \A i : PadRow(t, i)' = PadRow(t, i)
  BY <1>2 DEF PadRow, padRoots, HotBase
<1>4. ToGo(t)' = ToGo(t)
  BY <1>3 DEF ToGo
<1>5. /\ r \in Row /\ r \in ToGo(so) /\ ToGo(t) = ToGo(so) \ {r}
      /\ \A i, j \in DOMAIN t.pad : PadRow(t, i) = PadRow(t, j) => i = j
  BY WalkOn
<1>6. t.walk # "none" /\ (t.walk = "match" => want.kind = "lex" /\ want.lex = "same" /\ ~want.cgram)
  BY DEF PadInv
<1>7. /\ t.seen \subseteq Ranked
      /\ \A x \in Ranked : Where(x) => x \in t.seen \/ t.short \/ WithoutList(x)
      /\ \A x \in t.seen : Where(x) => x \in Given'
  BY DEF PadInv
<1>8. ToGo(t) \subseteq Row /\ Distinct(t.nulls)
  BY <1>5 DEF PadInv
<1>9. \A i \in DOMAIN t.nulls :
        /\ rows[t.nulls[i]].vis /\ rows[t.nulls[i]].pred /\ KeyNull(t.nulls[i])
        /\ t.nulls[i] \notin Given' \cup ToGo(t)
  BY <1>5 DEF PadInv
<1>10. ASSUME NEW i \in DOMAIN out' PROVE out'[i].row \in t.seen \/ out'[i].row \notin ToGo(t)
  <2>1. CASE i \in DOMAIN out
    BY <1>5, <2>1 DEF PadInv
  <2>2. CASE i \notin DOMAIN out
    BY <1>5, <2>2
  <2> QED
    BY <2>1, <2>2
<1>11. ASSUME NEW i \in DOMAIN out' PROVE out'[i].dist <= INF
  <2>1. INF \in Nat
    BY RankBounds
  <2>2. CASE i \in DOMAIN out
    BY <2>2 DEF PadInv
  <2>3. CASE i \notin DOMAIN out
    BY <2>1, <2>3
  <2> QED
    BY <2>2, <2>3
<1>12. Due \subseteq (Given' \cup ToSet(t.nulls)) \cup ToGo(t)
  BY <1>5 DEF PadInv
<1>13. Distinct(t.nulls)'
  BY <1>8 DEF Distinct
<1> QED
  BY <1>1, <1>2, <1>3, <1>4, <1>5, <1>6, <1>7, <1>8, <1>9, <1>10, <1>11, <1>12, <1>13 DEF PadInv

\* A step of the padding keeps the invariant when it keeps what padding is.
LEMMA PadStay ==
    ASSUME World, ScanType, Same, want.kind # "search", so' \in ScanRecord, so'.phase = "pad",
           so'.ordered = so.ordered, so'.ordpos = so.ordpos, so'.cand = so.cand, so'.candpos = so.candpos,
           out' \in Seq([row : Row, dist : Int]), RankOrdered', PadInv(so)', FuseInv'
    PROVE  IInv'
<1>1. World' /\ ScanRecord' = ScanRecord /\ Row' = Row /\ want' = want
  BY SameFacts DEF Same
<1>2. ScanType'
  BY <1>1 DEF ScanType
<1>3. PhaseInv'
  BY <1>1 DEF PhaseInv
<1>4. RankComplete'
  BY DEF RankComplete
<1> QED
  BY <1>1, <1>2, <1>3, <1>4 DEF IInv

\* A scan without other keys admits every row.
LEMMA NoKeysWhere ==
    ASSUME NoKeys(want), NEW r
    PROVE  Where(r)
BY DEF NoKeys, Where

\* The walk takes one step.
Walked(t) == t = [so EXCEPT !.pad = Tail(@)]
PadOn == Walked(so')

\* The rest of the scan's state stays.
LEMMA PadOnFacts ==
    ASSUME so \in ScanRecord, so.pad # <<>>, NEW t, Walked(t)
    PROVE  /\ t \in ScanRecord /\ t.phase = so.phase /\ t.pad = Tail(so.pad) /\ t.walk = so.walk
           /\ t.seen = so.seen /\ t.nulls = so.nulls /\ t.short = so.short
           /\ t.ordered = so.ordered /\ t.ordpos = so.ordpos /\ t.cand = so.cand /\ t.candpos = so.candpos
<1> DEFINE p == Tail(so.pad)
<1>1. t = [so EXCEPT !.pad = p]
  BY DEF Walked
<1>2. p \in Seq(Nat)
  <2>1. so.pad \in Seq(Nat)
    BY DEF ScanRecord
  <2> DEFINE q == so.pad
  <2>2. q \in Seq(Nat) /\ q # <<>>
    BY <2>1
  <2> HIDE DEF q
  <2>3. Tail(q) \in Seq(Nat)
    BY <2>2
  <2> QED
    BY <2>3 DEF q
<1> HIDE DEF p
<1>3. /\ t \in ScanRecord /\ t.phase = so.phase /\ t.pad = p /\ t.walk = so.walk
      /\ t.seen = so.seen /\ t.nulls = so.nulls /\ t.short = so.short
      /\ t.ordered = so.ordered /\ t.ordpos = so.ordpos /\ t.cand = so.cand /\ t.candpos = so.candpos
  BY <1>1, <1>2 DEF ScanRecord
<1> QED
  BY <1>3 DEF p

\* The row at the head of the walk is left out: it is not due, or has been handed out.
LEMMA PadSkip ==
    ASSUME IInv, so.phase = "pad", so.pad # <<>>, Same, out' = out, PadOn,
           PadRow(so, 1) \in Due => PadRow(so, 1) \in Given
    PROVE  IInv'
<1>1. World /\ ScanType /\ PhaseInv /\ RankOrdered
  BY DEF IInv
<1>2. so \in ScanRecord /\ want.kind # "search" /\ FuseInv /\ PadInv(so)
      /\ out \in Seq([row : Row, dist : Int])
  BY <1>1 DEF ScanType, PhaseInv
<1>3. PICK t : t = so'
  OBVIOUS
<1>4. PICK r : r = PadRow(so, 1)
  OBVIOUS
<1>5. /\ t \in ScanRecord /\ t.phase = so.phase /\ t.pad = Tail(so.pad) /\ t.walk = so.walk
      /\ t.seen = so.seen /\ t.nulls = so.nulls /\ t.short = so.short
      /\ t.ordered = so.ordered /\ t.ordpos = so.ordpos /\ t.cand = so.cand /\ t.candpos = so.candpos
  BY <1>2, <1>3, PadOnFacts DEF PadOn
<1>6. Given' = Given
  BY DEF Given
<1>7. /\ \A i \in DOMAIN out : i \in DOMAIN out' /\ out'[i] = out[i]
      /\ \A i \in DOMAIN out' \ DOMAIN out : out'[i].row = r /\ out'[i].dist = INF
  OBVIOUS
<1>8. PadInv(t)'
  BY <1>1, <1>2, <1>4, <1>5, <1>6, <1>7, PadAdvance
<1>9. RankOrdered' /\ FuseInv'
  <2>1. ShortKept
    BY <1>3, <1>5 DEF ShortKept
  <2> QED
    BY <1>1, <1>2, <2>1, OutSame DEF FuseInv, Same
<1>10. PadInv(so)'
  BY <1>3, <1>8
<1> QED
  BY <1>1, <1>2, <1>3, <1>5, <1>9, <1>10, PadStay

\* What is handed out from the walk comes after the ranking.
LEMMA PadGave ==
    ASSUME World, Same, ScanType, RankOrdered, want.kind # "search", PadInv(so), so.pad # <<>>,
           NEW r \in Row, r \in ToGo(so), Where(r), rows[r].vis, rows[r].pred, ~KeyNull(r), r \notin so.seen,
           NEW b \in BOOLEAN, Give(r, INF, b), so'.short = so.short
    PROVE  /\ RankOrdered' /\ out' \in Seq([row : Row, dist : Int])
           /\ Given' = Given \cup {r}
           /\ \A i \in DOMAIN out : i \in DOMAIN out' /\ out'[i] = out[i]
           /\ \A i \in DOMAIN out' \ DOMAIN out : out'[i] = [row |-> r, dist |-> INF]
           /\ out' = out \/ out' = Append(out, [row |-> r, dist |-> INF])
<1> DEFINE d == INF
<1>1. d = TrueDist(r) \/ (d = INF /\ TrueDist(r) < INF /\ (so'.short \/ WithoutList(r)))
  <2>1. CASE r \in Ranked
    <3>1. so.short \/ WithoutList(r)
      BY <2>1 DEF PadInv
    <3>2. TrueDist(r) < INF
      BY <2>1, RankedFacts
    <3> QED
      BY <3>1, <3>2
  <2>2. CASE r \notin Ranked
    <3>1. ~(Ranks(r) /\ place[r] # OUT)
      BY <2>2 DEF Ranked
    <3> QED
      BY <3>1 DEF TrueDist
  <2> QED
    BY <2>1, <2>2
<1>1a. ShortKept
  BY DEF ShortKept
<1>2. \A i \in DOMAIN out : out[i].dist <= d /\ out[i].row # r
  BY DEF PadInv
<1>3. d \in Int /\ Give(r, d, b)
  BY RankBounds
<1> HIDE DEF d
<1>4. /\ RankOrdered' /\ out' \in Seq([row : Row, dist : Int])
      /\ Given' = IF Where(r) THEN Given \cup {r} ELSE Given
      /\ DOMAIN out \subseteq DOMAIN out' /\ \A i \in DOMAIN out : out'[i] = out[i]
      /\ \A i \in DOMAIN out' \ DOMAIN out : out'[i] = [row |-> r, dist |-> d] /\ Where(r)
      /\ out' = out \/ out' = Append(out, [row |-> r, dist |-> d])
  BY <1>1, <1>1a, <1>2, <1>3, GiveFacts
<1> QED
  BY <1>4 DEF d

\* The row at the head of the walk is handed out without a rank.
LEMMA PadGive ==
    ASSUME IInv, so.phase = "pad", so.pad # <<>>, Same, PadOn, ~Satisfied,
           NEW r, r = PadRow(so, 1), rows[r].vis, rows[r].pred, ~KeyNull(r), r \notin so.seen,
           NEW b \in BOOLEAN, ~b => Where(r), Give(r, INF, b)
    PROVE  IInv'
<1>1. World /\ ScanType /\ PhaseInv /\ RankOrdered
  BY DEF IInv
<1>2. so \in ScanRecord /\ want.kind # "search" /\ FuseInv /\ PadInv(so)
      /\ out \in Seq([row : Row, dist : Int]) /\ want.k \in Nat /\ want' = want
  BY <1>1, KeyFacts DEF ScanType, PhaseInv, Same
<1>3. PICK t : t = so'
  OBVIOUS
<1>4. /\ t \in ScanRecord /\ t.phase = so.phase /\ t.pad = Tail(so.pad) /\ t.walk = so.walk
      /\ t.seen = so.seen /\ t.nulls = so.nulls /\ t.short = so.short
      /\ t.ordered = so.ordered /\ t.ordpos = so.ordpos /\ t.cand = so.cand /\ t.candpos = so.candpos
  BY <1>2, <1>3, PadOnFacts DEF PadOn
<1>5. r \in Row /\ r \in ToGo(so)
  BY <1>1, <1>2, <1>4, WalkOn
<1>6. CASE ~Where(r)
  <2>1. out' = out
    BY <1>6 DEF Give
  <2>2. r \notin Due
    BY <1>6 DEF Due
  <2> QED
    BY <2>1, <2>2, PadSkip
<1>7. CASE Where(r)
  <2>1. /\ RankOrdered' /\ out' \in Seq([row : Row, dist : Int])
        /\ Given' = Given \cup {r}
        /\ \A i \in DOMAIN out : i \in DOMAIN out' /\ out'[i] = out[i]
        /\ \A i \in DOMAIN out' \ DOMAIN out : out'[i] = [row |-> r, dist |-> INF]
        /\ out' = out \/ out' = Append(out, [row |-> r, dist |-> INF])
    BY <1>1, <1>2, <1>3, <1>4, <1>5, <1>7, PadGave
  <2>2. FuseInv'
    BY <1>1, <1>2, <2>1, FuseGive
  <2>3. /\ Given' = Given \cup {r} /\ \A i \in DOMAIN out : i \in DOMAIN out' /\ out'[i] = out[i]
        /\ \A i \in DOMAIN out' \ DOMAIN out : out'[i].row = r /\ out'[i].dist = INF
    BY <2>1
  <2>4. PadInv(t)'
    BY <1>1, <1>2, <1>4, <2>3, PadAdvance
  <2>5. PadInv(so)'
    BY <1>3, <2>4
  <2> QED
    BY <1>1, <1>2, <1>3, <1>4, <2>1, <2>2, <2>5, PadStay
<1> QED
  BY <1>6, <1>7

\* The row is set aside.
Aside(t, r) == so' = [t EXCEPT !.nulls = Append(@, r)]

\* A row whose ordering is NULL is kept for the end.
LEMMA PadAside ==
    ASSUME IInv, so.phase = "pad", so.pad # <<>>, Same, out' = out,
           NEW r, r = PadRow(so, 1), rows[r].vis, rows[r].pred, KeyNull(r),
           NEW t, Walked(t), Aside(t, r)
    PROVE  IInv'
<1>1. World /\ ScanType /\ PhaseInv /\ RankOrdered
  BY DEF IInv
<1>2. so \in ScanRecord /\ want.kind # "search" /\ FuseInv /\ PadInv(so)
      /\ out \in Seq([row : Row, dist : Int]) /\ so.nulls \in Seq(Row)
  BY <1>1 DEF ScanType, PhaseInv, ScanRecord
<1>3. PICK u : u = so'
  OBVIOUS
<1>4. /\ t \in ScanRecord /\ t.phase = so.phase /\ t.pad = Tail(so.pad) /\ t.walk = so.walk
      /\ t.seen = so.seen /\ t.nulls = so.nulls /\ t.short = so.short
      /\ t.ordered = so.ordered /\ t.ordpos = so.ordpos /\ t.cand = so.cand /\ t.candpos = so.candpos
  BY <1>2, PadOnFacts
<1>5. r \in Row /\ r \in ToGo(so) /\ ToGo(t) = ToGo(so) \ {r}
      /\ \A i, j \in DOMAIN t.pad : PadRow(t, i) = PadRow(t, j) => i = j
  BY <1>1, <1>2, <1>4, WalkOn
<1> DEFINE q == so.nulls
           z == Append(q, r)
<1>6. z \in Seq(Row) /\ Len(q) \in Nat /\ DOMAIN q = 1..Len(q) /\ DOMAIN z = 1..(Len(q) + 1)
      /\ (\A i \in 1..Len(q) : z[i] = q[i]) /\ z[Len(q) + 1] = r
  <2>1. q \in Seq(Row)
    BY <1>2
  <2> HIDE DEF q
  <2> QED
    BY <1>5, <2>1
<1> HIDE DEF z
<1>7. /\ u \in ScanRecord /\ u.phase = so.phase /\ u.pad = t.pad /\ u.walk = so.walk
      /\ u.seen = so.seen /\ u.nulls = z /\ u.short = so.short
      /\ u.ordered = so.ordered /\ u.ordpos = so.ordpos /\ u.cand = so.cand /\ u.candpos = so.candpos
  <2>1. u = [t EXCEPT !.nulls = z]
    BY <1>3, <1>4 DEF z, Aside
  <2> QED
    BY <1>4, <1>6, <2>1 DEF ScanRecord
<1>8. \A i \in DOMAIN z : i \in DOMAIN q \/ i = Len(q) + 1
  BY <1>6
<1>9. r \notin Given
  <2>1. r \notin so.seen
    <3>1. r \in so.seen => r \in Ranked
      BY <1>2 DEF PadInv
    <3>2. r \in Ranked => ~KeyNull(r)
      BY <1>1, <1>5, DistFacts DEF Ranked
    <3> QED
      BY <3>1, <3>2
  <2> QED
    BY <1>2, <1>5, <2>1 DEF PadInv, Given
<1>10. PadInv(u)
  <2>1. ToGo(u) = ToGo(t) /\ \A i : PadRow(u, i) = PadRow(t, i)
    <3>1. u.pad = t.pad /\ u.walk = t.walk
      BY <1>4, <1>7
    <3>2. \A i : PadRow(u, i) = PadRow(t, i)
      BY <3>1 DEF PadRow
    <3> QED
      BY <3>1, <3>2 DEF ToGo
  <2>2. u.walk # "none" /\ (u.walk = "match" => want.kind = "lex" /\ want.lex = "same" /\ ~want.cgram)
    BY <1>2, <1>7 DEF PadInv
  <2>3. /\ u.seen \subseteq Ranked
        /\ \A x \in Ranked : Where(x) => x \in u.seen \/ u.short \/ WithoutList(x)
        /\ \A x \in u.seen : Where(x) => x \in Given
    BY <1>2, <1>7 DEF PadInv
  <2>4. \A i, j \in DOMAIN u.pad : PadRow(u, i) = PadRow(u, j) => i = j
    BY <1>5, <1>7, <2>1
  <2>5. \A i \in DOMAIN q : /\ rows[q[i]].vis /\ rows[q[i]].pred /\ KeyNull(q[i])
                            /\ q[i] \notin Given \cup ToGo(so)
    BY <1>2 DEF PadInv
  <2>6. Distinct(z)
    <3>1. \A i, j \in DOMAIN q : q[i] = q[j] => i = j
      BY <1>2 DEF PadInv, Distinct
    <3>2. \A i \in DOMAIN q : q[i] # r
      BY <1>5, <2>5
    <3> QED
      BY <1>6, <1>8, <3>1, <3>2 DEF Distinct
  <2>7. \A i \in DOMAIN z : /\ rows[z[i]].vis /\ rows[z[i]].pred /\ KeyNull(z[i])
                            /\ z[i] \notin Given \cup ToGo(u)
    <3>1. ASSUME NEW i \in DOMAIN z
          PROVE  rows[z[i]].vis /\ rows[z[i]].pred /\ KeyNull(z[i]) /\ z[i] \notin Given \cup ToGo(u)
      <4>1. CASE i \in DOMAIN q
        BY <1>5, <1>6, <2>1, <2>5, <4>1
      <4>2. CASE i = Len(q) + 1
        <5>1. z[i] = r
          BY <1>6, <4>2
        <5> QED
          BY <1>5, <1>9, <2>1, <5>1
      <4> QED
        BY <1>8, <4>1, <4>2
    <3> QED
      BY <3>1
  <2>8. \A i \in DOMAIN out : out[i].row \in u.seen \/ out[i].row \notin ToGo(u)
    BY <1>2, <1>5, <1>7, <2>1 DEF PadInv
  <2>9. \A i \in DOMAIN out : out[i].dist <= INF
    BY <1>2 DEF PadInv
  <2>10. ToSet(z) = ToSet(q) \cup {r}
    BY <1>6, <1>8 DEF ToSet
  <2>11. Due \subseteq (Given \cup ToSet(z)) \cup ToGo(u)
    <3>1. Due \subseteq (Given \cup ToSet(q)) \cup ToGo(so)
      BY <1>2 DEF PadInv
    <3> QED
      BY <1>5, <2>1, <2>10, <3>1
  <2>12. ToGo(u) \subseteq Row
    BY <1>2, <1>5, <2>1 DEF PadInv
  <2> QED
    BY <1>7, <2>2, <2>3, <2>4, <2>6, <2>7, <2>8, <2>9, <2>11, <2>12 DEF PadInv
<1>11. PadInv(so)'
  BY <1>3, <1>10, PadSame
<1>12. RankOrdered' /\ FuseInv'
  <2>1. ShortKept
    BY <1>3, <1>7 DEF ShortKept
  <2> QED
    BY <1>1, <1>2, <2>1, OutSame DEF FuseInv, Same
<1>13. /\ so' \in ScanRecord /\ so'.phase = "pad" /\ so'.ordered = so.ordered /\ so'.ordpos = so.ordpos
       /\ so'.cand = so.cand /\ so'.candpos = so.candpos
  BY <1>3, <1>7
<1> QED
  BY <1>1, <1>2, <1>11, <1>12, <1>13, PadStay

\* One step of the padding's walk.
LEMMA PadGettupleStep ==
    ASSUME IInv, weave_pad_gettuple
    PROVE  IInv'
<1>1. World /\ ScanType /\ PhaseInv /\ RankOrdered
  BY DEF IInv
<1>2. so.phase = "pad" /\ so.pad # <<>>
  BY DEF weave_pad_gettuple
<1>3. so \in ScanRecord /\ want.kind # "search" /\ PadInv(so)
  BY <1>1, <1>2 DEF ScanType, PhaseInv
<1>4. PICK t : Walked(t)
  BY DEF Walked
<1>5. PICK r : r = IF so.walk = "heap" THEN padRoots(Head(so.pad)) ELSE Head(so.pad)
  OBVIOUS
<1>6. t.pad = Tail(so.pad) /\ t.walk = so.walk /\ t.nulls = so.nulls
  BY <1>2, <1>3, <1>4, PadOnFacts
<1>7. r = PadRow(so, 1) /\ r \in Row
  BY <1>1, <1>2, <1>3, <1>5, <1>6, WalkOn
<1>8. /\ want.kind \in {"lex", "vec", "edist", "fuse"}
      /\ rows[r].vis \in BOOLEAN /\ rows[r].pred \in BOOLEAN /\ rows[r].nulldoc \in BOOLEAN
  BY <1>1, <1>3, <1>7, KeyFacts, RowFacts DEF RowType
<1> DEFINE b == ~NoKeys(want)
<1>9. b \in BOOLEAN /\ (~b => Where(r))
  BY NoKeysWhere
<1>10. \/ /\ so.walk = "match"
          /\ IF r \notin so.seen /\ rows[r].vis /\ weave_pad_walk_next(r)
             THEN Give(r, INF, b) ELSE UNCHANGED out
          /\ Scan(t)
       \/ /\ so.walk # "match"
          /\ \/ ~(rows[r].vis /\ rows[r].pred) /\ UNCHANGED out /\ Scan(t)
             \/ /\ rows[r].vis /\ rows[r].pred /\ KeyNull(r) /\ UNCHANGED out
                /\ Scan([t EXCEPT !.nulls = Append(@, r)])
             \/ rows[r].vis /\ rows[r].pred /\ ~KeyNull(r) /\ r \in so.seen /\ UNCHANGED out /\ Scan(t)
             \/ rows[r].vis /\ rows[r].pred /\ ~KeyNull(r) /\ r \notin so.seen /\ Give(r, INF, b) /\ Scan(t)
  <2> DEFINE keep == IF r \notin Row THEN FALSE ELSE rows[r].vis /\ rows[r].pred
             rest == [so EXCEPT !.pad = Tail(@)]
  <2>1. rest = t
    BY <1>4 DEF Walked
  <2>2. \/ /\ so.walk = "match"
           /\ IF r \notin so.seen /\ rows[r].vis /\ weave_pad_walk_next(r)
              THEN weave_pad_emit(r, FALSE) ELSE UNCHANGED out
           /\ Scan(rest)
        \/ /\ so.walk # "match"
           /\ CASE ~keep -> UNCHANGED out /\ Scan(rest)
                [] keep /\ KeyNull(r) -> UNCHANGED out /\ Scan([rest EXCEPT !.nulls = Append(@, r)])
                [] keep /\ ~KeyNull(r) /\ r \in so.seen -> UNCHANGED out /\ Scan(rest)
                [] OTHER -> weave_pad_emit(r, FALSE) /\ Scan(rest)
    BY <1>5 DEF weave_pad_gettuple
  <2>3. keep = (rows[r].vis /\ rows[r].pred)
    BY <1>7
  <2> HIDE DEF keep, rest
  <2>4. weave_pad_emit(r, FALSE) <=> Give(r, INF, b)
    BY DEF weave_pad_emit
  <2> QED
    BY <2>1, <2>2, <2>3, <2>4
<1> HIDE DEF b
<1>11. \A x : Scan(x) => Same /\ so' = x /\ ~Satisfied
  BY DEF Scan, Same, indexVars
<1>12. Scan(t) => Same /\ PadOn /\ ~Satisfied
  <2>1. Scan(t) => Same /\ so' = t /\ ~Satisfied
    BY <1>11
  <2> QED
    BY <1>4, <2>1 DEF PadOn
<1>13. r \in so.seen => (r \in Due => r \in Given)
  BY <1>3 DEF PadInv, Due
<1>14. ASSUME UNCHANGED out, Scan(t), r \in Due => r \in Given PROVE IInv'
  BY <1>2, <1>7, <1>12, <1>14, PadSkip
<1>15. ASSUME Give(r, INF, b), Scan(t), rows[r].vis, rows[r].pred, ~KeyNull(r), r \notin so.seen PROVE IInv'
  BY <1>2, <1>7, <1>9, <1>12, <1>15, PadGive
<1>16. CASE so.walk = "match"
  <2>1. want.kind = "lex" /\ want.lex = "same" /\ Scan(t)
    BY <1>3, <1>10, <1>16 DEF PadInv
  <2>2. CASE r \notin so.seen /\ rows[r].vis /\ weave_pad_walk_next(r)
    <3>1. Give(r, INF, b)
      BY <1>10, <1>16, <2>2
    <3>2. rows[r].pred /\ ~KeyNull(r)
      BY <2>1, <2>2 DEF weave_pad_walk_next, KeyNull
    <3> QED
      BY <1>15, <2>1, <2>2, <3>1, <3>2
  <2>3. CASE ~(r \notin so.seen /\ rows[r].vis /\ weave_pad_walk_next(r))
    <3>1. UNCHANGED out
      BY <1>10, <1>16, <2>3
    <3>2. r \in Due => rows[r].vis /\ weave_pad_walk_next(r)
      BY <2>1 DEF Due, Where, LexWhere, weave_pad_walk_next
    <3> QED
      BY <1>13, <1>14, <2>1, <2>3, <3>1, <3>2
  <2> QED
    BY <2>2, <2>3
<1>17. CASE so.walk # "match"
  <2>1. CASE ~(rows[r].vis /\ rows[r].pred) /\ UNCHANGED out /\ Scan(t)
    <3>1. r \notin Due
      BY <2>1 DEF Due
    <3> QED
      BY <1>14, <2>1, <3>1
  <2>2. CASE /\ rows[r].vis /\ rows[r].pred /\ KeyNull(r) /\ UNCHANGED out
             /\ Scan([t EXCEPT !.nulls = Append(@, r)])
    <3>1. Same /\ Aside(t, r)
      BY <1>11, <2>2 DEF Aside
    <3> QED
      BY <1>2, <1>4, <1>7, <2>2, <3>1, PadAside
  <2>3. CASE rows[r].vis /\ rows[r].pred /\ ~KeyNull(r) /\ r \in so.seen /\ UNCHANGED out /\ Scan(t)
    BY <1>13, <1>14, <2>3
  <2>4. CASE rows[r].vis /\ rows[r].pred /\ ~KeyNull(r) /\ r \notin so.seen /\ Give(r, INF, b) /\ Scan(t)
    BY <1>15, <2>4
  <2> QED
    BY <1>10, <1>17, <2>1, <2>2, <2>3, <2>4
<1> QED
  BY <1>16, <1>17

\* No distance is past NULL's.
LEMMA DistBound ==
    ASSUME World, NEW r \in Row
    PROVE  TrueDist(r) \in Int /\ TrueDist(r) <= NULLDIST /\ (~KeyNull(r) => TrueDist(r) <= INF)
<1>1. INF \in Nat
  BY RankBounds
<1>2. Ranks(r) => Dist(r) \in Nat /\ Dist(r) < INF
  BY DistFacts
<1> QED
  BY <1>1, <1>2 DEF TrueDist, NULLDIST

\* What is left of the rows set aside.
NullTaken(t) == t = [so EXCEPT !.nulls = Tail(@)]

\* A row that was set aside is handed out at the end, at the distance of NULL.
LEMMA NullGave ==
    ASSUME World, Same, ScanType, RankOrdered, want.kind # "search",
           NEW r \in Row, rows[r].vis, rows[r].pred, KeyNull(r), r \notin Given,
           NEW b \in BOOLEAN, ~b => Where(r), Give(r, NULLDIST, b), so'.short = so.short
    PROVE  /\ RankOrdered' /\ out' \in Seq([row : Row, dist : Int])
           /\ Given' = IF Where(r) THEN Given \cup {r} ELSE Given
           /\ \A i \in DOMAIN out' \ DOMAIN out : out'[i].row = r
           /\ out' = out \/ out' = Append(out, [row |-> r, dist |-> NULLDIST])
<1> DEFINE d == NULLDIST
<1>1. TrueDist(r) = d
  BY DEF TrueDist
<1>2. \A i \in DOMAIN out : out[i].dist <= d /\ out[i].row # r
  <2>1. ASSUME NEW i \in DOMAIN out PROVE out[i].dist <= d /\ out[i].row # r
    <3>1. out[i].row \in Row
      BY OutTypes
    <3>2. out[i].dist = TrueDist(out[i].row) \/ out[i].dist = INF
      BY DEF RankOrdered
    <3>3. INF <= d /\ out[i].row # r
      BY RankBounds DEF Given, NULLDIST
    <3>4. TrueDist(out[i].row) <= d
      BY <3>1, DistBound
    <3> QED
      BY <3>2, <3>3, <3>4
  <2> QED
    BY <2>1
<1>3. d \in Int /\ Give(r, d, b)
  BY RankBounds DEF NULLDIST
<1>3a. ShortKept
  BY DEF ShortKept
<1> HIDE DEF d
<1>4. /\ RankOrdered' /\ out' \in Seq([row : Row, dist : Int])
      /\ Given' = IF Where(r) THEN Given \cup {r} ELSE Given
      /\ DOMAIN out \subseteq DOMAIN out' /\ \A i \in DOMAIN out : out'[i] = out[i]
      /\ \A i \in DOMAIN out' \ DOMAIN out : out'[i] = [row |-> r, dist |-> d] /\ Where(r)
      /\ out' = out \/ out' = Append(out, [row |-> r, dist |-> d])
  BY <1>1, <1>2, <1>3, <1>3a, GiveFacts
<1>5. \A i \in DOMAIN out' \ DOMAIN out : out'[i].row = r
  BY <1>4
<1> QED
  BY <1>4, <1>5 DEF d

\* The rows whose ordering is NULL come at the end.
LEMMA PadNullsStep ==
    ASSUME IInv, PadNulls
    PROVE  IInv'
<1>1. World /\ ScanType /\ PhaseInv /\ RankOrdered
  BY DEF IInv
<1>2. so.phase = "pad" /\ so.pad = <<>> /\ so.nulls # <<>>
  BY DEF PadNulls
<1>3. /\ so \in ScanRecord /\ want.kind # "search" /\ PadInv(so) /\ FuseInv
      /\ so.nulls \in Seq(Row) /\ want.k \in Nat
  BY <1>1, <1>2, KeyFacts DEF ScanType, PhaseInv, ScanRecord
<1>4. PICK t : NullTaken(t)
  BY DEF NullTaken
<1>5. Scan(t)
  BY <1>4 DEF PadNulls, NullTaken
<1>6. Same /\ so' = t /\ ~Satisfied
  BY <1>5 DEF Scan, Same, indexVars
<1> DEFINE q == so.nulls
           z == Tail(q)
           n == Len(q)
<1>7. PICK r : r = Head(q)
  OBVIOUS
<1>8. /\ n \in Nat /\ n >= 1 /\ DOMAIN q = 1..n /\ r = q[1] /\ r \in Row
      /\ z \in Seq(Row) /\ DOMAIN z = 1..(n - 1) /\ \A i \in 1..(n - 1) : z[i] = q[i + 1]
  <2>1. q \in Seq(Row) /\ q # <<>>
    BY <1>2, <1>3
  <2> HIDE DEF q
  <2>2. /\ n \in Nat /\ n >= 1 /\ DOMAIN q = 1..n /\ r = q[1]
        /\ z \in Seq(Row) /\ DOMAIN z = 1..(n - 1) /\ \A i \in 1..(n - 1) : z[i] = q[i + 1]
    BY <1>7, <2>1
  <2>3. 1 \in 1..n /\ q[1] \in Row
    BY <2>1, <2>2
  <2> QED
    BY <2>2, <2>3
<1> HIDE DEF z, n
<1>9. /\ t \in ScanRecord /\ t.phase = "pad" /\ t.pad = <<>> /\ t.walk = so.walk /\ t.seen = so.seen
      /\ t.nulls = z /\ t.short = so.short
      /\ t.ordered = so.ordered /\ t.ordpos = so.ordpos /\ t.cand = so.cand /\ t.candpos = so.candpos
  <2>1. t = [so EXCEPT !.nulls = z]
    BY <1>4 DEF NullTaken, z
  <2> QED
    BY <1>2, <1>3, <1>8, <2>1 DEF ScanRecord
<1>10. \A i \in 1..n : /\ rows[q[i]].vis /\ rows[q[i]].pred /\ KeyNull(q[i]) /\ q[i] \notin Given
  BY <1>3, <1>8 DEF PadInv
<1>11. \A i, j \in 1..n : q[i] = q[j] => i = j
  BY <1>3, <1>8 DEF PadInv, Distinct
<1>12. 1 \in 1..n /\ \A i \in 1..(n - 1) : i + 1 \in 1..n /\ i + 1 # 1
  BY <1>8
<1> DEFINE b == ~NoKeys(want)
<1>13. b \in BOOLEAN /\ (~b => Where(r)) /\ Give(r, NULLDIST, b)
  BY <1>7, NoKeysWhere DEF PadNulls, weave_pad_emit
<1> HIDE DEF b
<1>14. rows[r].vis /\ rows[r].pred /\ KeyNull(r) /\ r \notin Given
  BY <1>8, <1>10, <1>12
<1>15. /\ RankOrdered' /\ out' \in Seq([row : Row, dist : Int])
       /\ Given' = IF Where(r) THEN Given \cup {r} ELSE Given
       /\ \A i \in DOMAIN out' \ DOMAIN out : out'[i].row = r
       /\ out' = out \/ out' = Append(out, [row |-> r, dist |-> NULLDIST])
  BY <1>1, <1>3, <1>6, <1>8, <1>9, <1>13, <1>14, NullGave
<1>16. FuseInv'
  BY <1>1, <1>3, <1>6, <1>15, FuseGive DEF Same
<1>17. PadInv(t)'
  <2>1. /\ Row' = Row /\ Due' = Due /\ Ranked' = Ranked /\ rows' = rows /\ want' = want
        /\ \A x : /\ Where(x)' <=> Where(x)
                  /\ KeyNull(x)' <=> KeyNull(x)
                  /\ WithoutList(x)' <=> WithoutList(x)
    BY <1>6, SameFacts DEF Same
  <2>2. DOMAIN t.pad = {}
    BY <1>9
  <2>3. ToGo(t) = {} /\ ToGo(t)' = {}
    BY <2>2 DEF ToGo
  <2>4. t.walk # "none" /\ (t.walk = "match" => want.kind = "lex" /\ want.lex = "same" /\ ~want.cgram)
    BY <1>3, <1>9 DEF PadInv
  <2>5. /\ t.seen \subseteq Ranked /\ \A x \in Ranked : Where(x) => x \in t.seen \/ t.short \/ WithoutList(x)
        /\ \A x \in t.seen : Where(x) => x \in Given'
    BY <1>3, <1>9, <1>15 DEF PadInv
  <2>6. Distinct(z)
    <3>1. ASSUME NEW i \in 1..(n - 1), NEW j \in 1..(n - 1), z[i] = z[j] PROVE i = j
      <4>1. i + 1 = j + 1
        BY <1>8, <1>11, <1>12, <3>1
      <4> QED
        BY <1>8, <4>1
    <3> QED
      BY <1>8, <3>1 DEF Distinct
  <2>7. ASSUME NEW i \in DOMAIN z
        PROVE  rows[z[i]].vis /\ rows[z[i]].pred /\ KeyNull(z[i]) /\ z[i] \notin Given'
    <3>1. z[i] = q[i + 1] /\ i + 1 \in 1..n /\ q[i + 1] # r
      BY <1>8, <1>11, <1>12
    <3> QED
      BY <1>10, <1>15, <3>1
  <2>8. Due \subseteq Given' \cup ToSet(z)
    <3>1. Due \subseteq Given \cup ToSet(q)
      <4>1. DOMAIN so.pad = {}
        BY <1>2
      <4>2. ToGo(so) = {}
        BY <4>1 DEF ToGo
      <4> QED
        BY <1>3, <4>2 DEF PadInv
    <3>2. ASSUME NEW x \in ToSet(q), x # r PROVE x \in ToSet(z)
      <4>1. PICK i \in 1..n : q[i] = x
        BY <1>8 DEF ToSet
      <4>2. i # 1
        BY <1>8, <3>2, <4>1
      <4>3. i - 1 \in 1..(n - 1) /\ (i - 1) + 1 = i
        BY <1>8, <4>2
      <4>4. z[i - 1] = x
        BY <1>8, <4>1, <4>3
      <4> QED
        BY <1>8, <4>3, <4>4 DEF ToSet
    <3>3. r \in Due => r \in Given'
      BY <1>15 DEF Due
    <3> QED
      BY <1>15, <3>1, <3>2, <3>3
  <2>9. Distinct(t.nulls)'
    BY <1>9, <2>6 DEF Distinct
  <2>10. t.pad = <<>>
    BY <1>9
  <2>11. \A i, j \in DOMAIN t.pad : PadRow(t, i)' = PadRow(t, j)' => i = j
    BY <2>2
  <2>12. /\ \A i \in DOMAIN t.nulls : /\ rows[t.nulls[i]].vis /\ rows[t.nulls[i]].pred /\ KeyNull(t.nulls[i])
                                     /\ t.nulls[i] \notin Given'
         /\ Due \subseteq Given' \cup ToSet(t.nulls)
    BY <1>9, <2>7, <2>8
  <2> QED
    BY <2>1, <2>3, <2>4, <2>5, <2>9, <2>10, <2>11, <2>12 DEF PadInv
<1>18. PadInv(so)'
  BY <1>6, <1>17
<1> QED
  BY <1>1, <1>3, <1>6, <1>9, <1>15, <1>16, <1>18, PadStay

\* Counting distinct elements.
LEMMA CountDistinct ==
    ASSUME NEW n \in Nat, NEW f, \A i, j \in 1..n : i < j => f[i] # f[j]
    PROVE  IsFiniteSet({f[i] : i \in 1..n}) /\ Cardinality({f[i] : i \in 1..n}) = n
<1> DEFINE A == 1..n
           B == {f[i] : i \in A}
           g == [i \in A |-> f[i]]
<1>1. IsFiniteSet(A) /\ Cardinality(A) = n
  <2>1. IsFiniteSet(1..n) /\ Cardinality(1..n) = IF 1 > n THEN 0 ELSE n - 1 + 1
    BY FS_Interval
  <2> QED
    BY <2>1
<1>2. g \in Bijection(A, B)
  <2>1. g \in [A -> B] /\ \A y \in B : \E i \in A : g[i] = y
    OBVIOUS
  <2>2. ASSUME NEW i \in A, NEW j \in A, g[i] = g[j] PROVE i = j
    BY <2>2
  <2> QED
    BY <2>1, <2>2 DEF Bijection, Injection, IsInjective, Surjection
<1> HIDE DEF A, B, g
<1>3. IsFiniteSet(B) /\ Cardinality(B) = Cardinality(A)
  BY <1>1, <1>2, FS_Bijection DEF ExistsBijection
<1> QED
  BY <1>1, <1>3 DEF A, B

\* A scan that ends with what it has handed out, or with less.
LEMMA EndOut ==
    ASSUME World, ScanType, Same, so' = [so EXCEPT !.phase = "done"],
           out' \in Seq([row : Row, dist : Int]), RankOrdered', RankComplete'
    PROVE  IInv'
<1>1. so \in ScanRecord /\ so.ordpos <= Len(so.ordered) /\ so.candpos <= Len(so.cand)
  BY DEF ScanType
<1>2. /\ so' \in ScanRecord /\ so'.phase = "done"
      /\ so'.ordered = so.ordered /\ so'.ordpos = so.ordpos
      /\ so'.cand = so.cand /\ so'.candpos = so.candpos
  BY <1>1 DEF ScanRecord
<1>3. World' /\ ScanRecord' = ScanRecord /\ Row' = Row
  BY SameFacts
<1>4. ScanType'
  BY <1>1, <1>2, <1>3 DEF ScanType
<1>5. PhaseInv'
  BY <1>2 DEF PhaseInv
<1> QED
  BY <1>3, <1>4, <1>5 DEF IInv

\* The rows of the clause the ranking reaches.
DueRanked == {r \in Due : TrueDist(r) < INF}

\* They are counted by any sequence of distinct ones that has them all, and no longer one exists.
LEMMA DueCount ==
    ASSUME World, NEW q, Len(q) \in Nat, DOMAIN q = 1..Len(q),
           \A i \in DOMAIN q : q[i].row \in DueRanked,
           \A i, j \in DOMAIN q : i < j => q[i].row # q[j].row
    PROVE  /\ Len(q) <= Cardinality(DueRanked) /\ Cardinality(DueRanked) \in Nat
           /\ (\A r \in DueRanked : \E i \in DOMAIN q : q[i].row = r) => Len(q) = Cardinality(DueRanked)
<1> DEFINE n == Len(q)
           f == [i \in 1..n |-> q[i].row]
           B == {f[i] : i \in 1..n}
<1>1. n \in Nat /\ \A i, j \in 1..n : i < j => f[i] # f[j]
  OBVIOUS
<1>2. B = {q[i].row : i \in DOMAIN q} /\ B \in SUBSET DueRanked
  OBVIOUS
<1>3. IsFiniteSet(B) /\ Cardinality(B) = n
  <2> HIDE DEF n, f
  <2> QED
    BY <1>1, CountDistinct
<1>4. IsFiniteSet(DueRanked) /\ Cardinality(DueRanked) \in Nat
  <2>1. DueRanked \in SUBSET Row
    BY DEF DueRanked, Due
  <2> QED
    BY <2>1, RowFacts
<1>5. n <= Cardinality(DueRanked)
  <2> HIDE DEF B, n
  <2> QED
    BY <1>2, <1>3, <1>4, FS_Subset
<1>6. ASSUME \A r \in DueRanked : \E i \in DOMAIN q : q[i].row = r PROVE n = Cardinality(DueRanked)
  <2>1. B = DueRanked
    BY <1>2, <1>6
  <2> HIDE DEF B, n
  <2> QED
    BY <1>3, <2>1
<1> QED
  BY <1>4, <1>5, <1>6

\* The end of the padding.
LEMMA PadEndStep ==
    ASSUME IInv, PadEnd
    PROVE  IInv'
<1>1. World /\ ScanType /\ PhaseInv /\ RankOrdered
  BY DEF IInv
<1>2. so.phase = "pad" /\ so.pad = <<>> /\ so.nulls = <<>> /\ out' = out /\ ~Satisfied
      /\ so' = [so EXCEPT !.phase = "done"]
  BY DEF PadEnd, Scan
<1>3. Same
  BY DEF PadEnd, Scan, Same, indexVars
<1>4. want.kind # "search" /\ PadInv(so) /\ FuseInv /\ want.k \in Nat /\ (want.k > 0 => want.kind = "fuse")
  <2>1. want.kind # "search" /\ PadInv(so) /\ FuseInv
    BY <1>1, <1>2 DEF PhaseInv
  <2>2. /\ want.kind \in {"lex", "vec", "edist", "fuse", "search"} /\ want.k \in Nat
        /\ want.kind \notin {"search", "fuse"} => want.k = 0
    BY <1>1, KeyFacts
  <2> QED
    BY <2>1, <2>2
<1>5. Given = Due
  <2>1. DOMAIN so.pad = {} /\ DOMAIN so.nulls = {}
    BY <1>2
  <2>2. ToGo(so) = {} /\ ToSet(so.nulls) = {}
    BY <2>1 DEF ToGo, ToSet
  <2>3. Due \subseteq Given
    BY <1>4, <2>2 DEF PadInv
  <2> QED
    BY <1>1, <2>3 DEF RankOrdered, Given
<1>6. so'.phase = "done"
  BY <1>1, <1>2 DEF ScanType, ScanRecord
<1>6a. so'.short = so.short
  BY <1>1, <1>2 DEF ScanType, ScanRecord
<1>7. want' = want /\ Due' = Due /\ (\A r : TrueDist(r)' = TrueDist(r)) /\ RankOrdered'
  <2>1. ShortKept
    BY <1>6a DEF ShortKept
  <2> QED
    BY <1>1, <1>2, <1>3, <2>1, SameFacts, OutSame DEF Same
<1>8. CASE want.k = 0
  <2>1. RankComplete'
    BY <1>2, <1>4, <1>5, <1>7, <1>8 DEF RankComplete, Given
  <2> QED
    BY <1>1, <1>2, <1>3, <2>1, EndType
<1>9. CASE want.k > 0
  <2>1. Len(out) \in Nat /\ DOMAIN out = 1..Len(out) /\ \A i \in DOMAIN out : out[i].row \in Row /\ out[i].dist \in Int
    BY <1>1, OutTypes
  <2>2. Len(out) <= want.k /\ \A i \in DOMAIN out : i < Len(out) => out[i].dist < INF
    BY <1>4, <1>9 DEF FuseInv
  <2>3. ASSUME NEW i \in DOMAIN out PROVE out[i].row \in DueRanked
    <3>1. out[i].dist < INF
      <4>1. CASE i < Len(out)
        BY <2>2, <4>1
      <4>2. CASE ~(i < Len(out))
        <5>1. i = Len(out) /\ out # <<>>
          BY <2>1, <4>2
        <5>2. Last(out) = out[i]
          BY <5>1 DEF Last
        <5> QED
          BY <1>2, <1>4, <1>9, <2>1, <5>1, <5>2, RankBounds DEF Satisfied
      <4> QED
        BY <4>1, <4>2
    <3>2. TrueDist(out[i].row) < INF
      BY <1>1, <3>1 DEF RankOrdered
    <3> QED
      BY <1>1, <3>2 DEF RankOrdered, DueRanked
  <2>4. \A i, j \in DOMAIN out : i < j => out[i].row # out[j].row
    BY <1>1 DEF RankOrdered
  <2>5. \A r \in DueRanked : \E i \in DOMAIN out : out[i].row = r
    BY <1>5 DEF DueRanked, Given
  <2>6. Len(out) = Cardinality(DueRanked)
    BY <1>1, <2>1, <2>3, <2>4, <2>5, DueCount
  <2>7. Len(out) = Min({want.k, Cardinality(DueRanked)})
    <3> DEFINE c == Cardinality(DueRanked)
               k == want.k
    <3>1. c \in Int /\ k \in Int /\ c <= k
      BY <1>4, <2>1, <2>2, <2>6
    <3> HIDE DEF c, k
    <3>2. Min({k, c}) \in {k, c} /\ Min({k, c}) <= c
      BY <3>1, TwoOf
    <3>3. Min({k, c}) = c
      BY <3>1, <3>2
    <3> QED
      BY <2>6, <3>3 DEF c, k
  <2>8. DueRanked' = DueRanked
    BY <1>7 DEF DueRanked
  <2>9. RankComplete'
    <3>1. RankComplete' <=> so'.short \/ Len(out') = Min({want'.k, Cardinality(DueRanked')})
      BY <1>4, <1>6, <1>7, <1>9 DEF RankComplete, DueRanked
    <3> QED
      BY <1>2, <1>7, <2>7, <2>8, <3>1
  <2> QED
    BY <1>1, <1>2, <1>3, <2>9, EndType
<1> QED
  BY <1>4, <1>8, <1>9

\* weave_fuse_search() stops before the first row the ranking did not reach, or with k rows.
LEMMA FuseSearchStep ==
    ASSUME IInv, weave_fuse_search
    PROVE  IInv'
<1> DEFINE n == Len(out)
           T == [row : Row, dist : Int]
<1>1. World /\ ScanType /\ PhaseInv /\ RankOrdered
  BY DEF IInv
<1>2. /\ so.phase \in {"ranked", "pad"} /\ so' = [so EXCEPT !.phase = "done"]
      /\ want.kind = "fuse" /\ want.k > 0 /\ out # <<>> /\ (Len(out) = want.k \/ Last(out).dist >= INF)
      /\ out' = IF Last(out).dist >= INF THEN Front(out) ELSE out
  BY DEF weave_fuse_search, Satisfied
<1>3. Same
  BY DEF weave_fuse_search, Same, indexVars
<1>4. want.k \in Nat /\ INF \in Nat /\ want' = want /\ Due' = Due /\ Row' = Row
      /\ \A r : TrueDist(r)' = TrueDist(r)
  BY <1>1, <1>3, KeyFacts, SameFacts, RankBounds DEF Same
<1>5. n \in Nat /\ DOMAIN out = 1..n /\ \A i \in DOMAIN out : out[i].row \in Row /\ out[i].dist \in Int
  BY <1>1, OutTypes
<1>6. out \in Seq(T) /\ n >= 1 /\ n \in 1..n /\ Last(out) = out[n]
  <2>1. out \in Seq(T)
    BY <1>1 DEF ScanType
  <2> HIDE DEF T
  <2>2. n # 0
    BY <1>2, <2>1
  <2> QED
    BY <1>5, <2>1, <2>2 DEF Last
<1>7. n <= want.k /\ \A i \in 1..n : i < n => out[i].dist < INF
  BY <1>1, <1>2, <1>5 DEF PhaseInv, FuseInv
<1>8. \A i \in 1..n : /\ out[i].row \in Due
                      /\ \/ out[i].dist = TrueDist(out[i].row)
                         \/ out[i].dist = INF /\ TrueDist(out[i].row) < INF /\ so.short
  <2>1. ASSUME NEW r PROVE ~WithoutList(r)
    BY <1>1, <1>2, KeyFacts DEF WithoutList, HasLex, NoKeys
  <2> QED
    BY <1>1, <1>5, <2>1 DEF RankOrdered, Overlooked
<1>8a. \A i \in 1..n : out[i].dist < INF => TrueDist(out[i].row) < INF
  BY <1>8
<1>9. \A i, j \in 1..n : i < j => out[i].dist <= out[j].dist /\ out[i].row # out[j].row
  BY <1>1, <1>5 DEF RankOrdered
<1>10. so'.phase = "done"
  BY <1>1, <1>2 DEF ScanType, ScanRecord
<1>11. RankComplete' <=> so.short \/ Len(out') = Min({want.k, Cardinality(DueRanked)})
  <2>1. so'.short = so.short
    BY <1>1, <1>2 DEF ScanType, ScanRecord
  <2> QED
    BY <1>2, <1>4, <1>10, <2>1 DEF RankComplete, DueRanked
<1>11a. ShortKept
  BY <1>1, <1>2 DEF ShortKept, ScanType, ScanRecord
<1>12. CASE out[n].dist < INF
  <2>1. out' = out /\ n = want.k
    BY <1>2, <1>4, <1>5, <1>6, <1>12
  <2>2. \A i \in 1..n : out[i].row \in DueRanked
    <3>1. ASSUME NEW i \in 1..n PROVE out[i].dist < INF
      <4>1. i < n \/ i = n
        BY <1>5
      <4> QED
        BY <1>7, <1>12, <4>1
    <3> QED
      BY <1>8, <1>8a, <3>1 DEF DueRanked
  <2>3. n <= Cardinality(DueRanked) /\ Cardinality(DueRanked) \in Nat
    BY <1>1, <1>5, <1>9, <2>2, DueCount
  <2>4. n = Min({want.k, Cardinality(DueRanked)})
    <3> DEFINE c == Cardinality(DueRanked)
               k == want.k
    <3>1. c \in Int /\ k \in Int /\ k <= c
      BY <1>4, <2>1, <2>3
    <3> HIDE DEF c, k
    <3>2. Min({k, c}) \in {k, c} /\ Min({k, c}) <= k
      BY <3>1, TwoOf
    <3>3. Min({k, c}) = k
      BY <3>1, <3>2
    <3> QED
      BY <2>1, <3>3 DEF c, k
  <2>5. RankOrdered' /\ RankComplete' /\ out' \in Seq(T)
    BY <1>1, <1>3, <1>6, <1>11, <1>11a, <2>1, <2>4, OutSame
  <2> QED
    BY <1>1, <1>2, <1>3, <2>5, EndOut
<1>13. CASE ~(out[n].dist < INF)
  <2> DEFINE q == Front(out)
  <2>1. out' = q
    BY <1>2, <1>4, <1>5, <1>6, <1>13
  <2>2. q \in Seq(T) /\ Len(q) = n - 1 /\ DOMAIN q = 1..(n - 1) /\ \A i \in 1..(n - 1) : q[i] = out[i]
    <3> HIDE DEF T
    <3>1. q = SubSeq(out, 1, n - 1)
      BY DEF Front
    <3>2. q \in Seq(T)
      BY <1>5, <1>6, <3>1
    <3>3. Len(q) = n - 1 /\ \A i \in 1..(n - 1) : q[i] = out[i]
      BY <1>5, <1>6, <3>1
    <3> HIDE DEF q
    <3> QED
      BY <3>2, <3>3
  <2> HIDE DEF q, T
  <2>3. \A i \in 1..(n - 1) : i \in 1..n /\ i < n
    BY <1>5
  <2>4. \A i \in DOMAIN q : q[i].row \in DueRanked
    <3>1. ASSUME NEW i \in DOMAIN q PROVE q[i].row \in DueRanked
      <4>1. q[i] = out[i] /\ i \in 1..n /\ i < n
        BY <2>2, <2>3
      <4> QED
        BY <1>7, <1>8, <1>8a, <4>1 DEF DueRanked
    <3> QED
      BY <3>1
  <2>5. \A i, j \in DOMAIN q : i < j => q[i].dist <= q[j].dist /\ q[i].row # q[j].row
    BY <1>9, <2>2, <2>3
  <2>6. so.phase = "pad"
    <3>1. ASSUME so.phase = "ranked" PROVE FALSE
      <4>1. LadderInv(so) /\ GivenInv /\ so \in ScanRecord /\ so.ordpos <= Len(so.ordered)
        BY <1>1, <3>1 DEF PhaseInv, ScanType
      <4>2. so.ordered \in Seq(Row) /\ so.ordpos \in Nat
        BY <4>1 DEF ScanRecord
      <4>3. PICK j \in 1..so.ordpos : out[n].row = so.ordered[j]
        BY <1>5, <1>6, <4>1 DEF GivenInv
      <4>4. j \in DOMAIN so.ordered
        BY <4>1, <4>2
      <4>5. out[n].row \in Ranked
        BY <4>1, <4>3, <4>4 DEF LadderInv, Taken, Admitted, ToSet
      <4>6. out[n].dist < INF
        <5>1. out[n].dist = TrueDist(out[n].row)
          BY <1>5, <1>6, <4>1 DEF GivenInv
        <5> QED
          BY <1>1, <4>5, <5>1, RankedFacts
      <4> QED
        BY <1>13, <4>6
    <3> QED
      BY <1>2, <3>1
  <2>7. ASSUME ~so.short, NEW r \in DueRanked PROVE \E i \in DOMAIN q : q[i].row = r
    <3>1. r \in Row /\ rows[r].vis /\ Where(r) /\ TrueDist(r) < INF
      BY <2>7 DEF DueRanked, Due
    <3>2. r \in Ranked
      <4>1. ~(NULLDIST < INF) /\ ~(INF < INF)
        BY <1>4 DEF NULLDIST
      <4>2. TrueDist(r) # NULLDIST /\ TrueDist(r) # INF
        BY <3>1, <4>1
      <4>3. ~KeyNull(r) /\ Ranks(r) /\ place[r] # OUT
        BY <4>2 DEF TrueDist
      <4> QED
        BY <3>1, <4>3 DEF Ranked
    <3>3. r \in Given
      <4>1. ~WithoutList(r)
        BY <1>1, <1>2, KeyFacts DEF WithoutList, HasLex, NoKeys
      <4> QED
        BY <1>1, <2>6, <2>7, <3>1, <3>2, <4>1 DEF PhaseInv, PadInv
    <3>4. PICK i \in 1..n : out[i].row = r
      BY <1>5, <3>3 DEF Given
    <3>5. i # n
      <4>1. out[i].dist = TrueDist(r)
        BY <1>8, <2>7, <3>4
      <4>2. out[i].dist < INF
        BY <3>1, <4>1
      <4>3. ASSUME i = n PROVE FALSE
        <5>1. out[i] = out[n]
          BY <4>3
        <5>2. out[n].dist < INF
          BY <4>2, <5>1
        <5> QED
          BY <1>13, <5>2
      <4> QED
        BY <4>3
    <3>6. i \in 1..(n - 1)
      <4>1. n \in Nat
        BY <1>5
      <4> HIDE DEF n
      <4> QED
        BY <3>5, <4>1
    <3> QED
      BY <2>2, <3>4, <3>6
  <2>8. Len(q) \in Nat /\ DOMAIN q = 1..Len(q)
    BY <1>5, <1>6, <2>2
  <2>9. ASSUME ~so.short PROVE Len(q) = Cardinality(DueRanked)
    <3>1. \A i, j \in DOMAIN q : i < j => q[i].row # q[j].row
      BY <2>5
    <3> QED
      BY <1>1, <2>4, <2>7, <2>8, <2>9, <3>1, DueCount
  <2>10. ASSUME ~so.short PROVE Len(q) = Min({want.k, Cardinality(DueRanked)})
    <3> DEFINE c == Cardinality(DueRanked)
               k == want.k
    <3>1. c \in Int /\ k \in Int /\ c <= k
      BY <1>4, <1>5, <1>7, <2>2, <2>9, <2>10
    <3> HIDE DEF c, k
    <3>2. Min({k, c}) \in {k, c} /\ Min({k, c}) <= c
      BY <3>1, TwoOf
    <3>3. Min({k, c}) = c
      BY <3>1, <3>2
    <3> QED
      BY <2>9, <2>10, <3>3 DEF c, k
  <2>11. RankOrdered'
    <3>1. ASSUME NEW i \in DOMAIN q PROVE Kept(q[i].row, q[i].dist)
      <4>1. i \in DOMAIN out /\ q[i] = out[i]
        BY <1>5, <2>2, <2>3
      <4> QED
        BY <1>1, <1>11a, <4>1, GivenKept
    <3> QED
      BY <1>3, <2>1, <2>5, <3>1, KeptOrdered
  <2>12. RankComplete' /\ out' \in Seq(T)
    BY <1>11, <2>1, <2>2, <2>10
  <2> QED
    BY <1>1, <1>2, <1>3, <2>11, <2>12, EndOut DEF T
<1> QED
  BY <1>12, <1>13

\* What a search is due: the rows of its query, of which the ranking has those with one of
\* its literals, and the padding the others.
LEMMA SearchFacts ==
    ASSUME World, want.kind = "search"
    PROVE  /\ Ranked \subseteq Due /\ Due \in SUBSET Row
           /\ \A r \in Ranked : TrueDist(r) = Dist(r) /\ Dist(r) \in Nat /\ Dist(r) < INF
           /\ \A r \in Due \ Ranked : TrueDist(r) = INF
           /\ weave_query_lit_covered(want.q) => Due = Ranked
           /\ \A r \in Row : rows[r].vis /\ weave_pad_walk_next(r) <=> r \in Due
<1>1. NoKeys(want) /\ want.q \in {"term", "or", "and", "andnot", "ornot", "wild"}
  BY KeyFacts
<1>2. \A r \in Row : Where(r)
  BY <1>1, NoKeysWhere
<1>3. \A r \in Row : r \in Due <=> rows[r].vis /\ rows[r].pred /\ Match(want.q, rows[r].terms) /\ ~rows[r].nulldoc
  BY <1>2 DEF Due
<1>4. Due \in SUBSET Row
  BY DEF Due
<1>5. \A r \in Ranked : r \in Row /\ rows[r].vis /\ rows[r].pred /\ Ranks(r)
                        /\ TrueDist(r) = Dist(r) /\ Dist(r) \in Nat /\ Dist(r) < INF
  BY RankedFacts
<1>6. Ranked \subseteq Due
  BY <1>3, <1>5 DEF Ranks
<1>7. ASSUME NEW r \in Due
      PROVE  r \in Row /\ rows[r].vis /\ place[r] # OUT /\ ~KeyNull(r) /\ Match(want.q, rows[r].terms)
             /\ ~rows[r].nulldoc
  <2>1. r \in Row /\ rows[r].vis /\ rows[r].pred /\ Match(want.q, rows[r].terms) /\ ~rows[r].nulldoc
    BY <1>3, <1>4
  <2>2. place[r] # OUT
    BY <2>1 DEF World, Lists, Row
  <2> QED
    BY <2>1, <2>2 DEF KeyNull
<1>8. ASSUME NEW r \in Due \ Ranked PROVE TrueDist(r) = INF
  <2>1. ~Ranks(r)
    BY <1>7 DEF Ranked
  <2> QED
    BY <1>7, <2>1 DEF TrueDist
<1>9. ASSUME weave_query_lit_covered(want.q), NEW r \in Due PROVE r \in Ranked
  <2>1. want.q \in {"term", "or", "and", "andnot"}
    BY <1>1, <1>9 DEF weave_query_lit_covered
  <2>2. rows[r].terms \in SUBSET {1, 2}
    BY <1>7, RowFacts DEF RowType
  <2>3. 1 \in rows[r].terms \/ (want.q = "or" /\ rows[r].terms # {})
    BY <1>7, <2>1 DEF Match
  <2>4. 1 \in weave_query_terms(want.q) /\ (want.q = "or" => weave_query_terms(want.q) = {1, 2})
    BY DEF weave_query_terms
  <2>5. rows[r].terms \cap weave_query_terms(want.q) # {}
    BY <2>2, <2>3, <2>4
  <2> QED
    BY <1>7, <2>5 DEF Ranked, Ranks
<1>10. \A r \in Row : rows[r].vis /\ weave_pad_walk_next(r) <=> r \in Due
  BY <1>3 DEF weave_pad_walk_next
<1> QED
  BY <1>4, <1>5, <1>6, <1>8, <1>9, <1>10

\* The visible ones of a search's candidates are ranked rows in order, all of them if the
\* candidates are all that is found.
LEMMA VisibleFacts ==
    ASSUME World, NEW c \in Seq(Found), Distinct(c), Nearest(c)
    PROVE  LET v == Pick(c, {i \in DOMAIN c : rows[c[i]].vis}) IN
           /\ v \in Seq(Ranked) /\ Len(v) \in Nat /\ DOMAIN v = 1..Len(v)
           /\ \A i, j \in DOMAIN v : i < j => v[i] # v[j] /\ Dist(v[i]) <= Dist(v[j])
           /\ ToSet(c) = Found => \A r \in Ranked : \E i \in DOMAIN v : v[i] = r
<1> DEFINE P == {i \in DOMAIN c : rows[c[i]].vis}
           v == Pick(c, P)
<1>1. P \in SUBSET DOMAIN c
  OBVIOUS
<1>2. \A i \in DOMAIN c : c[i] \in Found
  OBVIOUS
<1>3. \A r \in Found : rows[r].vis => r \in Ranked
  BY LiveFacts DEF Found, Ranked
<1>4. \A i \in P : c[i] \in Ranked
  BY <1>2, <1>3
<1>5. Ranked \subseteq Found /\ \A r \in Ranked : rows[r].vis
  BY FoundFacts DEF Ranked
<1> HIDE DEF v
<1>6. /\ v \in Seq(Found) /\ DOMAIN v = 1..Len(v) /\ Len(v) \in Nat
      /\ \A k \in DOMAIN v : Asc(P)[k] \in P /\ v[k] = c[Asc(P)[k]]
      /\ \A i \in P : \E k \in DOMAIN v : Asc(P)[k] = i
      /\ \A i, j \in DOMAIN v : i < j => Asc(P)[i] < Asc(P)[j]
  <2> HIDE DEF P
  <2> QED
    BY <1>1, PickFacts DEF v
<1>7. v \in Seq(Ranked)
  <2>1. \A k \in 1..Len(v) : v[k] \in Ranked
    BY <1>4, <1>6
  <2>2. v \in [1..Len(v) -> Ranked]
    <3>1. v = [k \in 1..Len(v) |-> v[k]]
      BY <1>6
    <3> QED
      BY <2>1, <3>1
  <2> QED
    BY <1>6, <2>2, FunctionIsSeq
<1>8. ASSUME NEW i \in DOMAIN v, NEW j \in DOMAIN v, i < j
      PROVE  v[i] # v[j] /\ Dist(v[i]) <= Dist(v[j])
  <2> DEFINE a == Asc(P)[i]
             b == Asc(P)[j]
  <2>1. a \in DOMAIN c /\ b \in DOMAIN c /\ a < b /\ v[i] = c[a] /\ v[j] = c[b]
    BY <1>1, <1>6, <1>8
  <2> HIDE DEF a, b, P
  <2>2. a # b
    <3>1. a \in Int /\ b \in Int
      BY <2>1
    <3> QED
      BY <2>1, <3>1
  <2> QED
    BY <2>1, <2>2 DEF Distinct, Nearest
<1>9. ASSUME ToSet(c) = Found, NEW r \in Ranked PROVE \E i \in DOMAIN v : v[i] = r
  <2>1. PICK k \in DOMAIN c : c[k] = r
    BY <1>5, <1>9 DEF ToSet
  <2>2. k \in P
    BY <1>5, <2>1
  <2>3. PICK i \in DOMAIN v : Asc(P)[i] = k
    BY <1>6, <2>2
  <2> QED
    BY <1>6, <2>1, <2>3
<1> QED
  BY <1>6, <1>7, <1>8, <1>9 DEF v

\* p are rows of Rest, each once: as many as wanted, or all.
FillsUp(p, Rest, wanted) ==
    /\ p \in Seq(Rest) /\ Len(p) \in Nat /\ DOMAIN p = 1..Len(p) /\ Len(p) <= wanted
    /\ \A i, j \in DOMAIN p : i < j => p[i] # p[j]
    /\ Len(p) = wanted \/ \A r \in Rest : \E i \in DOMAIN p : p[i] = r

\* The first of the rows that are due and not yet there, as many as are still wanted.
LEMMA TopkPadFacts ==
    ASSUME World, want.kind = "search", NEW res, Len(res) \in Nat, Len(res) < want.k
    PROVE  FillsUp(weave_topk_pad(res), Due \ ToSet(res), want.k - Len(res))
<1> DEFINE Rest == Due \ ToSet(res)
           q == Asc(Rest)
           k == want.k - Len(res)
           n == Len(q)
           m == Min({k, n})
           p == SubSeq(q, 1, m)
<1>1. {r \in Row \ ToSet(res) : rows[r].vis /\ weave_pad_walk_next(r)} = Rest
  BY SearchFacts
<1>2. weave_topk_pad(res) = p
  BY <1>1 DEF weave_topk_pad
<1>3. Rest \in SUBSET Row /\ Rest \in SUBSET Int
  BY SearchFacts, RowFacts
<1>4. IsFiniteSet(Rest)
  BY <1>3, RowFacts
<1> HIDE DEF Rest
<1>5. /\ q \in Seq(Rest) /\ n \in Nat /\ DOMAIN q = 1..n
      /\ \A x \in Rest : \E i \in 1..n : q[i] = x
      /\ \A i, j \in 1..n : i < j => q[i] < q[j]
  BY <1>3, <1>4, AscFacts
<1>6. k \in Nat /\ \A i \in 1..n : q[i] \in Int
  <2>1. want.k \in Nat
    BY KeyFacts
  <2>2. k \in Nat
    BY <2>1
  <2>3. \A i \in 1..n : q[i] \in Rest
    BY <1>5
  <2> HIDE DEF q, n
  <2> QED
    BY <1>3, <2>2, <2>3
<1> HIDE DEF q, k, n
<1>7. m \in Nat /\ m <= n /\ m <= k /\ m \in {k, n}
  <2>1. k \in Int /\ n \in Int
    BY <1>5, <1>6
  <2>2. Min({k, n}) \in {k, n} /\ Min({k, n}) <= k /\ Min({k, n}) <= n
    BY <2>1, TwoOf
  <2> QED
    BY <1>5, <1>6, <2>2
<1> HIDE DEF m
<1>8. n = Len(q)
  BY DEF n
<1>9. p \in Seq(Rest) /\ Len(p) = m /\ DOMAIN p = 1..m /\ \A i \in 1..m : p[i] = q[i]
  <2>1. q \in Seq(Rest) /\ m \in 0..Len(q)
    <3>1. q \in Seq(Rest)
      BY <1>5
    <3>2. m \in 0..n
      BY <1>5, <1>7
    <3> QED
      BY <1>8, <3>1, <3>2
  <2>2. p \in Seq(Rest)
    BY <2>1
  <2>3. Len(p) = m /\ \A i \in 1..m : p[i] = q[i]
    BY <2>1
  <2> HIDE DEF p
  <2> QED
    BY <2>2, <2>3
<1>10. \A i \in 1..m : i \in 1..n /\ q[i] \in Int
  <2>1. \A i \in 1..m : i \in 1..n
    BY <1>5, <1>7
  <2> QED
    BY <1>6, <2>1
<1> HIDE DEF p
<1>11. \A i, j \in DOMAIN p : i < j => p[i] # p[j]
  BY <1>5, <1>9, <1>10
<1>12. m = k \/ \A r \in Rest : \E i \in DOMAIN p : p[i] = r
  BY <1>5, <1>7, <1>9
<1> QED
  <2>1. FillsUp(p, Rest, k)
    BY <1>7, <1>9, <1>11, <1>12 DEF FillsUp
  <2> QED
    BY <1>2, <2>1 DEF Rest, k

\* What a search returns: ranked rows with their distances, then padding.
Answer(a, p) == [i \in DOMAIN a |-> [row |-> a[i], dist |-> Dist(a[i])]]
                  \o [i \in DOMAIN p |-> [row |-> p[i], dist |-> INF]]

\* q has the n rows of a with their distances, then the m rows of p at infinity.
Answers(q, a, n, p, m) ==
    /\ q \in Seq([row : Row, dist : Int]) /\ Len(q) = n + m /\ DOMAIN q = 1..(n + m)
    /\ \A i \in 1..n : i \in DOMAIN q /\ q[i].row = a[i] /\ q[i].dist = Dist(a[i])
    /\ \A i \in DOMAIN q : i > n => i - n \in 1..m /\ q[i].row = p[i - n] /\ q[i].dist = INF
    /\ \A j \in 1..m : \E i \in DOMAIN q : q[i].row = p[j]

\* An answer does.
LEMMA AnswerRows ==
    ASSUME World, want.kind = "search",
           NEW a \in Seq(Ranked), Len(a) \in Nat, NEW p \in Seq(Due), Len(p) \in Nat
    PROVE  Answers(Answer(a, p), a, Len(a), p, Len(p))
<1> DEFINE T == [row : Row, dist : Int]
           n == Len(a)
           m == Len(p)
           b == [i \in DOMAIN a |-> [row |-> a[i], dist |-> Dist(a[i])]]
           c == [i \in DOMAIN p |-> [row |-> p[i], dist |-> INF]]
           q == Answer(a, p)
<1>1. DOMAIN a = 1..n /\ DOMAIN p = 1..m /\ n \in Nat /\ m \in Nat
  OBVIOUS
<1>2. \A r \in Ranked : r \in Row /\ Dist(r) \in Int
  BY RankedFacts
<1>3. \A r \in Due : r \in Row
  BY SearchFacts
<1>4. INF \in Int
  BY RankBounds
<1>5. \A i \in 1..n : a[i] \in Ranked
  OBVIOUS
<1>6. \A i \in 1..m : p[i] \in Due
  OBVIOUS
<1>7. b \in [1..n -> T] /\ \A i \in 1..n : b[i].row = a[i] /\ b[i].dist = Dist(a[i])
  BY <1>1, <1>2, <1>5
<1>8. c \in [1..m -> T] /\ \A i \in 1..m : c[i].row = p[i] /\ c[i].dist = INF
  BY <1>1, <1>3, <1>4, <1>6
<1>9. q = b \o c
  BY DEF Answer
<1> HIDE DEF b, c, q, T
<1>10. b \in Seq(T) /\ Len(b) = n /\ c \in Seq(T) /\ Len(c) = m
  <2> HIDE DEF n, m
  <2> QED
    BY <1>1, <1>7, <1>8, FunctionIsSeq
<1>11. /\ q \in Seq(T) /\ Len(q) = Len(b) + Len(c) /\ DOMAIN q = 1..(Len(b) + Len(c))
       /\ \A i \in 1..Len(b) : q[i] = b[i]
       /\ \A i \in 1..(Len(b) + Len(c)) : i > Len(b) => i - Len(b) \in 1..Len(c) /\ q[i] = c[i - Len(b)]
  BY <1>9, <1>10, ConcatFacts
<1>12. /\ q \in Seq(T) /\ Len(q) = n + m /\ DOMAIN q = 1..(n + m)
       /\ \A i \in 1..n : q[i] = b[i]
       /\ \A i \in 1..(n + m) : i > n => i - n \in 1..m /\ q[i] = c[i - n]
  <2> HIDE DEF n, m
  <2> QED
    BY <1>10, <1>11
<1> HIDE DEF n, m
<1>13. \A i \in 1..n : i \in DOMAIN q
  BY <1>1, <1>12
<1>14. \A i \in 1..n : q[i].row = a[i] /\ q[i].dist = Dist(a[i])
  BY <1>7, <1>12
<1>15. \A i \in DOMAIN q : i > n => i - n \in 1..m /\ q[i].row = p[i - n] /\ q[i].dist = INF
  BY <1>8, <1>12
<1>16. ASSUME NEW j \in 1..m PROVE \E i \in DOMAIN q : q[i].row = p[j]
  <2> DEFINE k == n + j
  <2>1. k \in DOMAIN q /\ k > n /\ k - n = j
    BY <1>1, <1>12
  <2> HIDE DEF k
  <2>2. q[k].row = p[j]
    BY <1>15, <2>1
  <2> QED
    BY <2>1, <2>2
<1> QED
  <2>1. Answers(q, a, n, p, m)
    BY <1>12, <1>13, <1>14, <1>15, <1>16 DEF Answers, T
  <2> QED
    BY <2>1 DEF n, m, q

\* Ranked rows in order, and rows to pad them with; what they make when put together.
RankedRun(a) ==
    /\ a \in Seq(Ranked) /\ Len(a) \in Nat
    /\ \A i, j \in DOMAIN a : i < j => a[i] # a[j] /\ Dist(a[i]) <= Dist(a[j])
PadRun(p, a) ==
    /\ p \in Seq(Due) /\ Len(p) \in Nat
    /\ \A i \in DOMAIN p : p[i] \notin ToSet(a) /\ p[i] \notin Ranked
    /\ \A i, j \in DOMAIN p : i < j => p[i] # p[j]
HasAll(a, p) == \A r \in Due : (\E i \in DOMAIN a : a[i] = r) \/ (\E i \in DOMAIN p : p[i] = r)
Ordered(q) ==
    \A i \in DOMAIN q :
        /\ q[i].row \in Due /\ q[i].dist = TrueDist(q[i].row)
        /\ \A j \in DOMAIN q : i < j => q[i].dist <= q[j].dist /\ q[i].row # q[j].row

\* They are due, with their distances, in order and without repetition; padding presupposes
\* that no ranked row is missing.
LEMMA AnswerFacts ==
    ASSUME World, want.kind = "search", NEW a, RankedRun(a), NEW p, PadRun(p, a)
    PROVE  /\ Ordered(Answer(a, p))
           /\ Len(a) + Len(p) <= Cardinality(Due) /\ Cardinality(Due) \in Nat
           /\ HasAll(a, p) => Len(a) + Len(p) = Cardinality(Due)
<1> DEFINE n == Len(a)
           m == Len(p)
           q == Answer(a, p)
<1>0. /\ a \in Seq(Ranked) /\ Len(a) \in Nat /\ p \in Seq(Due) /\ Len(p) \in Nat
      /\ \A i, j \in DOMAIN a : i < j => a[i] # a[j] /\ Dist(a[i]) <= Dist(a[j])
      /\ \A i \in DOMAIN p : p[i] \notin ToSet(a) /\ p[i] \notin Ranked
      /\ \A i, j \in DOMAIN p : i < j => p[i] # p[j]
  BY DEF RankedRun, PadRun
<1>1. DOMAIN a = 1..n /\ DOMAIN p = 1..m /\ n \in Nat /\ m \in Nat
  BY <1>0
<1>2. \A i \in 1..n : a[i] \in Ranked
  BY <1>0
<1>3. \A i \in 1..m : p[i] \in Due \ Ranked
  BY <1>0, <1>1
<1>4. /\ q \in Seq([row : Row, dist : Int])
      /\ DOMAIN q = 1..(n + m)
      /\ \A i \in 1..n : i \in DOMAIN q /\ q[i].row = a[i] /\ q[i].dist = Dist(a[i])
      /\ \A i \in DOMAIN q : i > n => i - n \in 1..m /\ q[i].row = p[i - n] /\ q[i].dist = INF
      /\ \A j \in 1..m : \E i \in DOMAIN q : q[i].row = p[j]
  <2>1. Answers(q, a, n, p, m)
    BY <1>0, AnswerRows
  <2> HIDE DEF q, n, m
  <2> QED
    BY <2>1 DEF Answers
<1> HIDE DEF n, m, q
<1>5. \A i \in DOMAIN q : i \in 1..n \/ (i > n /\ i - n \in 1..m)
  BY <1>1, <1>4
<1>6. \A i \in 1..n : q[i].row \in Ranked /\ q[i].row \in Due /\ q[i].dist = TrueDist(q[i].row)
                      /\ q[i].dist \in Nat /\ q[i].dist < INF
  BY <1>2, <1>4, SearchFacts
<1>7. \A i \in DOMAIN q : i > n => q[i].row \in Due \ Ranked /\ q[i].row \in Due
                                   /\ q[i].dist = TrueDist(q[i].row)
  BY <1>3, <1>4, SearchFacts
<1>8. ASSUME NEW i \in DOMAIN q, NEW j \in DOMAIN q, i < j
      PROVE  q[i].dist <= q[j].dist /\ q[i].row # q[j].row
  <2>1. i \in Int /\ j \in Int /\ n \in Int /\ INF \in Int
    BY <1>1, <1>4, RankBounds
  <2>2. CASE j \in 1..n
    <3>1. i \in 1..n
      BY <1>5, <1>8, <2>1, <2>2
    <3> QED
      BY <1>0, <1>1, <1>4, <1>8, <2>2, <3>1
  <2>3. CASE i \in 1..n /\ j > n
    <3>1. q[i].dist \in Nat /\ q[i].dist < INF /\ q[j].dist = INF
      BY <1>4, <1>6, <2>3
    <3>2. q[i].row # q[j].row
      BY <1>6, <1>7, <2>3
    <3> QED
      BY <2>1, <3>1, <3>2
  <2>4. CASE i > n /\ j > n
    <3>1. i - n \in 1..m /\ j - n \in 1..m /\ q[i].row = p[i - n] /\ q[j].row = p[j - n]
          /\ q[i].dist = INF /\ q[j].dist = INF
      BY <1>4, <2>4
    <3>2. i - n < j - n
      BY <1>8, <2>1
    <3> DEFINE u == i - n
               v == j - n
    <3> HIDE DEF u, v
    <3>3. p[u] # p[v]
      BY <1>0, <1>1, <3>1, <3>2 DEF u, v
    <3> QED
      BY <2>1, <3>1, <3>3 DEF u, v
  <2> QED
    BY <1>5, <2>2, <2>3, <2>4
<1>9. \A i \in DOMAIN q : q[i].row \in Due /\ q[i].dist = TrueDist(q[i].row)
  BY <1>5, <1>6, <1>7
<1> DEFINE l == n + m
           f == [i \in 1..l |-> q[i].row]
           B == {f[i] : i \in 1..l}
<1>10. l \in Nat /\ \A i, j \in 1..l : i < j => f[i] # f[j]
  <2>1. l \in Nat /\ DOMAIN q = 1..l
    BY <1>1, <1>4
  <2>2. \A i, j \in DOMAIN q : i < j => q[i].row # q[j].row
    BY <1>8
  <2> HIDE DEF l
  <2> QED
    BY <2>1, <2>2
<1>11. B \in SUBSET Due /\ B = {q[i].row : i \in DOMAIN q}
  BY <1>4, <1>9
<1>12. IsFiniteSet(B) /\ Cardinality(B) = l
  <2> HIDE DEF l, f
  <2> QED
    BY <1>10, CountDistinct
<1>13. IsFiniteSet(Due) /\ Cardinality(Due) \in Nat
  BY SearchFacts, RowFacts
<1> HIDE DEF B, f
<1>14. l <= Cardinality(Due)
  <2> HIDE DEF l
  <2> QED
    BY <1>11, <1>12, <1>13, FS_Subset
<1>15. ASSUME HasAll(a, p)
       PROVE  l = Cardinality(Due)
  <2>1. ASSUME NEW r \in Due PROVE r \in B
    <3>1. CASE \E i \in DOMAIN a : a[i] = r
      <4>1. PICK j \in 1..n : a[j] = r
        BY <1>1, <3>1
      <4>2. j \in DOMAIN q /\ q[j].row = r
        BY <1>4, <4>1
      <4> QED
        BY <1>11, <4>2
    <3>2. CASE \E i \in DOMAIN p : p[i] = r
      <4>1. PICK j \in 1..m : p[j] = r
        BY <1>1, <3>2
      <4>2. \E i \in DOMAIN q : q[i].row = r
        BY <1>4, <4>1
      <4> QED
        BY <1>11, <4>2
    <3> QED
      BY <1>15, <3>1, <3>2 DEF HasAll
  <2>2. B = Due
    BY <1>11, <2>1
  <2> QED
    BY <1>12, <2>2
<1> QED
  <2>1. Ordered(q)
    BY <1>8, <1>9 DEF Ordered
  <2> QED
    BY <1>13, <1>14, <1>15, <2>1 DEF q, n, m, l

\* A search that stops, and one that goes on.
Stopped(s, c) == [s EXCEPT !.phase = "done", !.capped = c]
Searching(s, w) == [s EXCEPT !.phase = "search", !.width = w]

\* Both are records of the scan.
LEMMA SearchUpdate ==
    ASSUME NEW s \in ScanRecord
    PROVE  /\ \A c \in BOOLEAN :
                /\ Stopped(s, c) \in ScanRecord /\ Stopped(s, c).phase = "done" /\ Stopped(s, c).capped = c
                /\ Stopped(s, c).ordered = s.ordered /\ Stopped(s, c).ordpos = s.ordpos
                /\ Stopped(s, c).cand = s.cand /\ Stopped(s, c).candpos = s.candpos
           /\ \A w \in Nat :
                /\ Searching(s, w) \in ScanRecord /\ Searching(s, w).phase = "search"
                /\ Searching(s, w).ordered = s.ordered /\ Searching(s, w).ordpos = s.ordpos
                /\ Searching(s, w).cand = s.cand /\ Searching(s, w).candpos = s.candpos
<1>1. ASSUME NEW c \in BOOLEAN
      PROVE  /\ Stopped(s, c) \in ScanRecord /\ Stopped(s, c).phase = "done" /\ Stopped(s, c).capped = c
             /\ Stopped(s, c).ordered = s.ordered /\ Stopped(s, c).ordpos = s.ordpos
             /\ Stopped(s, c).cand = s.cand /\ Stopped(s, c).candpos = s.candpos
  <2> DEFINE r == [s EXCEPT !.phase = "done"]
  <2>1. /\ r \in ScanRecord /\ r.phase = "done" /\ r.ordered = s.ordered /\ r.ordpos = s.ordpos
        /\ r.cand = s.cand /\ r.candpos = s.candpos
    BY DEF ScanRecord
  <2>2. Stopped(s, c) = [r EXCEPT !.capped = c]
    BY DEF Stopped
  <2> HIDE DEF r
  <2> QED
    BY <2>1, <2>2 DEF ScanRecord
<1>2. ASSUME NEW w \in Nat
      PROVE  /\ Searching(s, w) \in ScanRecord /\ Searching(s, w).phase = "search"
             /\ Searching(s, w).ordered = s.ordered /\ Searching(s, w).ordpos = s.ordpos
             /\ Searching(s, w).cand = s.cand /\ Searching(s, w).candpos = s.candpos
  <2> DEFINE r == [s EXCEPT !.phase = "search"]
  <2>1. /\ r \in ScanRecord /\ r.phase = "search" /\ r.ordered = s.ordered /\ r.ordpos = s.ordpos
        /\ r.cand = s.cand /\ r.candpos = s.candpos
    BY DEF ScanRecord
  <2>2. Searching(s, w) = [r EXCEPT !.width = w]
    BY DEF Searching
  <2> HIDE DEF r
  <2> QED
    BY <2>1, <2>2 DEF ScanRecord
<1> QED
  BY <1>1, <1>2

\* Of the candidates the visible ones, of those the first k, and what follows them.
TopkVisible(c) == Pick(c, {i \in DOMAIN c : rows[c[i]].vis})
TopkResult(v) == SubSeq(v, 1, Min({want.k, Len(v)}))
TopkPadding(res, c, n) ==
    IF Len(res) < want.k /\ Len(c) < n /\ ~weave_query_lit_covered(want.q) THEN weave_topk_pad(res) ELSE <<>>

\* What weave_topk_visible() returns for n candidates: at most k rows that are due, in
\* order; and k, or all, unless the candidates may not have been all.
LEMMA TopkAnswer ==
    ASSUME World, want.kind = "search", NEW n \in Nat,
           NEW cand, cand = weave_topk_candidates_guarded(n),
           NEW res, res = TopkResult(TopkVisible(cand)), NEW pad, pad = TopkPadding(res, cand, n)
    PROVE  LET q == Answer(res, pad) IN
           /\ q \in Seq([row : Row, dist : Int]) /\ Ordered(q)
           /\ \/ Len(res) < want.k /\ Len(cand) >= n
              \/ Len(q) = Min({want.k, Cardinality(Due)})
<1> DEFINE k == want.k
           vis == TopkVisible(cand)
           v == Len(vis)
           m == Min({k, v})
           q == Answer(res, pad)
<1>1. k \in Nat
  BY KeyFacts
<1>2. /\ cand \in Seq(Found) /\ Len(cand) \in Nat /\ Distinct(cand) /\ Nearest(cand)
      /\ Len(cand) < n => ToSet(cand) = Found
  BY GuardedFacts
<1>3. /\ vis \in Seq(Ranked) /\ v \in Nat /\ DOMAIN vis = 1..v
      /\ \A i, j \in DOMAIN vis : i < j => vis[i] # vis[j] /\ Dist(vis[i]) <= Dist(vis[j])
      /\ ToSet(cand) = Found => \A r \in Ranked : \E i \in DOMAIN vis : vis[i] = r
  BY <1>2, VisibleFacts DEF TopkVisible
<1>4. res = SubSeq(vis, 1, m)
  BY DEF TopkResult
<1>4a. v = Len(vis) /\ k = want.k
  OBVIOUS
<1> HIDE DEF k, v, vis
<1>5. m \in Nat /\ m <= k /\ m <= v /\ m \in {k, v}
  <2>1. k \in Int /\ v \in Int
    BY <1>1, <1>3
  <2>2. Min({k, v}) \in {k, v} /\ Min({k, v}) <= k /\ Min({k, v}) <= v
    BY <2>1, TwoOf
  <2> QED
    BY <1>1, <1>3, <2>2
<1> HIDE DEF m
<1>6. res \in Seq(Ranked) /\ Len(res) = m /\ DOMAIN res = 1..m /\ \A i \in 1..m : i \in 1..v /\ res[i] = vis[i]
  <2>1. m \in 0..v /\ v = Len(vis)
    <3>1. m \in 0..v
      BY <1>3, <1>5
    <3> QED
      BY <1>4a, <3>1
  <2>2. res \in Seq(Ranked)
    BY <1>3, <1>4, <2>1
  <2>3. Len(res) = m /\ \A i \in 1..m : res[i] = vis[i]
    BY <1>3, <1>4, <2>1
  <2>4. \A i \in 1..m : i \in 1..v
    BY <1>3, <1>5
  <2> QED
    BY <2>2, <2>3, <2>4
<1>7. \A i, j \in DOMAIN res : i < j => res[i] # res[j] /\ Dist(res[i]) <= Dist(res[j])
  BY <1>3, <1>6
<1>8. Len(cand) < n /\ m < k => \A r \in Ranked : \E i \in DOMAIN res : res[i] = r
  <2>1. m < k => m = v
    BY <1>5
  <2> QED
    BY <1>2, <1>3, <1>6, <2>1
<1>9. /\ pad \in Seq(Due) /\ Len(pad) \in Nat /\ DOMAIN pad = 1..Len(pad) /\ m + Len(pad) <= k
      /\ \A i \in DOMAIN pad : pad[i] \notin ToSet(res) /\ pad[i] \notin Ranked
      /\ \A i, j \in DOMAIN pad : i < j => pad[i] # pad[j]
      /\ m < k /\ Len(cand) < n =>
           \/ m + Len(pad) = k
           \/ \A r \in Due : (\E i \in DOMAIN res : res[i] = r) \/ (\E i \in DOMAIN pad : pad[i] = r)
  <2>1. CASE m < k /\ Len(cand) < n /\ ~weave_query_lit_covered(want.q)
    <3> DEFINE Rest == Due \ ToSet(res)
               l == Len(pad)
    <3>1. pad = weave_topk_pad(res) /\ Len(res) \in Nat /\ Len(res) < want.k
      BY <1>5, <1>6, <2>1 DEF k, TopkPadding
    <3>2. /\ pad \in Seq(Rest) /\ l \in Nat /\ DOMAIN pad = 1..l /\ l <= want.k - Len(res)
          /\ \A i, j \in DOMAIN pad : i < j => pad[i] # pad[j]
          /\ l = want.k - Len(res) \/ \A r \in Rest : \E i \in DOMAIN pad : pad[i] = r
      <4>1. FillsUp(pad, Due \ ToSet(res), want.k - Len(res))
        BY <3>1, TopkPadFacts
      <4> QED
        BY <4>1 DEF FillsUp
    <3>3. l <= k - m /\ (l = k - m \/ \A r \in Rest : \E i \in DOMAIN pad : pad[i] = r)
      BY <1>6, <3>2 DEF k
    <3>4. \A r \in Ranked : r \in ToSet(res)
      BY <1>8, <2>1 DEF ToSet
    <3>5. \A i \in DOMAIN pad : pad[i] \in Rest
      BY <3>2
    <3>6. pad \in Seq(Due)
      <4>1. Rest \in SUBSET Due
        OBVIOUS
      <4> HIDE DEF Rest
      <4> QED
        BY <3>2, <4>1, SeqWider
    <3>7. m + l <= k /\ (l = k - m => m + l = k)
      <4> HIDE DEF l
      <4> QED
        BY <1>1, <1>5, <3>2, <3>3
    <3>8. ASSUME \A r \in Rest : \E i \in DOMAIN pad : pad[i] = r, NEW r \in Due
          PROVE  (\E i \in DOMAIN res : res[i] = r) \/ (\E i \in DOMAIN pad : pad[i] = r)
      <4>1. CASE r \in ToSet(res)
        BY <4>1 DEF ToSet
      <4>2. CASE r \notin ToSet(res)
        BY <3>8, <4>2
      <4> QED
        BY <4>1, <4>2
    <3> QED
      BY <3>2, <3>3, <3>4, <3>5, <3>6, <3>7, <3>8
  <2>2. CASE ~(m < k /\ Len(cand) < n /\ ~weave_query_lit_covered(want.q))
    <3>1. pad = <<>>
      BY <1>6, <2>2 DEF k, TopkPadding
    <3>2. pad \in Seq(Due) /\ Len(pad) = 0 /\ DOMAIN pad = 1..0 /\ DOMAIN pad = {}
      BY <3>1
    <3>3. m + Len(pad) <= k
      BY <1>5, <3>2
    <3>4. m < k /\ Len(cand) < n => \A r \in Due : \E i \in DOMAIN res : res[i] = r
      BY <1>8, <2>2, SearchFacts
    <3> QED
      BY <3>2, <3>3, <3>4
  <2> QED
    BY <2>1, <2>2
<1>10. Len(res) \in Nat
  BY <1>5, <1>6
<1>11. /\ Ordered(q) /\ Len(res) + Len(pad) <= Cardinality(Due) /\ Cardinality(Due) \in Nat
       /\ (\A r \in Due : (\E i \in DOMAIN res : res[i] = r) \/ (\E i \in DOMAIN pad : pad[i] = r))
            => Len(res) + Len(pad) = Cardinality(Due)
  <2>1. RankedRun(res) /\ PadRun(pad, res)
    BY <1>6, <1>7, <1>9, <1>10 DEF RankedRun, PadRun
  <2>2. HasAll(res, pad) <=>
          \A r \in Due : (\E i \in DOMAIN res : res[i] = r) \/ (\E i \in DOMAIN pad : pad[i] = r)
    BY DEF HasAll
  <2> QED
    BY <2>1, <2>2, AnswerFacts
<1>12. Answers(q, res, Len(res), pad, Len(pad))
  BY <1>6, <1>9, <1>10, AnswerRows
<1> HIDE DEF q
<1>13. q \in Seq([row : Row, dist : Int]) /\ Len(q) = m + Len(pad)
  BY <1>6, <1>12 DEF Answers
<1>14. ASSUME ~(Len(res) < want.k /\ Len(cand) >= n) PROVE Len(q) = Min({want.k, Cardinality(Due)})
  <2> DEFINE c == Cardinality(Due)
             l == m + Len(pad)
  <2>1. l \in Int /\ c \in Int /\ l <= k /\ l <= c
    BY <1>5, <1>6, <1>9, <1>11
  <2>2. l = k \/ l = c
    <3>1. CASE m < k
      <4>1. Len(cand) < n
        BY <1>2, <1>6, <1>14, <3>1 DEF k
      <4> QED
        BY <1>6, <1>9, <1>11, <3>1, <4>1
    <3>2. CASE ~(m < k)
      <4>1. Len(pad) \in Nat /\ m + Len(pad) <= k
        BY <1>9
      <4> QED
        BY <1>1, <1>5, <3>2, <4>1
    <3> QED
      BY <3>1, <3>2
  <2>3. Min({k, c}) \in {k, c} /\ Min({k, c}) <= k /\ Min({k, c}) <= c
    <3>1. k \in Int /\ c \in Int
      BY <1>1, <2>1
    <3> HIDE DEF c
    <3> QED
      BY <3>1, TwoOf
  <2> HIDE DEF c, l
  <2>4. l = Min({k, c})
    BY <1>1, <2>1, <2>2, <2>3
  <2> QED
    BY <1>13, <2>4 DEF c, l, k
<1> QED
  BY <1>11, <1>13, <1>14 DEF q

\* One round of a search: it answers, or looks again more widely.
LEMMA TopkRound ==
    ASSUME weave_topk_visible
    PROVE  /\ so.phase \in {"start", "search"} /\ want.kind = "search" /\ Same
           /\ \E n \in {SearchWidth, so.width} :
                LET cand == weave_topk_candidates_guarded(n)
                    res == TopkResult(TopkVisible(cand))
                    pad == TopkPadding(res, cand, n) IN
                \/ /\ out' = Answer(res, pad)
                   /\ so' = Stopped(so, Len(res) < want.k /\ Len(cand) >= n)
                \/ so' = Searching(so, Min({n * 2, SearchCap})) /\ out' = out
<1> DEFINE n == IF so.phase = "start" THEN SearchWidth ELSE so.width
           cand == weave_topk_candidates_guarded(n)
           res == TopkResult(TopkVisible(cand))
           pad == TopkPadding(res, cand, n)
<1>1. so.phase \in {"start", "search"} /\ want.kind = "search" /\ Same
  BY DEF weave_topk_visible, Scan, Same, indexVars
<1>2. \/ out' = Answer(res, pad) /\ so' = Stopped(so, Len(res) < want.k /\ Len(cand) >= n)
      \/ so' = Searching(so, Min({n * 2, SearchCap})) /\ out' = out
  BY Zenon DEF weave_topk_visible, Scan, TopkResult, TopkVisible, TopkPadding, Answer, Stopped, Searching
<1>3. n \in {SearchWidth, so.width}
  OBVIOUS
<1> QED
  BY <1>1, <1>2, <1>3

\* A search keeps the invariant.
LEMMA TopkStep ==
    ASSUME IInv, weave_topk_visible
    PROVE  IInv'
<1>1. World /\ ScanType /\ PhaseInv /\ RankOrdered
  BY DEF IInv
<1>2. so.phase \in {"start", "search"} /\ want.kind = "search" /\ Same
  BY TopkRound
<1>3. so \in ScanRecord /\ so.width \in Nat /\ want.k \in Nat /\ Factor \in Nat /\ WidthFloor \in Nat
      /\ SearchCap \in Nat /\ so.ordpos <= Len(so.ordered) /\ so.candpos <= Len(so.cand) /\ out = <<>>
  <2>1. so \in ScanRecord /\ so.ordpos <= Len(so.ordered) /\ so.candpos <= Len(so.cand)
    BY <1>1 DEF ScanType
  <2>2. so.width \in Nat
    BY <2>1 DEF ScanRecord
  <2> QED
    BY <1>1, <1>2, <2>1, <2>2, KeyFacts, RankBounds DEF PhaseInv
<1>4. SearchWidth \in Nat
  <2> DEFINE a == want.k * Factor
             b == WidthFloor
  <2>1. a \in Nat /\ b \in Nat
    BY <1>3
  <2>2. SearchWidth = Max({a, b})
    BY DEF SearchWidth
  <2> HIDE DEF a, b
  <2>3. Max({a, b}) \in {a, b}
    BY <2>1, TwoOf
  <2> QED
    BY <2>1, <2>2, <2>3
<1>5. PICK n \in {SearchWidth, so.width} :
        LET cand == weave_topk_candidates_guarded(n)
            res == TopkResult(TopkVisible(cand))
            pad == TopkPadding(res, cand, n) IN
        \/ /\ out' = Answer(res, pad)
           /\ so' = Stopped(so, Len(res) < want.k /\ Len(cand) >= n)
        \/ so' = Searching(so, Min({n * 2, SearchCap})) /\ out' = out
  BY TopkRound
<1>6. n \in Nat
  BY <1>3, <1>4
<1> DEFINE cand == weave_topk_candidates_guarded(n)
           res == TopkResult(TopkVisible(cand))
           pad == TopkPadding(res, cand, n)
           b == Len(res) < want.k /\ Len(cand) >= n
<1>7. /\ World' /\ ScanRecord' = ScanRecord /\ Row' = Row /\ Due' = Due /\ want' = want
      /\ \A r : TrueDist(r)' = TrueDist(r)
  BY <1>1, <1>2, SameFacts DEF Same
<1>8. CASE out' = Answer(res, pad) /\ so' = Stopped(so, b)
  <2> DEFINE q == Answer(res, pad)
  <2>1. /\ q \in Seq([row : Row, dist : Int]) /\ Ordered(q)
        /\ b \/ Len(q) = Min({want.k, Cardinality(Due)})
    BY <1>1, <1>2, <1>6, TopkAnswer
  <2>2. out' = q /\ b \in BOOLEAN
    BY <1>8
  <2> HIDE DEF q
  <2>3. so' = Stopped(so, b)
    BY <1>8
  <2> HIDE DEF b
  <2>4. /\ so' \in ScanRecord /\ so'.phase = "done" /\ so'.capped = b
        /\ so'.ordered = so.ordered /\ so'.ordpos = so.ordpos
        /\ so'.cand = so.cand /\ so'.candpos = so.candpos
    BY <1>3, <2>2, <2>3, SearchUpdate
  <2>5. ScanType'
    BY <1>3, <1>7, <2>1, <2>2, <2>4 DEF ScanType
  <2>6. PhaseInv'
    BY <2>4 DEF PhaseInv
  <2>7. RankOrdered'
    BY <1>7, <2>1, <2>2 DEF RankOrdered, Ordered
  <2>8. RankComplete'
    BY <1>2, <1>7, <2>1, <2>2, <2>4 DEF RankComplete
  <2> QED
    BY <1>7, <2>5, <2>6, <2>7, <2>8 DEF IInv
<1>9. CASE so' = Searching(so, Min({n * 2, SearchCap})) /\ out' = out
  <2> DEFINE w == Min({n * 2, SearchCap})
  <2>1. w \in Nat
    <3> DEFINE c == n * 2
               d == SearchCap
    <3>1. c \in Nat /\ d \in Nat
      BY <1>3, <1>6
    <3> HIDE DEF c, d
    <3>2. Min({c, d}) \in {c, d}
      BY <3>1, TwoOf
    <3>3. Min({c, d}) \in Nat
      BY <3>1, <3>2
    <3> QED
      BY <3>3 DEF c, d
  <2>2. so' = Searching(so, w)
    BY <1>9
  <2> HIDE DEF w
  <2>3. /\ so' \in ScanRecord /\ so'.phase = "search"
        /\ so'.ordered = so.ordered /\ so'.ordpos = so.ordpos
        /\ so'.cand = so.cand /\ so'.candpos = so.candpos
    BY <1>3, <2>1, <2>2, SearchUpdate
  <2>4. ScanType'
    BY <1>1, <1>3, <1>7, <1>9, <2>3 DEF ScanType
  <2>5. PhaseInv'
    BY <1>2, <1>3, <1>7, <1>9, <2>3 DEF PhaseInv
  <2>6. RankOrdered'
    BY <1>3, <1>7, <1>9 DEF RankOrdered
  <2>7. RankComplete'
    BY <2>3 DEF RankComplete
  <2> QED
    BY <1>7, <2>4, <2>5, <2>6, <2>7 DEF IInv
<1> QED
  BY <1>5, <1>8, <1>9

\* A rescan is a fresh scan for other keys of the same rows.
LEMMA RescanStep ==
    ASSUME IInv, weave_rescan
    PROVE  IInv'
<1>1. World
  BY DEF IInv
<1>2. PICK w \in want.again : want' = Rescanned(want, w)
  BY DEF weave_rescan
<1>3. so' = FreshScan /\ out' = <<>> /\ UNCHANGED <<rows, place, dead>>
  BY DEF weave_rescan, ForgetScan, indexVars
<1>4. /\ KeysFit(want') /\ want'.again = want.again /\ want'.v12 = want.v12
      /\ \A u : Rescanned(want', u) = Rescanned(want, u)
  <2>1. KeysFit(Rescanned(want, w))
    BY <1>1 DEF World
  <2>2. want' \in KeysType(want'.again)
    BY <1>2, <2>1 DEF KeysFit
  <2>3. want'.again = want.again /\ want'.v12 = want.v12
    <3> DEFINE r == [w EXCEPT !.again = want.again]
    <3>1. want' = [r EXCEPT !.v12 = want.v12]
      BY <1>2 DEF Rescanned
    <3>2. DOMAIN want' = {"kind", "again", "q", "chan", "lex", "not", "dv", "cgram", "lossy", "v12",
                          "hint", "k", "slack"}
      BY <2>2 DEF KeysType
    <3>3. DOMAIN want' = DOMAIN r /\ DOMAIN r = DOMAIN w
      BY <3>1
    <3>4. "again" \in DOMAIN w /\ "v12" \in DOMAIN r
      BY <3>2, <3>3
    <3>5. r.again = want.again
      BY <3>4
    <3> HIDE DEF r
    <3> QED
      BY <3>1, <3>3, <3>4, <3>5
  <2> QED
    BY <1>2, <2>1, <2>3 DEF Rescanned
<1>5. World' /\ Row' = Row
  BY <1>1, <1>3, <1>4 DEF World, Row, RowType
<1>6. so' \in ScanRecord'
  <2>1. ScanRecord' = ScanRecord
    BY <1>5 DEF ScanRecord
  <2>2. FreshScan \in ScanRecord
    BY <1>1, FreshType
  <2> QED
    BY <1>3, <2>1, <2>2
<1>7. ScanType'
  BY <1>3, <1>6 DEF ScanType, FreshScan
<1>8. PhaseInv'
  BY <1>3 DEF PhaseInv, FreshScan
<1>9. RankOrdered' /\ RankComplete'
  BY <1>3 DEF RankOrdered, RankComplete, FreshScan
<1> QED
  BY <1>5, <1>7, <1>8, <1>9 DEF IInv

\* The greatest of a finite set of numbers.
LEMMA GreatestOf ==
    ASSUME NEW S \in SUBSET Int, IsFiniteSet(S), S # {}
    PROVE  Max(S) \in S /\ \A x \in S : Max(S) >= x
<1> DEFINE q == Asc(S)
           n == Len(q)
<1>1. /\ q \in Seq(S) /\ n \in Nat
      /\ \A x \in S : \E k \in 1..n : q[k] = x
      /\ \A i, j \in 1..n : i < j => q[i] < q[j]
  BY AscFacts
<1>2. \A k \in 1..n : q[k] \in S
  BY <1>1
<1> HIDE DEF q, n
<1>3. n \in 1..n
  <2>1. PICK x \in S : TRUE
    OBVIOUS
  <2>2. PICK k \in 1..n : q[k] = x
    BY <1>1
  <2> QED
    BY <1>1, <2>2
<1>4. ASSUME NEW y \in S PROVE q[n] >= y
  <2>1. PICK k \in 1..n : q[k] = y
    BY <1>1
  <2>2. k = n \/ k < n
    BY <1>1
  <2>3. k = n \/ q[k] < q[n]
    BY <1>1, <1>3, <2>2
  <2>4. q[k] \in Int /\ q[n] \in Int
    BY <1>2, <1>3
  <2> QED
    BY <2>1, <2>3, <2>4
<1>5. \E x \in S : \A y \in S : x >= y
  BY <1>2, <1>3, <1>4
<1> QED
  BY <1>5 DEF Max

\* A new bolt has a number of its own.
LEMMA NewBoltFacts ==
    ASSUME World
    PROVE  NewBolt \in Nat /\ NewBolt # PENDING /\ NewBolt # OUT
<1> DEFINE T == {place[r] : r \in Row}
           S == {PENDING} \cup Bolts
<1>1. IsFiniteSet(Row) /\ place \in [Row -> Nat \cup {OUT}]
  BY RowFacts DEF World
<1>2. IsFiniteSet(T)
  <2>1. place \in Surjection(Row, T)
    BY <1>1 DEF Surjection
  <2> HIDE DEF T
  <2> QED
    BY <1>1, <2>1, FS_Surjection
<1>3. Bolts \in SUBSET T /\ Bolts \in SUBSET Nat
  BY <1>1 DEF Bolts
<1>4. IsFiniteSet(S)
  <2>1. IsFiniteSet(Bolts)
    <3> HIDE DEF T
    <3> QED
      BY <1>2, <1>3, FS_Subset
  <2>2. IsFiniteSet({PENDING})
    BY FS_Singleton
  <2> QED
    BY <2>1, <2>2, FS_Union
<1>5. S \in SUBSET Int /\ S # {} /\ 0 \in S
  BY <1>3 DEF PENDING
<1> HIDE DEF S
<1>6. Max(S) \in S /\ \A x \in S : Max(S) >= x
  BY <1>4, <1>5, GreatestOf
<1>7. Max(S) \in Int /\ Max(S) >= 0
  BY <1>5, <1>6
<1>8. NewBolt = Max(S) + 1
  BY DEF NewBolt, S
<1> QED
  BY <1>7, <1>8 DEF PENDING, OUT

\* A step of another session.
OtherSession == Flush \/ Merge \/ \E r \in Row : Insert(r) \/ Vacuum(r)

\* What it leaves alone: the heap, the scan and its keys; and of the index, for every row the
\* snapshot sees, whether it is listed.  It adds no row that was there when the scan began.
Elsewhere ==
    /\ UNCHANGED <<rows, want, so, out>> /\ so.phase \notin {"start", "done", "error"}
    /\ place' \in [Row -> Nat \cup {OUT}] /\ dead' \in SUBSET Row
    /\ \A r \in Row : rows[r].vis => (place'[r] # OUT <=> place[r] # OUT)
    /\ \A r \in dead' : ~rows[r].vis /\ place'[r] # OUT /\ place'[r] # PENDING
    /\ \A r \in Row : ~rows[r].late /\ place'[r] # OUT /\ r \notin dead' => place[r] # OUT /\ r \notin dead

\* Every such step is one of another session's.
LEMMA MoveFacts ==
    ASSUME World, OtherSession
    PROVE  Elsewhere
<1>1. /\ place \in [Row -> Nat \cup {OUT}] /\ dead \in SUBSET Row
      /\ \A r \in dead : ~rows[r].vis /\ place[r] # OUT /\ place[r] # PENDING
      /\ \A r \in Row : rows[r].late => ~rows[r].vis
  BY DEF World, Lists, Row
<1>2. PENDING # OUT /\ PENDING \in Nat
  BY DEF PENDING, OUT
<1>3. NewBolt \in Nat /\ NewBolt # PENDING /\ NewBolt # OUT
  BY NewBoltFacts
<1>4. Pending = {r \in Row : place[r] = PENDING}
      /\ Flushed = {r \in Row : place[r] # OUT /\ place[r] # PENDING /\ r \notin dead}
      /\ \A r \in Row : place[r] \in Bolts <=> place[r] # OUT /\ place[r] # PENDING
  BY LiveFacts
<1>5. UNCHANGED <<rows, want, so, out>> /\ so.phase \notin {"start", "done", "error"}
  BY DEF OtherSession, Flush, Merge, Insert, Vacuum, Move
<1>6. CASE Flush
  <2>1. place' = [r \in Row |-> IF r \in Pending THEN NewBolt ELSE place[r]] /\ dead' = dead
    BY <1>6 DEF Flush
  <2> QED
    BY <1>1, <1>2, <1>3, <1>4, <1>5, <2>1 DEF Elsewhere
<1>7. CASE Merge
  <2>1. /\ place' = [r \in Row |-> IF r \in dead THEN OUT ELSE IF place[r] \in Bolts THEN NewBolt ELSE place[r]]
        /\ dead' = {}
    BY <1>7 DEF Merge
  <2> QED
    BY <1>1, <1>2, <1>3, <1>4, <1>5, <2>1 DEF Elsewhere
<1>8. ASSUME NEW r \in Row, Insert(r) PROVE Elsewhere
  <2>1. /\ place[r] = OUT /\ rows[r].late
        /\ place' = [place EXCEPT ![r] = PENDING] /\ dead' = dead
    BY <1>8 DEF Insert
  <2>3. ~rows[r].vis /\ r \notin dead
    BY <1>1, <2>1
  <2>4. place' \in [Row -> Nat \cup {OUT}] /\ place'[r] = PENDING /\ \A x \in Row : x # r => place'[x] = place[x]
    BY <1>1, <1>2, <2>1
  <2> QED
    BY <1>1, <1>2, <1>5, <2>1, <2>3, <2>4 DEF Elsewhere
<1>9. ASSUME NEW r \in Row, Vacuum(r) PROVE Elsewhere
  <2>1. r \in Flushed /\ ~rows[r].vis /\ dead' = dead \cup {r} /\ place' = place
    BY <1>9 DEF Vacuum
  <2> QED
    BY <1>1, <1>4, <1>5, <2>1 DEF Elsewhere
<1> QED
  BY <1>6, <1>7, <1>8, <1>9 DEF OtherSession

\* Keys that depend on the heap and the keys alone stay; so does what is ranked.
LEMMA ElsewhereFacts ==
    ASSUME World, Elsewhere
    PROVE  /\ World' /\ Row' = Row /\ ScanRecord' = ScanRecord /\ Due' = Due /\ Ranked' = Ranked
           /\ \A r : (Ranks(r)' <=> Ranks(r)) /\ (KeyNull(r)' <=> KeyNull(r)) /\ (Where(r)' <=> Where(r))
           /\ \A r : Dist(r)' = Dist(r) /\ (WithoutList(r)' <=> WithoutList(r))
           /\ \A r \in Row : rows[r].vis => TrueDist(r)' = TrueDist(r)
<1>1. /\ rows' = rows /\ want' = want
      /\ place' \in [Row -> Nat \cup {OUT}] /\ dead' \in SUBSET Row
      /\ \A r \in Row : rows[r].vis => (place'[r] # OUT <=> place[r] # OUT)
      /\ \A r \in dead' : ~rows[r].vis /\ place'[r] # OUT /\ place'[r] # PENDING
  BY DEF Elsewhere
<1>2. Row' = Row
  BY <1>1 DEF Row
<1>3. ScanRecord' = ScanRecord
  BY <1>2 DEF ScanRecord
<1>4. Lists(place', rows, want.v12)
  <2>1. /\ Lists(place, rows, want.v12) /\ Row = DOMAIN rows
    BY DEF World, Row
  <2> QED
    BY <1>1, <2>1 DEF Lists
<1>5. World'
  <2>1. rows \in Seq(RowType) /\ KeysFit(want) /\ \A w \in want.again : KeysFit(Rescanned(want, w))
    BY DEF World
  <2>2. \A w : KeysFit(Rescanned(want, w))' <=> KeysFit(Rescanned(want, w))
    BY <1>1 DEF KeysFit, Rescanned
  <2>3. KeysFit(want)' <=> KeysFit(want)
    BY <1>1 DEF KeysFit
  <2>4. Lists(place, rows, want.v12)' <=> Lists(place', rows, want.v12)
    BY <1>1 DEF Lists
  <2> QED
    BY <1>1, <1>2, <1>4, <2>1, <2>2, <2>3, <2>4 DEF World
<1>6. HasLexChan' = HasLexChan /\ weave_fuse_has_vec' = weave_fuse_has_vec
  BY <1>1 DEF HasLexChan, weave_fuse_has_vec
<1>7. \A r : Ranks(r)' <=> Ranks(r)
  BY <1>1, <1>6 DEF Ranks
<1>8. \A r : KeyNull(r)' <=> KeyNull(r)
  BY <1>1, <1>6 DEF KeyNull
<1>9. \A r : Dist(r)' = Dist(r)
  BY <1>1 DEF Dist
<1>9a. \A r : WithoutList(r)' <=> WithoutList(r)
  BY <1>1 DEF WithoutList, HasLex, weave_query_has_not
<1>10. \A r : Where(r)' <=> Where(r)
  BY <1>1 DEF Where, LexWhere
<1>11. Due' = Due
  BY <1>1, <1>2, <1>10 DEF Due
<1>12. Ranked' = Ranked
  BY <1>1, <1>2, <1>7 DEF Ranked
<1>13. \A r \in Row : rows[r].vis => TrueDist(r)' = TrueDist(r)
  BY <1>1, <1>7, <1>8, <1>9 DEF TrueDist
<1> QED
  BY <1>2, <1>3, <1>5, <1>7, <1>8, <1>9, <1>9a, <1>10, <1>11, <1>12, <1>13

\* So does what the scan has of the ranking, of the gate and of the padding.
LEMMA ElsewhereScan ==
    ASSUME World, Elsewhere, NEW s \in ScanRecord
    PROVE  /\ PassInv(s) => PassInv(s)'
           /\ LadderInv(s) => LadderInv(s)'
           /\ HitsInv(s) => HitsInv(s)'
           /\ GateInv(s) => GateInv(s)'
           /\ PadInv(s) => PadInv(s)'
<1>1. rows' = rows /\ want' = want /\ out' = out
  BY DEF Elsewhere
<1>2. /\ World' /\ Row' = Row /\ ScanRecord' = ScanRecord /\ Due' = Due /\ Ranked' = Ranked
      /\ \A r : (Ranks(r)' <=> Ranks(r)) /\ (KeyNull(r)' <=> KeyNull(r)) /\ (Where(r)' <=> Where(r))
      /\ \A r : Dist(r)' = Dist(r) /\ (WithoutList(r)' <=> WithoutList(r))
  BY ElsewhereFacts
<1>3. s.cand \in Seq(Row) /\ \A i \in DOMAIN s.cand : s.cand[i] \in Row
  BY DEF ScanRecord
<1>4. ASSUME PassInv(s) PROVE PassInv(s)'
  <2>1. \A i \in DOMAIN s.cand : rows[s.cand[i]].vis => place'[s.cand[i]] # OUT
    BY <1>3, <1>4 DEF PassInv, Elsewhere
  <2> QED
    BY <1>1, <1>2, <1>4, <2>1 DEF PassInv, Nearest, Gated
<1>5. Admitted(s)' = Admitted(s)
  BY <1>2 DEF Admitted, Gated
<1>6. ASSUME LadderInv(s) PROVE LadderInv(s)'
  BY <1>1, <1>2, <1>5, <1>6 DEF LadderInv, Nearest, Exact, GrowProves, Left, Taken
<1>7. ASSUME HitsInv(s) PROVE HitsInv(s)'
  <2> DEFINE m == s.maxhits
  <2>1. s.width >= 1 /\ m \in Nat
    BY <1>7 DEF HitsInv, ScanRecord
  <2>2. UnionCounted' <=> UnionCounted
    BY <1>1, <1>2 DEF UnionCounted
  <2>3. ASSUME want.kind \in {"lex", "fuse"}, UnionCounted PROVE Cardinality(Counted') <= m
    <3>1. Counted' \in SUBSET Counted
      <4>1. Live = {r \in Row : place[r] # OUT /\ r \notin dead}
        BY LiveFacts
      <4>2. ASSUME NEW r \in Live' PROVE r \in Row /\ place'[r] # OUT /\ r \notin dead'
        <5>1. r \in Row /\ ((place'[r] \in Bolts' /\ r \notin dead') \/ place'[r] = PENDING)
          BY <1>2 DEF Live, Flushed, Pending
        <5>2. Bolts' \cap {OUT} = {} /\ PENDING # OUT
          BY DEF Bolts, PENDING, OUT
        <5>3. \A x \in dead' : place'[x] # PENDING
          BY DEF Elsewhere
        <5> QED
          BY <5>1, <5>2, <5>3
      <4>3. \A r \in Row : ~rows[r].late /\ place'[r] # OUT /\ r \notin dead' => place[r] # OUT /\ r \notin dead
        BY DEF Elsewhere
      <4>4. \A r \in Live' : ~rows[r].late => r \in Live
        BY <1>2, <4>1, <4>2, <4>3
      <4> QED
        BY <1>1, <1>2, <4>4 DEF Counted, Found
    <3>2. IsFiniteSet(Counted) /\ Cardinality(Counted) \in Nat /\ Cardinality(Counted) <= m
      <4>1. IsFiniteSet(Found) /\ Counted \in SUBSET Found
        BY FoundFacts DEF Counted
      <4> QED
        BY <1>7, <2>3, <4>1, FS_Subset, FS_CardinalityType DEF HitsInv
    <3>3. IsFiniteSet(Counted') /\ Cardinality(Counted') <= Cardinality(Counted)
      BY <3>1, <3>2, FS_Subset
    <3>4. Cardinality(Counted') \in Nat
      BY <3>3, FS_CardinalityType
    <3> HIDE DEF m
    <3> QED
      BY <2>1, <3>2, <3>3, <3>4
  <2> QED
    BY <1>1, <2>1, <2>2, <2>3 DEF HitsInv
<1>8. ASSUME GateInv(s) PROVE GateInv(s)'
  <2>1. Recheck(s)' <=> Recheck(s)
    BY <1>1 DEF Recheck
  <2> QED
    BY <1>1, <1>2, <1>8, <2>1 DEF GateInv, Gated
<1>9. ASSUME PadInv(s) PROVE PadInv(s)'
  <2>1. \A i : PadRow(s, i)' = PadRow(s, i)
    BY <1>1 DEF PadRow, padRoots, HotBase
  <2>2. ToGo(s)' = ToGo(s) /\ Given' = Given
    BY <1>1, <2>1 DEF ToGo, Given
  <2> QED
    BY <1>1, <1>2, <1>9, <2>1, <2>2 DEF PadInv
<1> QED
  BY <1>4, <1>6, <1>7, <1>8, <1>9

\* Inserts, flushes, merges and vacuums keep the invariant.
LEMMA MoveStep ==
    ASSUME IInv, OtherSession
    PROVE  IInv'
<1>1. World /\ ScanType /\ PhaseInv /\ RankOrdered
  BY DEF IInv
<1>2. Elsewhere
  BY <1>1, MoveFacts
<1>3. rows' = rows /\ want' = want /\ so' = so /\ out' = out /\ so.phase \notin {"start", "done", "error"}
  BY <1>2 DEF Elsewhere
<1>4. /\ World' /\ Row' = Row /\ ScanRecord' = ScanRecord /\ Due' = Due /\ Ranked' = Ranked
      /\ \A r : (Where(r)' <=> Where(r)) /\ (WithoutList(r)' <=> WithoutList(r))
      /\ \A r \in Row : rows[r].vis => TrueDist(r)' = TrueDist(r)
  BY <1>1, <1>2, ElsewhereFacts
<1>5. so \in ScanRecord
  BY <1>1 DEF ScanType
<1>6. ScanType'
  BY <1>1, <1>3, <1>4 DEF ScanType
<1>7. RankOrdered'
  <2>1. \A i \in DOMAIN out : out[i].row \in Row /\ rows[out[i].row].vis
    BY <1>1 DEF RankOrdered, Due
  <2> QED
    BY <1>1, <1>3, <1>4, <2>1 DEF RankOrdered, Overlooked
<1>8. RankComplete'
  BY <1>3 DEF RankComplete
<1>9. PhaseInv'
  <2>1. GivenInv => GivenInv'
    <3>1. \A i \in DOMAIN out : out[i].row \in Row /\ rows[out[i].row].vis
      BY <1>1 DEF RankOrdered, Due
    <3> QED
      BY <1>3, <1>4, <3>1 DEF GivenInv, Given
  <2>2. FuseInv => FuseInv'
    BY <1>3 DEF FuseInv
  <2>3. /\ PassInv(so) => PassInv(so)'
        /\ LadderInv(so) => LadderInv(so)'
        /\ HitsInv(so) => HitsInv(so)'
        /\ GateInv(so) => GateInv(so)'
        /\ PadInv(so) => PadInv(so)'
    <3>1. PICK t \in ScanRecord : t = so
      BY <1>5
    <3>2. /\ PassInv(t) => PassInv(t)'
          /\ LadderInv(t) => LadderInv(t)'
          /\ HitsInv(t) => HitsInv(t)'
          /\ GateInv(t) => GateInv(t)'
          /\ PadInv(t) => PadInv(t)'
      BY <1>1, <1>2, ElsewhereScan
    <3>3. t = so' /\ t = so
      BY <1>3, <3>1
    <3> QED
      BY <3>2, <3>3
  <2> QED
    BY <1>1, <1>3, <2>1, <2>2, <2>3 DEF PhaseInv
<1> QED
  BY <1>4, <1>6, <1>7, <1>8, <1>9 DEF IInv

-----------------------------------------------------------------------------
(* The theorems *)

\* A scan may start in any of the states it is given.
LEMMA StartInv == Init => IInv
<1> SUFFICES ASSUME Init PROVE IInv
  OBVIOUS
<1>1. PICK start \in Starts : rows = start.rows /\ place = start.place /\ want = start.want
  BY DEF Init
<1>2. dead = {} /\ so = FreshScan /\ out = <<>>
  BY DEF Init
<1>3. /\ start.rows \in Seq(RowType) /\ start.place \in [DOMAIN start.rows -> Nat \cup {OUT}]
      /\ Lists(start.place, start.rows, start.want.v12)
      /\ KeysFit(start.want)
      /\ \A w \in start.want.again : KeysFit(Rescanned(start.want, w))
  BY RankStarts
<1>4. World
  BY <1>1, <1>2, <1>3 DEF World, Row
<1>5. so \in ScanRecord
  BY <1>2, <1>4, FreshType
<1>6. ScanType
  BY <1>2, <1>5 DEF ScanType, FreshScan
<1>7. PhaseInv /\ RankOrdered /\ RankComplete
  BY <1>2 DEF PhaseInv, FreshScan, RankOrdered, RankComplete
<1> QED
  BY <1>4, <1>6, <1>7 DEF IInv

\* A step that changes nothing.
LEMMA StutterInv ==
    ASSUME IInv, UNCHANGED vars
    PROVE  IInv'
<1>1. Same /\ so' = so /\ out' = out /\ World /\ ScanType /\ PhaseInv /\ RankOrdered /\ RankComplete
  BY DEF vars, indexVars, Same, IInv
<1>2. /\ World' /\ Row' = Row /\ ScanRecord' = ScanRecord /\ Due' = Due
      /\ \A r : (Where(r)' <=> Where(r)) /\ TrueDist(r)' = TrueDist(r)
      /\ want' = want
  BY <1>1, SameFacts DEF Same
<1>3. ScanType' /\ RankOrdered'
  <2>1. ShortKept
    BY <1>1 DEF ShortKept
  <2> QED
    BY <1>1, <1>2, <2>1, OutSame DEF ScanType
<1>4. RankComplete'
  <2>1. weave_pad_wanted' <=> weave_pad_wanted
    BY <1>2 DEF weave_pad_wanted, ordSameQuery, ordQueryRestricts
  <2> QED
    BY <1>1, <1>2, <2>1 DEF RankComplete
<1>5. PhaseInv'
  <2>1. (GivenInv => GivenInv') /\ (FuseInv => FuseInv')
    BY <1>1, <1>2 DEF GivenInv, FuseInv, Given
  <2>2. PICK t : t = so
    OBVIOUS
  <2>3. /\ PassInv(t)' <=> PassInv(t)
        /\ LadderInv(t)' <=> LadderInv(t)
        /\ HitsInv(t)' <=> HitsInv(t)
        /\ GateInv(t)' <=> GateInv(t)
        /\ PadInv(t)' <=> PadInv(t)
    BY <1>1, SameFacts, PadSame
  <2>4. t = so' /\ t = so
    BY <1>1, <2>2
  <2>5. /\ PassInv(so)' <=> PassInv(so)
        /\ LadderInv(so)' <=> LadderInv(so)
        /\ HitsInv(so)' <=> HitsInv(so)
        /\ GateInv(so)' <=> GateInv(so)
        /\ PadInv(so)' <=> PadInv(so)
    BY <2>3, <2>4
  <2> QED
    BY <1>1, <1>2, <2>1, <2>5 DEF PhaseInv
<1> QED
  BY <1>2, <1>3, <1>4, <1>5 DEF IInv

\* The ladder, the gate and the padding of an ordered scan are at every moment such as the
\* order and the completeness of what it hands out need: weave_gettuple(), weave_ord_probe(),
\* weave_ord_grow(), weave_pad_begin(), weave_pad_gettuple(), weave_topk_visible() and
\* weave_fuse_search(), among the inserts, flushes, merges and vacuums of other sessions.
THEOREM RankInvariance == Spec => []IInv
<1>1. IInv /\ [Next]_vars => IInv'
  <2> SUFFICES ASSUME IInv, [Next]_vars PROVE IInv'
    OBVIOUS
  <2>1. CASE OrderInit
    BY <2>1, OrderInitStep
  <2>2. CASE weave_ord_probe
    BY <2>2, ProbeStep
  <2>3. CASE weave_gettuple
    BY <2>3, GettupleStep
  <2>4. CASE Grow
    BY <2>4, GrowStep
  <2>5. CASE GrowError
    BY <2>5, GrowErrorStep
  <2>6. CASE PadBegin
    BY <2>6, NoPadStep, PadBeginStep
  <2>7. CASE weave_pad_gettuple
    BY <2>7, PadGettupleStep
  <2>8. CASE PadNulls
    BY <2>8, PadNullsStep
  <2>9. CASE PadEnd
    BY <2>9, PadEndStep
  <2>10. CASE weave_fuse_search
    BY <2>10, FuseSearchStep
  <2>11. CASE weave_topk_visible
    BY <2>11, TopkStep
  <2>12. CASE weave_rescan
    BY <2>12, RescanStep
  <2>13. CASE OtherSession
    BY <2>13, MoveStep
  <2>14. CASE UNCHANGED vars
    BY <2>14, StutterInv
  <2> QED
    BY <2>1, <2>2, <2>3, <2>4, <2>5, <2>6, <2>7, <2>8, <2>9, <2>10, <2>11, <2>12, <2>13, <2>14
       DEF Next, OtherSession
<1> QED
  BY StartInv, <1>1, PTL DEF Spec

\* Whatever keys, heap and index a scan is given, and whatever other sessions insert, flush,
\* merge and vacuum between its passes, weave_gettuple() and weave_search() hand out each row
\* once, due and in order: a ranked row at its own distance, unless the ladder overlooked it --
\* weave_ord_grow() or weave_fuse_grow() ended it at a maxhits below what its last pass could
\* rank, or a fused order was gated by weave_collect_matches() without a document list -- and
\* then with the rows that have no rank.
THEOREM RanksAreOrdered == Spec => []RankOrdered
<1>1. IInv => RankOrdered
  BY DEF IInv
<1> QED
  BY RankInvariance, <1>1, PTL

\* And when such a scan ends, it has handed out every row that is due: the ladder stops only
\* when nothing is left, weave_pad_begin() adds what the ranking left out.  A ladder that maxhits
\* ended short may owe rows where weave_pad_wanted() is false and where weave_fuse_search() counts
\* the ranked ones.
THEOREM RanksAreComplete == Spec => []RankComplete
<1>1. IInv => RankComplete
  BY DEF IInv
<1> QED
  BY RankInvariance, <1>1, PTL

\* What weave_query_maxhits() counts when a lexical or a fused scan starts stays enough for the
\* rows the index had then: of those orders whose channels are counted one by one (all but an AND
\* beside another lexical channel, and two vector channels over more rows without a document than
\* with one), only rows inserted since can end a ladder short.
THEOREM HitsStayBounded == Spec => []HitsBounded
<1>1. IInv => HitsBounded
  <2> SUFFICES ASSUME IInv, so.phase = "ranked", want.kind \in {"lex", "fuse"}, UnionCounted
               PROVE  Cardinality({r \in Found : ~rows[r].late}) <= so.maxhits
    BY DEF HitsBounded
  <2>1. HitsInv(so)
    BY DEF IInv, PhaseInv
  <2> QED
    BY <2>1 DEF HitsInv, Counted
<1> QED
  BY RankInvariance, <1>1, PTL
====
