------------------------ MODULE WeaveDirectoryProofs ------------------------
(***************************************************************************)
(* What WeaveDirectory computes, for every directory, with the lemmas      *)
(* about counting that the other proofs share.                             *)
(***************************************************************************)
EXTENDS WeaveDirectory, FiniteSetTheorems, TLAPS

-----------------------------------------------------------------------------
(* Counting *)

\* A function on 1..k is a sequence of length k.
LEMMA FunctionIsSeq ==
    ASSUME NEW T, NEW k \in Nat, NEW f \in [1..k -> T]
    PROVE  f \in Seq(T) /\ Len(f) = k
OBVIOUS

\* Integers between m and n, counted.
LEMMA IntervalPart ==
    ASSUME NEW m \in Int, NEW n \in Int, m <= n + 1, NEW T,
           \A x \in T : x \in Int /\ m <= x /\ x <= n
    PROVE  IsFiniteSet(T) /\ Cardinality(T) \in Nat /\ Cardinality(T) <= n - m + 1
<1>1. IsFiniteSet(m..n) /\ Cardinality(m..n) = n - m + 1
  <2>1. IsFiniteSet(m..n) /\ Cardinality(m..n) = IF m > n THEN 0 ELSE n - m + 1
    BY FS_Interval
  <2> QED
    BY <2>1
<1>2. T \in SUBSET (m..n)
  OBVIOUS
<1>3. IsFiniteSet(T) /\ Cardinality(T) <= Cardinality(m..n)
  BY <1>1, <1>2, FS_Subset
<1>4. Cardinality(T) \in Nat
  BY <1>3, FS_CardinalityType
<1> QED
  BY <1>1, <1>3, <1>4

\* A finite set is as large as a part of it and the rest.
LEMMA SplitCardinality ==
    ASSUME NEW A, IsFiniteSet(A), NEW B \in SUBSET A
    PROVE  /\ IsFiniteSet(B) /\ IsFiniteSet(A \ B)
           /\ Cardinality(A) \in Nat /\ Cardinality(B) \in Nat /\ Cardinality(A \ B) \in Nat
           /\ Cardinality(A) = Cardinality(B) + Cardinality(A \ B)
<1>1. IsFiniteSet(B)
  BY FS_Subset
<1>2. A \cap B = B
  OBVIOUS
<1>3. IsFiniteSet(A \ B) /\ Cardinality(A \ B) = Cardinality(A) - Cardinality(B)
  BY <1>2, FS_Difference
<1>4. Cardinality(A) \in Nat /\ Cardinality(B) \in Nat /\ Cardinality(A \ B) \in Nat
  BY <1>1, <1>3, FS_CardinalityType
<1> QED
  BY <1>1, <1>3, <1>4

\* KeptPos renumbers the positions that stay, without gaps.
LEMMA KeptBijection ==
    ASSUME NEW n \in Nat, NEW S \in SUBSET (1..n)
    PROVE  /\ Cardinality(S) \in 0..n
           /\ \A i \in (1..n) \ S : KeptPos(S, i) \in 1..(n - Cardinality(S))
           /\ \A i, j \in (1..n) \ S : KeptPos(S, i) = KeptPos(S, j) => i = j
           /\ \A k \in 1..(n - Cardinality(S)) : \E i \in (1..n) \ S : KeptPos(S, i) = k
<1> DEFINE K == (1..n) \ S
           Below(i) == {j \in S : j < i}
           m == n - Cardinality(S)
<1>1. IsFiniteSet(S) /\ Cardinality(S) \in Nat /\ Cardinality(S) <= n
  <2>1. \A x \in S : x \in Int /\ 1 <= x /\ x <= n
    OBVIOUS
  <2>2. IsFiniteSet(S) /\ Cardinality(S) \in Nat /\ Cardinality(S) <= n - 1 + 1
    <3>1. 1 \in Int /\ n \in Int /\ 1 <= n + 1
      OBVIOUS
    <3> QED
      BY <2>1, <3>1, IntervalPart
  <2> QED
    BY <2>2
<1>2. ASSUME NEW i \in K PROVE KeptPos(S, i) \in 1..m
  <2>1. i \in Int /\ 1 <= i /\ i <= n /\ i \notin S
    OBVIOUS
  <2>2. Cardinality(Below(i)) \in Nat /\ Cardinality(Below(i)) <= (i - 1) - 1 + 1
    <3>1. \A x \in Below(i) : x \in Int /\ 1 <= x /\ x <= i - 1
      BY <2>1
    <3>2. 1 \in Int /\ i - 1 \in Int /\ 1 <= (i - 1) + 1
      BY <2>1
    <3> HIDE DEF Below
    <3> QED
      BY <3>1, <3>2, IntervalPart
  <2>3. Cardinality(S \ Below(i)) \in Nat /\ Cardinality(S \ Below(i)) <= n - (i + 1) + 1
    <3>1. \A x \in S \ Below(i) : x \in Int /\ i + 1 <= x /\ x <= n
      BY <2>1
    <3>2. i + 1 \in Int /\ n \in Int /\ i + 1 <= n + 1
      BY <2>1
    <3> HIDE DEF Below
    <3> QED
      BY <3>1, <3>2, IntervalPart
  <2>4. Cardinality(S) = Cardinality(Below(i)) + Cardinality(S \ Below(i))
    BY <1>1, SplitCardinality
  <2>5. KeptPos(S, i) = i - Cardinality(Below(i))
    BY DEF KeptPos
  <2> HIDE DEF Below
  <2> QED
    BY <1>1, <2>1, <2>2, <2>3, <2>4, <2>5
<1>3. ASSUME NEW i \in K, NEW j \in K, i < j PROVE KeptPos(S, i) # KeptPos(S, j)
  <2>1. /\ i \in Int /\ j \in Int /\ i \notin S
        /\ KeptPos(S, i) = i - Cardinality(Below(i))
        /\ KeptPos(S, j) = j - Cardinality(Below(j))
    BY DEF KeptPos
  <2>2. /\ Cardinality(Below(j) \ Below(i)) \in Nat
        /\ Cardinality(Below(j) \ Below(i)) <= (j - 1) - (i + 1) + 1
    <3>1. \A x \in Below(j) \ Below(i) : x \in Int /\ i + 1 <= x /\ x <= j - 1
      BY <2>1
    <3> HIDE DEF Below
    <3> QED
      BY <1>3, <2>1, <3>1, IntervalPart
  <2>3. Below(j) \in SUBSET S
    OBVIOUS
  <2>4. Below(i) \in SUBSET Below(j)
    <3>1. \A x \in S : x \in Int
      OBVIOUS
    <3>2. \A x \in S : x < i => x < j
      BY <1>3, <2>1, <3>1
    <3> QED
      BY <3>2, Zenon
  <2> HIDE DEF Below
  <2>5. IsFiniteSet(Below(j))
    BY <1>1, <2>3, FS_Subset
  <2>6. /\ Cardinality(Below(j)) = Cardinality(Below(i)) + Cardinality(Below(j) \ Below(i))
        /\ Cardinality(Below(j)) \in Nat /\ Cardinality(Below(i)) \in Nat
    BY <2>4, <2>5, SplitCardinality
  <2> QED
    BY <2>1, <2>2, <2>6
<1>4. ASSUME NEW i \in K, NEW j \in K, KeptPos(S, i) = KeptPos(S, j) PROVE i = j
  BY <1>3, <1>4
<1>5. \A k \in 1..m : \E i \in K : KeptPos(S, i) = k
  <2> DEFINE f == [i \in K |-> KeptPos(S, i)]
  <2>1. f \in Injection(K, 1..m)
    BY <1>2, <1>4 DEF Injection, IsInjective
  <2>2. Cardinality(K) = m
    <3>1. IsFiniteSet(1..n) /\ Cardinality(1..n) = IF 1 > n THEN 0 ELSE n - 1 + 1
      BY FS_Interval
    <3>2. Cardinality(1..n) = n
      BY <3>1
    <3>3. Cardinality(1..n) = Cardinality(S) + Cardinality((1..n) \ S)
          /\ Cardinality((1..n) \ S) \in Nat
      BY <3>1, SplitCardinality
    <3> QED
      BY <1>1, <3>2, <3>3
  <2>3. IsFiniteSet(1..m) /\ Cardinality(1..m) = m
    <3>1. m \in Nat
      BY <1>1
    <3> HIDE DEF m
    <3>2. IsFiniteSet(1..m) /\ Cardinality(1..m) = IF 1 > m THEN 0 ELSE m - 1 + 1
      BY <3>1, FS_Interval
    <3> QED
      BY <3>1, <3>2
  <2>4. f \in Surjection(K, 1..m)
    BY <2>1, <2>2, <2>3, FS_Injection
  <2> QED
    BY <2>4 DEF Surjection
<1> QED
  BY <1>1, <1>2, <1>4, <1>5

-----------------------------------------------------------------------------
(* The rewritten directory *)

\* Where the bolt now at position k of a rewritten directory d was before.
OldPos(d, S, k) == CHOOSE i \in (DOMAIN d) \ S : KeptPos(S, i) = k

\* How many stay.
KeptLen(d, S) == Len(d) - Cardinality(S)

\* r is the directory d rewritten: what stays, each once and in a new position, then new.
Rewrites(d, S, new, r, T) ==
    /\ r \in Seq(T) /\ KeptLen(d, S) \in Nat /\ Len(new) \in Nat
    /\ Len(r) = KeptLen(d, S) + Len(new)
    /\ \A k \in 1..KeptLen(d, S) :
         k \in DOMAIN r /\ OldPos(d, S, k) \in (DOMAIN d) \ S /\ r[k] = d[OldPos(d, S, k)]
    /\ \A k, l \in 1..KeptLen(d, S) : OldPos(d, S, k) = OldPos(d, S, l) => k = l
    /\ \A i \in (DOMAIN d) \ S : \E k \in 1..KeptLen(d, S) : OldPos(d, S, k) = i
    /\ \A k \in DOMAIN new :
         KeptLen(d, S) + k \in DOMAIN r /\ r[KeptLen(d, S) + k] = new[k]
    /\ \A k \in DOMAIN r : k \in 1..KeptLen(d, S) \/ (k - KeptLen(d, S)) \in DOMAIN new

\* What the directory rewrite of a merge computes, for a directory of any length.
THEOREM RewrittenFacts ==
    ASSUME NEW T, NEW d \in Seq(T), NEW S \in SUBSET DOMAIN d, NEW new \in Seq(T)
    PROVE  Rewrites(d, S, new, Rewritten(d, S, new), T)
<1> DEFINE n == Len(d)
           m == n - Cardinality(S)
           a == Len(new)
           K == (1..n) \ S
           r == Rewritten(d, S, new)
<1>1. n \in Nat /\ DOMAIN d = 1..n /\ a \in Nat /\ DOMAIN new = 1..a
  OBVIOUS
<1>2. /\ m \in 0..n
      /\ \A i \in K : KeptPos(S, i) \in 1..m
      /\ \A i, j \in K : KeptPos(S, i) = KeptPos(S, j) => i = j
      /\ \A k \in 1..m : \E i \in K : KeptPos(S, i) = k
  <2>1. S \in SUBSET (1..n)
    BY <1>1
  <2> HIDE DEF n
  <2> QED
    BY <1>1, <2>1, KeptBijection
<1>3. ASSUME NEW k \in 1..m PROVE OldPos(d, S, k) \in K /\ KeptPos(S, OldPos(d, S, k)) = k
  BY <1>1, <1>2 DEF OldPos
<1>4. ASSUME NEW i \in K PROVE KeptPos(S, i) \in 1..m /\ OldPos(d, S, KeptPos(S, i)) = i
  BY <1>2, <1>3
<1>5. r = [k \in 1..(m + a) |-> IF k > m THEN new[k - m] ELSE d[OldPos(d, S, k)]]
  BY DEF Rewritten, OldPos
<1> HIDE DEF r
<1>6. m \in Nat
  BY <1>1, <1>2
<1>7. m = KeptLen(d, S)
  BY DEF KeptLen
<1> HIDE DEF m, n, a
<1>8. ASSUME NEW k \in 1..m PROVE r[k] = d[OldPos(d, S, k)] /\ r[k] \in T /\ k \in 1..(m + a)
  <2>1. k \in 1..(m + a) /\ ~(k > m)
    BY <1>1, <1>6
  <2>2. OldPos(d, S, k) \in DOMAIN d
    BY <1>1, <1>3
  <2> QED
    BY <1>5, <2>1, <2>2
<1>9. ASSUME NEW k \in 1..a PROVE m + k \in 1..(m + a) /\ r[m + k] = new[k]
  <2>1. m + k \in 1..(m + a) /\ m + k > m /\ (m + k) - m = k
    BY <1>1, <1>6
  <2> QED
    BY <1>5, <2>1
<1>10. ASSUME NEW k \in 1..(m + a) PROVE k \in 1..m \/ (k - m \in 1..a /\ k = m + (k - m))
  BY <1>1, <1>6
<1>11. \A k \in 1..(m + a) : r[k] \in T
  BY <1>1, <1>8, <1>9, <1>10
<1>12. r \in Seq(T) /\ Len(r) = m + a
  <2>1. m + a \in Nat
    BY <1>1, <1>6
  <2>2. r \in [1..(m + a) -> T]
    BY <1>5, <1>11
  <2> QED
    BY <2>1, <2>2, FunctionIsSeq
<1>13. DOMAIN r = 1..(m + a)
  BY <1>5
<1>14. (DOMAIN d) \ S = K
  BY <1>1
<1>15. \A k, l \in 1..m : OldPos(d, S, k) = OldPos(d, S, l) => k = l
  BY <1>3
<1>16. \A i \in K : \E k \in 1..m : OldPos(d, S, k) = i
  BY <1>4
<1>17. a = Len(new)
  BY DEF a
<1> HIDE DEF K
<1>18. Rewrites(d, S, new, r, T)
  BY <1>1, <1>3, <1>6, <1>7, <1>8, <1>9, <1>10, <1>12, <1>13, <1>14, <1>15, <1>16, <1>17
     DEF Rewrites
<1> QED
  BY <1>18 DEF r

=============================================================================
