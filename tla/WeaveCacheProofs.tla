-------------------------- MODULE WeaveCacheProofs --------------------------
(***************************************************************************)
(* Proofs about WeaveCache, for any number of slots, patterns, addresses   *)
(* and nested walks.  The pins alone are not inductive: a handle that is   *)
(* in no slot is freed by its walk, so no other walk may hold it.          *)
(***************************************************************************)
EXTENDS WeaveCache, FiniteSetTheorems, TLAPS

\* Two walks share a handle only while a slot holds it.
SharedInSlot ==
    \A v, w \in Walks : v # w /\ approx[v] = approx[w] /\ approx[w] # NoHandle =>
        \E i \in Slots : compiled[i] = approx[w]

\* The inductive invariant.
IInv == TypeOK /\ HandleValid /\ PinsHeld /\ SlotsValid /\ SharedInSlot

-----------------------------------------------------------------------------
\* The walks that hold a handle are a finite set.
LEMMA HoldersCount ==
    ASSUME NEW h
    PROVE  /\ IsFiniteSet(Holders(h))
           /\ Cardinality(Holders(h)) \in Nat
           /\ Cardinality(Holders(h)) = 0 <=> Holders(h) = {}
<1>1. Holders(h) \subseteq Walks
  BY DEF Holders
<1>2. IsFiniteSet(Holders(h))
  BY <1>1, WalkAssumption, FS_Subset
<1> QED
  BY <1>2, FS_CardinalityType, FS_EmptySet

\* One more walk, or one walk less, changes the count by one.
LEMMA HoldersStep ==
    ASSUME NEW h, NEW w
    PROVE  /\ w \notin Holders(h) =>
                Cardinality(Holders(h) \cup {w}) = Cardinality(Holders(h)) + 1
           /\ w \in Holders(h) =>
                Cardinality(Holders(h) \ {w}) = Cardinality(Holders(h)) - 1
BY HoldersCount, FS_AddElement, FS_RemoveElement

\* The slot a new entry goes to is empty, or nobody holds its handle.
LEMMA TargetUnheld ==
    ASSUME IInv, NEW i \in Target
    PROVE  /\ i \in Slots
           /\ \A w \in Walks : approx[w] # NoHandle => approx[w] # compiled[i]
<1>1. i \in Slots /\ (compiled[i] = NoHandle \/ pinned[i] = 0)
  BY DEF Target, Empty, Evictable
<1>2. CASE compiled[i] = NoHandle
  BY <1>1, <1>2
<1>3. CASE compiled[i] # NoHandle /\ pinned[i] = 0
  <2>1. Cardinality(Holders(compiled[i])) = 0
    BY <1>1, <1>3, HoldersCount DEF IInv, TypeOK, PinsHeld
  <2>2. Holders(compiled[i]) = {}
    BY <2>1, HoldersCount
  <2> QED
    BY <1>1, <2>2 DEF Holders
<1> QED
  BY <1>1, <1>2, <1>3

\* A free address is in no slot and no walk holds it.
LEMMA FreshHandle ==
    ASSUME IInv, NEW h \in Handles \ malloced
    PROVE  /\ h # NoHandle
           /\ \A w \in Walks : approx[w] # h
           /\ \A i \in Slots : compiled[i] # h
BY HandleAssumption DEF IInv, HandleValid, SlotsValid

-----------------------------------------------------------------------------
\* A hit, by a walk that then holds the handle or by nobody.
LEMMA HitHeld ==
    ASSUME IInv, NEW w \in Walks, NEW p \in Patterns, NEW i \in Slots,
           approx[w] = NoHandle, Hit(p, 1, i), Hold(w, p, compiled[i])
    PROVE  IInv'
<1> USE DEF IInv
<1>1. i \in Slots /\ compiled[i] # NoHandle /\ pattern[i] = p
  BY DEF Hit, Cached
<1>2. TypeOK'
  BY <1>1 DEF TypeOK, Hit, Hold, Tick
<1>3. HandleValid'
  BY <1>1 DEF TypeOK, HandleValid, SlotsValid, Hit, Hold
<1>4. PinsHeld'
  <2> SUFFICES ASSUME NEW j \in Slots, compiled'[j] # NoHandle
               PROVE  pinned'[j] >= Cardinality(Holders(compiled[j])')
    BY DEF PinsHeld, Holders, Hit
  <2>1. CASE j = i
    <3>1. Holders(compiled[j])' = Holders(compiled[j]) \cup {w} /\ w \notin Holders(compiled[j])
      BY <1>1, <2>1 DEF Holders, Hit, Hold, TypeOK
    <3>2. Cardinality(Holders(compiled[j])') = Cardinality(Holders(compiled[j])) + 1
      BY <3>1, HoldersStep
    <3> QED
      BY <1>1, <2>1, <3>2, HoldersCount DEF Hit, TypeOK, PinsHeld
  <2>2. CASE j # i
    <3>1. compiled[j] # compiled[i]
      BY <1>1, <2>2 DEF SlotsValid, Hit
    <3>2. Holders(compiled[j])' = Holders(compiled[j])
      BY <3>1 DEF Holders, Hit, Hold, TypeOK
    <3> QED
      BY <2>2, <3>2 DEF Hit, TypeOK, PinsHeld
  <2> QED
    BY <2>1, <2>2
<1>5. SlotsValid'
  BY DEF SlotsValid, Hit
<1>6. SharedInSlot'
  BY <1>1 DEF SharedInSlot, Hit, Hold, TypeOK
<1> QED
  BY <1>2, <1>3, <1>4, <1>5, <1>6

LEMMA HitUnheld ==
    ASSUME IInv, NEW p \in Patterns, NEW pin \in {0, 1}, NEW i \in Slots,
           Hit(p, pin, i), UNCHANGED <<approx, re>>
    PROVE  IInv'
<1> USE DEF IInv
<1>1. TypeOK'
  BY DEF TypeOK, Hit, Tick
<1>2. HandleValid' /\ SlotsValid' /\ SharedInSlot'
  BY DEF HandleValid, SlotsValid, SharedInSlot, Hit
<1>3. PinsHeld'
  <2> SUFFICES ASSUME NEW j \in Slots, compiled'[j] # NoHandle
               PROVE  pinned'[j] >= Cardinality(Holders(compiled[j])')
    BY DEF PinsHeld, Holders, Hit
  <2>1. Holders(compiled[j])' = Holders(compiled[j])
    BY DEF Holders, Hit
  <2> QED
    BY <2>1, HoldersCount DEF Hit, TypeOK, PinsHeld
<1> QED
  BY <1>1, <1>2, <1>3

-----------------------------------------------------------------------------
\* A new entry, held by the walk that asked for it.
LEMMA StoreHeld ==
    ASSUME IInv, NEW w \in Walks, NEW p \in Patterns, NEW h \in Handles, NEW i \in Slots,
           approx[w] = NoHandle, Store(p, 1, h, i), Hold(w, p, h)
    PROVE  IInv'
<1> USE DEF IInv
<1>1. /\ h \in Handles \ malloced
      /\ \A v \in Walks : approx[v] # NoHandle => approx[v] # compiled[i]
      /\ h # NoHandle
      /\ \A v \in Walks : approx[v] # h
      /\ \A j \in Slots : compiled[j] # h
  BY TargetUnheld, FreshHandle DEF Store
<1>2. TypeOK'
  BY <1>1 DEF TypeOK, Store, Hold, Tick
<1>3. HandleValid'
  BY <1>1 DEF TypeOK, HandleValid, Store, Hold
<1>4. PinsHeld'
  <2> SUFFICES ASSUME NEW j \in Slots, compiled'[j] # NoHandle
               PROVE  pinned'[j] >= Cardinality(Holders(compiled[j])')
    BY DEF PinsHeld, Holders
  <2>1. CASE j = i
    <3>1. Holders(compiled[j])' = {w}
      BY <1>1, <2>1 DEF Holders, Store, Hold, TypeOK
    <3>2. Cardinality(Holders(compiled[j])') = 1
      BY <3>1, FS_Singleton
    <3>3. pinned'[j] = 1
      BY <2>1 DEF Store, TypeOK
    <3> QED
      BY <3>2, <3>3
  <2>2. CASE j # i
    <3>1. Holders(compiled[j])' = Holders(compiled[j])
      BY <1>1, <2>2 DEF Holders, Store, Hold, TypeOK
    <3> QED
      BY <2>2, <3>1 DEF Store, TypeOK, PinsHeld
  <2> QED
    BY <2>1, <2>2
<1>5. SlotsValid'
  BY <1>1 DEF SlotsValid, Store, TypeOK, Cached
<1>6. SharedInSlot'
  BY <1>1 DEF SharedInSlot, Store, Hold, TypeOK
<1> QED
  BY <1>2, <1>3, <1>4, <1>5, <1>6

\* A new entry nobody holds.
LEMMA StoreUnheld ==
    ASSUME IInv, NEW p \in Patterns, NEW pin \in {0, 1}, NEW h \in Handles, NEW i \in Slots,
           Store(p, pin, h, i), UNCHANGED <<approx, re>>
    PROVE  IInv'
<1> USE DEF IInv
<1>1. /\ h \in Handles \ malloced
      /\ \A v \in Walks : approx[v] # NoHandle => approx[v] # compiled[i]
      /\ h # NoHandle
      /\ \A v \in Walks : approx[v] # h
      /\ \A j \in Slots : compiled[j] # h
  BY TargetUnheld, FreshHandle DEF Store
<1>2. TypeOK'
  BY <1>1 DEF TypeOK, Store, Tick
<1>3. HandleValid'
  BY <1>1 DEF TypeOK, HandleValid, Store
<1>4. PinsHeld'
  <2> SUFFICES ASSUME NEW j \in Slots, compiled'[j] # NoHandle
               PROVE  pinned'[j] >= Cardinality(Holders(compiled[j])')
    BY DEF PinsHeld, Holders
  <2>1. CASE j = i
    <3>1. Holders(compiled[j])' = {}
      BY <1>1, <2>1 DEF Holders, Store, TypeOK
    <3>2. Cardinality(Holders(compiled[j])') = 0
      BY <3>1, FS_EmptySet
    <3>3. pinned'[j] = pin
      BY <2>1 DEF Store, TypeOK
    <3> QED
      BY <3>2, <3>3
  <2>2. CASE j # i
    <3>1. Holders(compiled[j])' = Holders(compiled[j])
      BY <1>1, <2>2 DEF Holders, Store, TypeOK
    <3> QED
      BY <2>2, <3>1 DEF Store, TypeOK, PinsHeld
  <2> QED
    BY <2>1, <2>2
<1>5. SlotsValid'
  BY <1>1 DEF SlotsValid, Store, TypeOK, Cached
<1>6. SharedInSlot'
  BY <1>1 DEF SharedInSlot, Store, TypeOK
<1> QED
  BY <1>2, <1>3, <1>4, <1>5, <1>6

\* The slot is emptied and the new handle is lost.
LEMMA StoreLost ==
    ASSUME IInv, NEW p \in Patterns, NEW h \in Handles, NEW i \in Slots,
           StoreFails(p, h, i), UNCHANGED <<approx, re>>
    PROVE  IInv'
<1> USE DEF IInv
<1>1. /\ h \in Handles \ malloced
      /\ \A v \in Walks : approx[v] # NoHandle => approx[v] # compiled[i]
      /\ h # NoHandle
      /\ \A v \in Walks : approx[v] # h
      /\ \A j \in Slots : compiled[j] # h
  BY TargetUnheld, FreshHandle DEF StoreFails
<1>2. TypeOK'
  BY <1>1 DEF TypeOK, StoreFails
<1>3. HandleValid'
  BY <1>1 DEF TypeOK, HandleValid, StoreFails
<1>4. PinsHeld'
  <2> SUFFICES ASSUME NEW j \in Slots, compiled'[j] # NoHandle
               PROVE  pinned'[j] >= Cardinality(Holders(compiled[j])')
    BY DEF PinsHeld, Holders
  <2>1. j # i
    BY DEF StoreFails, TypeOK
  <2>2. Holders(compiled[j])' = Holders(compiled[j])
    BY <2>1 DEF Holders, StoreFails, TypeOK
  <2> QED
    BY <2>1, <2>2 DEF StoreFails, TypeOK, PinsHeld
<1>5. SlotsValid'
  BY <1>1 DEF SlotsValid, StoreFails, TypeOK
<1>6. SharedInSlot'
  BY <1>1 DEF SharedInSlot, StoreFails, TypeOK
<1> QED
  BY <1>2, <1>3, <1>4, <1>5, <1>6

-----------------------------------------------------------------------------
\* An uncached handle, held by one walk or lost.
LEMMA UncachedHeld ==
    ASSUME IInv, NEW w \in Walks, NEW p \in Patterns, NEW h \in Handles,
           approx[w] = NoHandle, Uncached(p, h), Hold(w, p, h)
    PROVE  IInv'
<1> USE DEF IInv
<1>1. /\ h \in Handles \ malloced
      /\ h # NoHandle
      /\ \A v \in Walks : approx[v] # h
      /\ \A j \in Slots : compiled[j] # h
  BY FreshHandle DEF Uncached
<1>2. TypeOK'
  BY <1>1 DEF TypeOK, Uncached, Hold, slotVars
<1>3. HandleValid'
  BY <1>1 DEF TypeOK, HandleValid, Uncached, Hold
<1>4. PinsHeld'
  <2> SUFFICES ASSUME NEW j \in Slots, compiled'[j] # NoHandle
               PROVE  pinned'[j] >= Cardinality(Holders(compiled[j])')
    BY DEF PinsHeld, Holders
  <2>1. Holders(compiled[j])' = Holders(compiled[j])
    BY <1>1 DEF Holders, Uncached, Hold, slotVars, TypeOK
  <2> QED
    BY <2>1 DEF Uncached, slotVars, PinsHeld
<1>5. SlotsValid'
  BY <1>1 DEF SlotsValid, Uncached, slotVars, TypeOK
<1>6. SharedInSlot'
  BY <1>1 DEF SharedInSlot, Uncached, Hold, slotVars, TypeOK
<1> QED
  BY <1>2, <1>3, <1>4, <1>5, <1>6

LEMMA UncachedLost ==
    ASSUME IInv, NEW p \in Patterns, NEW h \in Handles,
           Uncached(p, h), UNCHANGED <<approx, re>>
    PROVE  IInv'
<1> USE DEF IInv
<1>1. /\ h \in Handles \ malloced
      /\ \A v \in Walks : approx[v] # h
      /\ \A j \in Slots : compiled[j] # h
  BY FreshHandle DEF Uncached
<1>2. TypeOK'
  BY <1>1 DEF TypeOK, Uncached, slotVars
<1>3. HandleValid'
  BY <1>1 DEF TypeOK, HandleValid, Uncached
<1>4. PinsHeld'
  BY DEF PinsHeld, Holders, Uncached, slotVars
<1>5. SlotsValid'
  BY <1>1 DEF SlotsValid, Uncached, slotVars, TypeOK
<1>6. SharedInSlot'
  BY DEF SharedInSlot, Uncached, slotVars
<1> QED
  BY <1>2, <1>3, <1>4, <1>5, <1>6

-----------------------------------------------------------------------------
\* The end of a walk.
LEMMA Released ==
    ASSUME IInv, NEW w \in Walks, weave_cache_release(w)
    PROVE  IInv'
<1> USE DEF IInv
<1> DEFINE a == approx[w]
<1>1. a # NoHandle /\ a \in malloced /\ a \in Handles
  BY DEF weave_cache_release, HandleValid, TypeOK
<1>2. CASE \E i \in Slots : compiled[i] = a
  <2>1. /\ pinned' = [i \in Slots |-> IF compiled[i] = a /\ pinned[i] > 0
                                      THEN pinned[i] - 1 ELSE pinned[i]]
        /\ approx' = [approx EXCEPT ![w] = NoHandle]
        /\ UNCHANGED <<compiled, pattern, last_used, cache_clock, malloced, regex, re>>
    BY <1>2 DEF weave_cache_release
  <2>2. TypeOK'
    BY <2>1 DEF TypeOK
  <2>3. HandleValid' /\ SlotsValid' /\ SharedInSlot'
    BY <2>1 DEF TypeOK, HandleValid, SlotsValid, SharedInSlot
  <2>4. PinsHeld'
    <3> SUFFICES ASSUME NEW j \in Slots, compiled'[j] # NoHandle
                 PROVE  pinned'[j] >= Cardinality(Holders(compiled[j])')
      BY DEF PinsHeld, Holders
    <3>1. CASE compiled[j] = a
      <4>1. Holders(compiled[j])' = Holders(compiled[j]) \ {w} /\ w \in Holders(compiled[j])
        BY <1>1, <2>1, <3>1 DEF Holders, TypeOK
      <4>2. Cardinality(Holders(compiled[j])') = Cardinality(Holders(compiled[j])) - 1
        BY <4>1, HoldersStep
      <4> QED
        BY <1>1, <2>1, <3>1, <4>1, <4>2, HoldersCount DEF TypeOK, PinsHeld
    <3>2. CASE compiled[j] # a
      <4>1. Holders(compiled[j])' = Holders(compiled[j])
        BY <2>1, <3>2 DEF Holders, TypeOK
      <4> QED
        BY <2>1, <3>2, <4>1 DEF TypeOK, PinsHeld
    <3> QED
      BY <3>1, <3>2
  <2> QED
    BY <2>2, <2>3, <2>4
<1>3. CASE \A i \in Slots : compiled[i] # a
  <2>1. /\ malloced' = malloced \ {a}
        /\ approx' = [approx EXCEPT ![w] = NoHandle]
        /\ UNCHANGED <<compiled, pattern, last_used, pinned, cache_clock, regex, re>>
    BY <1>3 DEF weave_cache_release
  <2>2. \A v \in Walks \ {w} : approx[v] # a
    BY <1>1, <1>3 DEF SharedInSlot
  <2>3. TypeOK'
    BY <2>1 DEF TypeOK
  <2>4. HandleValid'
    BY <2>1, <2>2 DEF TypeOK, HandleValid
  <2>5. PinsHeld'
    <3> SUFFICES ASSUME NEW j \in Slots, compiled'[j] # NoHandle
                 PROVE  pinned'[j] >= Cardinality(Holders(compiled[j])')
      BY DEF PinsHeld, Holders
    <3>1. Holders(compiled[j])' = Holders(compiled[j])
      BY <1>3, <2>1 DEF Holders, TypeOK
    <3> QED
      BY <2>1, <3>1 DEF PinsHeld
  <2>6. SlotsValid'
    BY <1>3, <2>1 DEF SlotsValid
  <2>7. SharedInSlot'
    BY <2>1 DEF SharedInSlot, TypeOK
  <2> QED
    BY <2>3, <2>4, <2>5, <2>6, <2>7
<1> QED
  BY <1>2, <1>3

-----------------------------------------------------------------------------
\* The invariant holds in every state of the cache.
THEOREM CacheInvariance == Spec => []IInv
<1>1. Init => IInv
  BY HandleAssumption DEF Init, IInv, TypeOK, HandleValid, PinsHeld, SlotsValid, SharedInSlot
<1>2. IInv /\ [Next]_vars => IInv'
  <2> SUFFICES ASSUME IInv, [Next]_vars PROVE IInv'
    OBVIOUS
  <2>1. ASSUME NEW w \in Walks, NEW p \in Patterns, NEW h \in Handles,
               weave_cache_lookup_pinned(w, p, h)
        PROVE  IInv'
    BY <2>1, HitHeld, StoreHeld, UncachedHeld DEF weave_cache_lookup_pinned, Pinned
  <2>2. ASSUME NEW p \in Patterns, NEW h \in Handles, weave_regex_terms_no_memory(p, h)
        PROVE  IInv'
    BY <2>2, HitUnheld, StoreUnheld, UncachedLost DEF weave_regex_terms_no_memory, Pinned
  <2>3. ASSUME NEW p \in Patterns, weave_cache_lookup(p)
        PROVE  IInv'
    BY <2>3, HitUnheld, StoreUnheld, UncachedLost DEF weave_cache_lookup
  <2>4. ASSUME NEW p \in Patterns, weave_cache_lookup_failed(p)
        PROVE  IInv'
    BY <2>4, StoreLost DEF weave_cache_lookup_failed
  <2>5. ASSUME NEW w \in Walks, weave_cache_release(w)
        PROVE  IInv'
    BY <2>5, Released
  <2>6. CASE UNCHANGED vars
    BY <2>6 DEF vars, IInv, TypeOK, HandleValid, PinsHeld, SlotsValid, SharedInSlot, Holders
  <2> QED
    BY <2>1, <2>2, <2>3, <2>4, <2>5, <2>6 DEF Next
<1> QED
  BY <1>1, <1>2, PTL DEF Spec

\* Every variable of the cache keeps its type; in particular no pin count of
\* pattern_cache.c goes below zero.
THEOREM CacheTypeCorrect == Spec => []TypeOK
BY CacheInvariance, PTL DEF IInv

\* A walk's handle stays allocated and stays the automaton of its pattern until
\* weave_cache_release(), whatever is evicted, compiled and released meanwhile.
THEOREM HandlesStayValid == Spec => []HandleValid
BY CacheInvariance, PTL DEF IInv

\* No walk's end unpins a slot under another walk.
THEOREM PinsAreHeld == Spec => []PinsHeld
BY CacheInvariance, PTL DEF IInv

=============================================================================
