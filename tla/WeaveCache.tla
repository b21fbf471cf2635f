----------------------------- MODULE WeaveCache -----------------------------
(***************************************************************************)
(* The per-session cache of compiled approximate patterns: a fixed number  *)
(* of slots, least recently used eviction, and pins that keep the handle   *)
(* of a running dictionary walk from being freed.  Walks nest (a query     *)
(* evaluated inside a scan compiles patterns of its own), so a session may *)
(* hold several handles at once.                                           *)
(*                                                                         *)
(* A handle is an address: malloc may hand out the address of a freed one  *)
(* again, and weave_cache_release() finds its slot by address alone.       *)
(***************************************************************************)
EXTENDS Integers, FiniteSets

CONSTANTS
    Slots,       \* 1..WEAVE_CACHE_SLOTS
    Patterns,    \* the patterns that compile
    Handles,     \* addresses of compiled patterns
    NoHandle,    \* NULL
    NoPattern,   \* NULL
    Walks,       \* dictionary walks that hold a pinned handle
    MaxClock     \* bound: lookups in the life of the session

ASSUME SlotAssumption == IsFiniteSet(Slots) /\ Slots \subseteq Nat
ASSUME HandleAssumption == NoHandle \notin Handles
ASSUME WalkAssumption == IsFiniteSet(Walks)
ASSUME ClockAssumption == MaxClock \in Nat

VARIABLES
    compiled,    \* compiled[i]: the handle in slot i, or NoHandle
    pattern,     \* pattern[i]: the pattern slot i was filled for
    last_used,   \* last_used[i]
    pinned,      \* pinned[i]: the slot's pin count
    cache_clock,
    malloced,    \* the handles that are allocated
    regex,       \* regex[h]: the pattern the automaton at h was compiled from
    approx,      \* approx[w]: the handle walk w holds, or NoHandle
    re           \* re[w]: the pattern walk w asked for

slotVars == <<compiled, pattern, last_used, pinned>>
vars == <<compiled, pattern, last_used, pinned, cache_clock, malloced, regex, approx, re>>

-----------------------------------------------------------------------------
Init ==
    /\ compiled = [i \in Slots |-> NoHandle]
    /\ pattern = [i \in Slots |-> NoPattern]
    /\ last_used = [i \in Slots |-> 0]
    /\ pinned = [i \in Slots |-> 0]
    /\ cache_clock = 0
    /\ malloced = {}
    /\ regex = [h \in Handles |-> NoPattern]
    /\ approx = [w \in Walks |-> NoHandle]
    /\ re = [w \in Walks |-> NoPattern]

\* The slots that hold pattern p.
Cached(p) == {i \in Slots : compiled[i] # NoHandle /\ pattern[i] = p}

Empty == {i \in Slots : compiled[i] = NoHandle}

\* A faulty variant of the next definition: pinned slots are evicted too.
Evictable_pinned == Slots

Evictable == {i \in Slots : pinned[i] = 0}

\* Where a new entry goes: the first empty slot, else the least recently used one
\* that no walk pins.  Empty if every slot is pinned.
Target ==
    IF Empty # {}
    THEN {i \in Empty : \A j \in Empty : i <= j}
    ELSE {i \in Evictable : \A j \in Evictable : last_used[i] <= last_used[j]}

Tick == cache_clock < MaxClock /\ cache_clock' = cache_clock + 1

\* A faulty variant of the next definition: a second walk does not add its pin.
Hit_once(p, pin, i) ==
    /\ Tick
    /\ i \in Cached(p)
    /\ last_used' = [last_used EXCEPT ![i] = cache_clock']
    /\ pinned' = [pinned EXCEPT ![i] = IF @ > pin THEN @ ELSE pin]
    /\ UNCHANGED <<compiled, pattern, malloced, regex>>

\* The pattern is in the cache; pin is 0 or 1.
Hit(p, pin, i) ==
    /\ Tick
    /\ i \in Cached(p)
    /\ last_used' = [last_used EXCEPT ![i] = cache_clock']
    /\ pinned' = [pinned EXCEPT ![i] = @ + pin]
    /\ UNCHANGED <<compiled, pattern, malloced, regex>>

\* It is compiled into the free address h, and stored in slot i: evict_slot() frees
\* the handle that was there.
Store(p, pin, h, i) ==
    /\ Tick
    /\ Cached(p) = {}
    /\ h \in Handles \ malloced
    /\ i \in Target
    /\ malloced' = (malloced \ {compiled[i]}) \cup {h}
    /\ regex' = [regex EXCEPT ![h] = p]
    /\ compiled' = [compiled EXCEPT ![i] = h]
    /\ pattern' = [pattern EXCEPT ![i] = p]
    /\ last_used' = [last_used EXCEPT ![i] = cache_clock']
    /\ pinned' = [pinned EXCEPT ![i] = pin]

\* The copy of the pattern cannot be allocated, after evict_slot(): the lookup fails,
\* the slot stays empty and the new handle is lost.
StoreFails(p, h, i) ==
    /\ Cached(p) = {}
    /\ h \in Handles \ malloced
    /\ i \in Target
    /\ malloced' = (malloced \ {compiled[i]}) \cup {h}
    /\ regex' = [regex EXCEPT ![h] = p]
    /\ compiled' = [compiled EXCEPT ![i] = NoHandle]
    /\ pattern' = [pattern EXCEPT ![i] = NoPattern]
    /\ last_used' = [last_used EXCEPT ![i] = 0]
    /\ pinned' = [pinned EXCEPT ![i] = 0]
    /\ UNCHANGED cache_clock

\* Every slot is pinned: the handle is returned uncached.
Uncached(p, h) ==
    /\ Cached(p) = {}
    /\ h \in Handles \ malloced
    /\ Target = {}
    /\ malloced' = malloced \cup {h}
    /\ regex' = [regex EXCEPT ![h] = p]
    /\ UNCHANGED <<slotVars, cache_clock>>

-----------------------------------------------------------------------------
Hold(w, p, h) ==
    /\ approx' = [approx EXCEPT ![w] = h]
    /\ re' = [re EXCEPT ![w] = p]

\* The handle h for p, pinned.
Pinned(p, h) ==
    \/ \E i \in Slots : Hit(p, 1, i) /\ h = compiled[i]
    \/ \E i \in Slots : Store(p, 1, h, i)
    \/ Uncached(p, h)

\* A walk's pinned lookup.
weave_cache_lookup_pinned(w, p, h) ==
    /\ approx[w] = NoHandle
    /\ Pinned(p, h)
    /\ Hold(w, p, h)

\* weave_regex_terms() allocates the term buffer after the lookup and before PG_TRY:
\* without memory for it the walk ends and nobody releases the handle.
weave_regex_terms_no_memory(p, h) ==
    /\ Pinned(p, h)
    /\ UNCHANGED <<approx, re>>

\* Either lookup, out of memory; any other failure comes before the cache is changed.
weave_cache_lookup_failed(p) ==
    /\ \E h \in Handles, i \in Slots : StoreFails(p, h, i)
    /\ UNCHANGED <<approx, re>>

\* A lookup by weave_doc_has_regex(), which uses the handle before anyone can call
\* the cache again and keeps no pin.
weave_cache_lookup(p) ==
    /\ \/ \E i \in Slots : Hit(p, 0, i)
       \/ \E h \in Handles : \/ \E i \in Slots : Store(p, 0, h, i)
                             \/ Uncached(p, h)
    /\ UNCHANGED <<approx, re>>

\* The end of the walk, normal or by an error: PG_FINALLY.  A handle found in no
\* slot is freed.
weave_cache_release(w) ==
    /\ approx[w] # NoHandle
    /\ IF \E i \in Slots : compiled[i] = approx[w]
       THEN /\ pinned' = [i \in Slots |-> IF compiled[i] = approx[w] /\ pinned[i] > 0
                                          THEN pinned[i] - 1 ELSE pinned[i]]
            /\ UNCHANGED malloced
       ELSE /\ malloced' = malloced \ {approx[w]}
            /\ UNCHANGED pinned
    /\ approx' = [approx EXCEPT ![w] = NoHandle]
    /\ UNCHANGED <<compiled, pattern, last_used, cache_clock, regex, re>>

Next ==
    \/ \E w \in Walks, p \in Patterns, h \in Handles : weave_cache_lookup_pinned(w, p, h)
    \/ \E p \in Patterns, h \in Handles : weave_regex_terms_no_memory(p, h)
    \/ \E p \in Patterns : weave_cache_lookup(p) \/ weave_cache_lookup_failed(p)
    \/ \E w \in Walks : weave_cache_release(w)

Spec == Init /\ [][Next]_vars

-----------------------------------------------------------------------------
(* Properties *)

\* The type invariant.
TypeOK ==
    /\ compiled \in [Slots -> Handles \cup {NoHandle}]
    /\ pattern \in [Slots -> Patterns \cup {NoPattern}]
    /\ last_used \in [Slots -> Nat]
    /\ pinned \in [Slots -> Nat]
    /\ cache_clock \in Nat
    /\ malloced \subseteq Handles
    /\ regex \in [Handles -> Patterns \cup {NoPattern}]
    /\ approx \in [Walks -> Handles \cup {NoHandle}]
    /\ re \in [Walks -> Patterns \cup {NoPattern}]

\* The handle a walk holds stays allocated, and stays the automaton of the pattern
\* the walk asked for, whatever nested lookups evict, free and compile at addresses
\* that were free.
HandleValid ==
    \A w \in Walks : approx[w] # NoHandle =>
        approx[w] \in malloced /\ regex[approx[w]] = re[w]

\* The walks that hold h.
Holders(h) == {w \in Walks : approx[w] = h}

\* A slot is pinned at least as often as walks hold its handle: the end of one walk
\* never unpins the slot under another.
PinsHeld ==
    \A i \in Slots : compiled[i] # NoHandle => pinned[i] >= Cardinality(Holders(compiled[i]))

\* Every automaton of the cache is allocated and of its pattern, and no two slots hold
\* the same handle or the same pattern.
SlotsValid ==
    /\ \A i \in Slots : compiled[i] # NoHandle =>
         compiled[i] \in malloced /\ regex[compiled[i]] = pattern[i]
    /\ \A i, j \in Slots : i # j /\ compiled[i] # NoHandle /\ compiled[j] # NoHandle =>
         compiled[i] # compiled[j] /\ pattern[i] # pattern[j]

=============================================================================
