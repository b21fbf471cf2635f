--------------------------- MODULE WeaveSparsemap ---------------------------
(***************************************************************************)
(* The compressed bitmap that holds tombstones, document filters and gram  *)
(* postings.  A map is small (a header and plain words) or a sequence of   *)
(* chunks in index order; a chunk is sparse (a descriptor of VectorsPer-   *)
(* Chunk vectors, of which only the mixed ones cost a word) or a run (RLE: *)
(* a start, a length, and a capacity up to which it owns the index space). *)
(* An update splits runs, merges chunks, changes a chunk's form or the     *)
(* map's, and may run out of buffer on the way.                            *)
(*                                                                         *)
(* Indices, vectors and chunks are scaled down; buffers are counted in     *)
(* 8-byte words.  A chunk's bits are kept as a set of absolute indices.    *)
(***************************************************************************)
EXTENDS Integers, Sequences, FiniteSets, FiniteSetsExt, SequencesExt

CONSTANTS
    BitsPerVector,     \* SM_BITS_PER_VECTOR, 64; also the bits of a small word
    VectorsPerChunk,   \* SM_FLAGS_PER_INDEX, 32
    SmallMaxWords,     \* SM_SMALL_MAX_WORDS
    RleMax,            \* SM_CHUNK_RLE_MAX_LENGTH and _CAPACITY
    MaxIndex           \* bound: the largest index a caller uses

ASSUME SparsemapAssumption ==
    /\ BitsPerVector \in Nat /\ BitsPerVector > 1
    /\ VectorsPerChunk \in Nat /\ VectorsPerChunk > 1
    /\ SmallMaxWords \in 1..VectorsPerChunk
    /\ RleMax \in Nat /\ MaxIndex \in Nat

Index == 0..MaxIndex

MaxCapacity == BitsPerVector * VectorsPerChunk

SmallMaxBits == SmallMaxWords * BitsPerVector

\* The members of a set of indices in ascending order.
Ascending(S) ==
    [k \in 1..Cardinality(S) |-> CHOOSE x \in S : Cardinality({y \in S : y < x}) = k - 1]

-----------------------------------------------------------------------------
\* Chunks.

Sparse(s, bits) == [start |-> s, rle |-> FALSE, cap |-> MaxCapacity, bits |-> bits]

Rle(s, cap, len) == [start |-> s, rle |-> TRUE, cap |-> cap, bits |-> s..(s + len - 1)]

ChunkEnd(c) == c.start + c.cap

Length(c) == Cardinality(c.bits)

Full(c) == ~c.rle /\ Length(c) = MaxCapacity

Aligned(i) == i - (i % MaxCapacity)

RoundUp(i) == Aligned(i + MaxCapacity - 1)

Vector(s, v) == (s + v * BitsPerVector)..(s + (v + 1) * BitsPerVector - 1)

\* The vectors of s..s+n-1 that are neither empty nor full: each costs a word.
Mixed(s, n, bits) ==
    {v \in 0..(n - 1) : Vector(s, v) \cap bits # {} /\ ~(Vector(s, v) \subseteq bits)}

\* The words a chunk takes: its start, its descriptor, its mixed vectors.
ChunkWords(c) ==
    2 + IF c.rle THEN 0 ELSE Cardinality(Mixed(c.start, VectorsPerChunk, c.bits))

\* The length of the run a chunk consists of, 0 if it is not one.  A sparse chunk
\* counts as a run only from a whole vector on.
RunLength(c) ==
    LET n == Length(c)
    IN  IF c.rle THEN n
        ELSE IF n >= BitsPerVector /\ c.bits = c.start..(c.start + n - 1) THEN n
        ELSE 0

Least(a, b) == IF a < b THEN a ELSE b

Greatest(a, b) == IF a > b THEN a ELSE b

\* The start of chunk i, or no limit.
StartOf(cs, i) == IF i <= Len(cs) THEN cs[i].start ELSE RleMax + MaxIndex

\* The capacity of a run from s, n long: up to the end of its last chunk-sized block,
\* not into the next chunk.
RleCapacityLimit(s, n, next) ==
    Least(Greatest(Least(RoundUp(s + n) - s, next - s), n), RleMax)

\* The chunk that owns index i or the gap before it: the first whose capacity reaches
\* past i, else the last.
ChunkOffset(cs, i) ==
    LET past == {k \in 1..Len(cs) : i < ChunkEnd(cs[k])}
    IN  IF past = {} THEN Len(cs) ELSE Min(past)

Splice(cs, i, n, new) == SubSeq(cs, 1, i - 1) \o new \o SubSeq(cs, i + n, Len(cs))

-----------------------------------------------------------------------------
\* Merging neighbours.

\* A faulty variant of the next definition: the new capacity ignores the next chunk.
CoalesceLeft_wide(cs, i, start, l) ==
    LET left == cs[l]
        len == start + RunLength(cs[i]) - left.start
        cap == Least(RoundUp(left.start + len) - left.start + MaxCapacity, RleMax)
    IN  IF /\ l > 0
           /\ RunLength(left) > 0
           /\ left.start + RunLength(left) = start
        THEN Splice([cs EXCEPT ![l] = Rle(left.start, cap, len)], i, 1, <<>>)
        ELSE cs

\* Chunk i, which the caller says starts at start, becomes part of the run in chunk l
\* before it when that run ends there.
CoalesceLeft(cs, i, start, l) ==
    LET left == cs[l]
        len == start + RunLength(cs[i]) - left.start
        cap == RleCapacityLimit(left.start, len, StartOf(cs, i + 1))
    IN  IF /\ l > 0
           /\ RunLength(left) > 0
           /\ left.start + RunLength(left) = start
           /\ MaxCapacity + RunLength(cs[i]) < RleMax
           /\ len <= cap
        THEN Splice([cs EXCEPT ![l] = Rle(left.start, cap, len)], i, 1, <<>>)
        ELSE cs

\* Chunk i takes in the run that follows it; after an insertion of idx into that run
\* only its part up to idx counts.
CoalesceRight(cs, i, start, idx, is_set_op) ==
    LET right == cs[i + 1]
        run == RunLength(right)
        adj == IF is_set_op /\ idx >= right.start THEN Least(run, idx - right.start + 1)
               ELSE run
        len == right.start + adj - start
        cap == RleCapacityLimit(start, len, StartOf(cs, i + 2))
    IN  IF /\ i < Len(cs)
           /\ cs[i].rle \/ Full(cs[i])
           /\ adj > 0
           /\ start + RunLength(cs[i]) = right.start
           /\ adj + RunLength(cs[i]) < RleMax
           /\ len <= cap
        THEN Splice(cs, i, 2, <<Rle(start, cap, len)>>)
        ELSE cs

\* d is what the merge of chunk i into chunk l made of cs.
CoalesceBoth(cs, d, i, start, l, idx, is_set_op) ==
    IF Len(d) < Len(cs) THEN CoalesceRight(d, l, d[l].start, idx, is_set_op)
    ELSE CoalesceRight(cs, i, start, idx, is_set_op)

\* left_hint is the chunk to merge into, where the caller knows it.
CoalesceChunk(cs, i, start, idx, is_set_op, left_hint) ==
    IF i > Len(cs) \/ RunLength(cs[i]) = 0 THEN cs
    ELSE LET l == IF left_hint \in 1..(i - 1) THEN left_hint ELSE i - 1
         IN  CoalesceBoth(cs, CoalesceLeft(cs, i, start, l), i, start, l, idx, is_set_op)

RECURSIVE CoalesceFrom(_, _)
CoalesceFrom(cs, i) ==
    IF i > Len(cs) THEN cs
    ELSE LET d == CoalesceChunk(cs, i, cs[i].start, 0, FALSE, 0)
         IN  CoalesceFrom(d, IF Len(d) < Len(cs) THEN i ELSE i + 1)

CoalesceMap(cs) == CoalesceFrom(cs, 1)

-----------------------------------------------------------------------------
\* Splitting a run around index idx, which is being cleared or set.

\* What the split leaves of a run outside the pivot: a run when it is longer than a
\* chunk, else a sparse chunk.
Piece(lo, hi, cap) ==
    IF hi < lo THEN <<>>
    ELSE IF hi - lo + 1 > MaxCapacity THEN <<Rle(lo, cap, hi - lo + 1)>>
    ELSE <<Sparse(lo, lo..hi)>>

\* What the run holds of the block at a: the run may end inside it, or before it.
PivotBlock(c, a) == a..Least(c.start + Length(c) - 1, a + MaxCapacity - 1)

Pivot(c, idx, set) ==
    LET block == PivotBlock(c, Aligned(idx))
    IN  Sparse(Aligned(idx), IF set THEN block \cup {idx} ELSE block \ {idx})

\* The run before and after the block at a, and the capacity each keeps.
LeftPiece(c, a) == Piece(c.start, Least(c.start + Length(c), a) - 1, a - c.start)

RightPiece(c, a) ==
    Piece(a + MaxCapacity, c.start + Length(c) - 1, Least(ChunkEnd(c) - (a + MaxCapacity), RleMax))

\* The chunk-sized block that holds idx becomes a sparse chunk of its own.
SeparateRleChunk(c, idx, set) ==
    LeftPiece(c, Aligned(idx)) \o <<Pivot(c, idx, set)>> \o RightPiece(c, Aligned(idx))

-----------------------------------------------------------------------------
\* Maps.

Small(n, bits) == [small |-> TRUE, n |-> n, bits |-> bits, chunks |-> <<>>]

Chunked(cs) == [small |-> FALSE, n |-> 0, bits |-> {}, chunks |-> cs]

EmptyMap == Chunked(<<>>)

RECURSIVE ChunksWords(_)
ChunksWords(cs) == IF cs = <<>> THEN 1 ELSE ChunkWords(Head(cs)) + ChunksWords(Tail(cs))

\* m_data_used.
Used(m) == IF m.small THEN 1 + m.n ELSE ChunksWords(m.chunks)

Members(m) == IF m.small THEN m.bits ELSE UNION {m.chunks[k].bits : k \in DOMAIN m.chunks}

EnoughSpace(cs, need, capacity) == ChunksWords(cs) + need + 1 <= capacity

\* An update's result: what it leaves, and whether it reports success.
Ok(x) == [val |-> x, ok |-> TRUE]

NoSpace(x) == [val |-> x, ok |-> FALSE]

\* What an insertion of idx makes of the run that owns it, or a full chunk it extends:
\* nothing, one longer, or split.
SetInRun(cs, k, idx) ==
    LET c == cs[k]
        off == idx - c.start
        longer == RleCapacityLimit(c.start, off + 1, StartOf(cs, k + 1))
    IN  CASE Full(c) -> <<Rle(c.start, longer, off + 1)>>
          [] off < Length(c) -> <<c>>
          [] off = Length(c) -> <<Rle(c.start, IF off = c.cap THEN longer ELSE c.cap, off + 1)>>
          [] OTHER -> SeparateRleChunk(c, idx, TRUE)

\* An insertion of idx: the chunks that replace the one that owns it, which of them it
\* touched, and the start the caller goes on with.
MapSetChunk(cs, k, idx) ==
    LET c == cs[k]
        off == idx - c.start
        new == Sparse(Aligned(idx), {idx})
        run == IF c.rle THEN off = Length(c) \/ off < c.cap ELSE Full(c) /\ off = MaxCapacity
        touch(chunks, at, start) == [new |-> chunks, at |-> at, start |-> start]
    IN  CASE idx < c.start -> touch(<<new, c>>, 0, c.start)
          [] idx >= c.start /\ run -> touch(SetInRun(cs, k, idx), 0, c.start)
          [] ~run /\ off >= c.cap -> touch(<<c, new>>, 1, new.start)
          [] OTHER -> touch(<<[c EXCEPT !.bits = @ \cup {idx}]>>, 0, c.start)

\* The place of chunk k in the buffer, in words.
Offset(cs, k) == ChunksWords(SubSeq(cs, 1, k - 1)) - 1

\* A caller's cursor: the place and start of the chunk last found, and the place of the
\* chunk before that one.
NoCursor == [off |-> -1, start |-> 0, prev |-> -1]

\* A faulty variant of the next definition: the chunk at the cursor's place is taken for
\* the one the cursor saw.
Resume_unchecked(cs, idx, cur) ==
    {k \in DOMAIN cs : Offset(cs, k) = cur.off /\ idx >= cur.start}

\* The chunk a lookup resumes at: the cursor's, if a chunk with its start is still there.
Resume(cs, idx, cur) ==
    {k \in DOMAIN cs : Offset(cs, k) = cur.off /\ cs[k].start = cur.start /\ idx >= cur.start}

\* __sm_get_chunk_offset() with a cursor: the chunk found, and the place of the one
\* before it as far as the walk knows it.
Seek(cs, idx, cur) ==
    LET from == Resume(cs, idx, cur)
        k0 == IF from = {} THEN 1 ELSE Min(from)
        past == {k \in k0..Len(cs) : idx < ChunkEnd(cs[k])}
        k == IF past = {} THEN Len(cs) ELSE Min(past)
    IN  [k |-> k,
         prev |-> IF k > k0 THEN Offset(cs, k - 1) ELSE IF from = {} THEN -1 ELSE cur.prev]

Seated(cs, s) == [off |-> Offset(cs, s.k), start |-> cs[s.k].start, prev |-> s.prev]

\* The chunk at a place in the buffer, 0 if there is none.
ChunkAt(cs, off) == LET ks == {k \in DOMAIN cs : Offset(cs, k) = off} IN IF ks = {} THEN 0 ELSE Min(ks)

\* Chunk s.k, where the walk ended, is replaced by r.new, and the chunk touched merges with
\* its neighbours.  The cursor is left at that chunk, as it was before the merge.
MapSetFound(cs, idx, capacity, s, r) ==
    LET splits == Len(r.new) > 1
        d == Splice(cs, s.k, 1, r.new)
        hint == IF splits THEN 0 ELSE ChunkAt(cs, s.prev)
    IN  IF splits /\ ChunksWords(d) + 1 > capacity
        THEN NoSpace([cs |-> cs, cur |-> Seated(cs, s)])
        ELSE Ok([cs |-> CoalesceChunk(d, s.k + r.at, r.start, idx, TRUE, hint),
                 cur |-> [off |-> Offset(d, s.k + r.at), start |-> r.start, prev |-> s.prev]])

\* __sm_map_set(): an insertion into a chunked map.
MapSet(cs, idx, capacity, cur) ==
    LET new == Sparse(Aligned(idx), {idx})
        s == Seek(cs, idx, cur)
    IN  IF ~EnoughSpace(cs, 2, capacity) THEN NoSpace([cs |-> cs, cur |-> cur])
        ELSE IF cs = <<>>
        THEN IF ChunksWords(cs) + 3 <= capacity
             THEN Ok([cs |-> <<new>>, cur |-> [off |-> 0, start |-> new.start, prev |-> cur.prev]])
             ELSE NoSpace([cs |-> cs, cur |-> cur])
        ELSE MapSetFound(cs, idx, capacity, s, MapSetChunk(cs, s.k, idx))

\* A deletion of idx from the run that holds it: the chunks that replace it.
UnsetInRun(c, idx) ==
    LET bits == c.bits \ {idx}
    IN  IF bits = {} THEN <<>>
        ELSE IF idx # c.start + Length(c) - 1 THEN SeparateRleChunk(c, idx, FALSE)
        ELSE IF Length(c) - 1 = MaxCapacity THEN <<Sparse(c.start, bits)>>
        ELSE <<[c EXCEPT !.bits = bits]>>

\* __sm_map_unset(): a deletion from a chunked map.  When the last bit of a sparse chunk
\* goes, the chunk is removed, and the merge that follows looks at the chunk that has
\* moved into its place as if it started where the removed one did.
MapUnset(cs, idx, capacity) ==
    LET k == ChunkOffset(cs, idx)
        c == cs[k]
        merged(d) == CoalesceChunk(d, k, c.start, idx, FALSE, 0)
        cleared == c.bits \ {idx}
        run == Splice(cs, k, 1, UnsetInRun(c, idx))
    IN  IF ~EnoughSpace(cs, 2, capacity) THEN NoSpace(cs)
        ELSE IF cs = <<>> \/ idx < c.start \/ idx >= ChunkEnd(c) THEN Ok(cs)
        ELSE IF idx \notin c.bits THEN Ok(merged(cs))
        ELSE IF ~c.rle /\ cleared = {} THEN Ok(merged(Splice(cs, k, 1, <<>>)))
        ELSE IF ~c.rle THEN Ok(merged([cs EXCEPT ![k].bits = cleared]))
        ELSE IF Len(run) = Len(cs) /\ idx = c.start + Length(c) - 1 THEN Ok(merged(run))
        ELSE IF Len(run) >= Len(cs) /\ ChunksWords(run) + 1 > capacity THEN NoSpace(cs)
        ELSE Ok(run)

-----------------------------------------------------------------------------
\* The small form and the way from one form to the other.

RunFromZero(bits) == bits # {} /\ bits = 0..(Cardinality(bits) - 1)

\* The words the chunked form of a small map would take.
SmallChunkWords(n, bits) ==
    3 + IF RunFromZero(bits) THEN 0 ELSE Cardinality(Mixed(0, n, bits))

SmallIsBetter(maxbit, small_words, chunk_words) ==
    maxbit < SmallMaxBits /\ small_words <= chunk_words

\* The words of a small map that holds bits.
SmallWordsFor(bits) == 1 + Max(bits) \div BitsPerVector

\* One index after the other through __sm_map_set(); the first failure is final.
RECURSIVE MapSetAll(_, _, _)
MapSetAll(acc, bits, capacity) ==
    IF bits = {} \/ ~acc.ok THEN acc
    ELSE MapSetAll(MapSet(acc.val.cs, Min(bits), capacity, NoCursor), bits \ {Min(bits)}, capacity)

\* A run from 0 that ends inside a word becomes one RLE chunk; else the bits are added
\* one by one to an empty map, and put back if they do not fit.
Promote(m, capacity) ==
    LET run == Cardinality(m.bits)
        result(r) == IF r.ok THEN Ok(Chunked(r.val.cs)) ELSE NoSpace(m)
    IN  IF RunFromZero(m.bits) /\ run % BitsPerVector # 0 /\ 3 <= capacity
        THEN Ok(Chunked(<<Rle(0, MaxCapacity, run)>>))
        ELSE result(MapSetAll(Ok([cs |-> <<>>, cur |-> NoCursor]), m.bits, capacity))

\* A single chunk at 0 goes back to the small form when that is no larger.
TryDemote(m) ==
    IF m.small \/ Len(m.chunks) # 1 THEN m
    ELSE LET c == m.chunks[1]
         IN  IF c.start # 0 THEN m
             ELSE IF c.bits = {} THEN IF c.rle THEN m ELSE EmptyMap
             ELSE IF Max(c.bits) < SmallMaxBits /\ 1 + SmallWordsFor(c.bits) <= Used(m)
             THEN Small(SmallWordsFor(c.bits), c.bits)
             ELSE m

SmallAdd(m, idx, capacity) ==
    LET n == Greatest(m.n, idx \div BitsPerVector + 1)
    IN  IF n > m.n /\ 1 + n > capacity THEN NoSpace(m)
        ELSE Ok(Small(n, m.bits \cup {idx}))

\* An insertion into the chunked form of a map, p being the attempt to give it that form.
AddChunked(p, idx, capacity, cur, from) ==
    LET added(a, after) ==
            IF ~a.ok THEN [map |-> p.val, ok |-> FALSE, cur |-> a.val.cur]
            ELSE [map |-> after, ok |-> TRUE, cur |-> IF after.small THEN NoCursor ELSE a.val.cur]
        demoted(a) == added(a, TryDemote(Chunked(a.val.cs)))
    IN  IF ~p.ok THEN [map |-> p.val, ok |-> FALSE, cur |-> cur]
        ELSE demoted(MapSet(p.val.chunks, idx, capacity, from))

\* __sm_add_dispatch(): an insertion into a map of either form.  A change of form
\* resets the cursor.
AddDispatch(m, idx, capacity, cur) ==
    LET s == SmallAdd(IF m.small THEN m ELSE Small(0, {}), idx, capacity)
        better == SmallIsBetter(Max(s.val.bits), 1 + s.val.n, SmallChunkWords(s.val.n, s.val.bits))
    IN  IF (m.small \/ m.chunks = <<>>) /\ idx < SmallMaxBits
        THEN IF ~s.ok THEN [map |-> s.val, ok |-> FALSE, cur |-> cur]
             ELSE [map |-> IF better THEN s.val ELSE Promote(s.val, capacity).val,
                   ok |-> TRUE, cur |-> NoCursor]
        ELSE AddChunked(IF m.small THEN Promote(m, capacity) ELSE Ok(m), idx, capacity,
                        cur, IF m.small THEN NoCursor ELSE cur)

\* sm_remove().  A small map drops the words that became zero at its end.
RemoveDispatch(m, idx, capacity) ==
    LET bits == m.bits \ {idx}
        r == MapUnset(m.chunks, idx, capacity)
    IN  IF m.small
        THEN Ok(IF idx >= m.n * BitsPerVector THEN m
                ELSE Small(IF bits = {} THEN 0 ELSE SmallWordsFor(bits), bits))
        ELSE [r EXCEPT !.val = TryDemote(Chunked(@))]

-----------------------------------------------------------------------------
\* Whole-map operations: runs in, chunks out.

\* The maximal runs of a set of indices, as <<lo, hi>> pairs with hi exclusive.
RunsOf(S) ==
    LET lows == {i \in S : i - 1 \notin S}
        high(l) == Min({i \in (l + 1)..(MaxIndex + 1) : i \notin S})
    IN  [k \in 1..Cardinality(lows) |->
            LET l == Ascending(lows)[k] IN <<l, high(l)>>]

\* The runs of one chunk (or of a small map's words), in order.
ChunkRuns(bits) == RunsOf(bits)

\* The run iterator: runs that touch across chunks are joined.
Runs(m) ==
    LET raw == IF m.small THEN ChunkRuns(m.bits)
               ELSE FlattenSeq([k \in DOMAIN m.chunks |-> ChunkRuns(m.chunks[k].bits)])
        join(acc, r) == IF acc # <<>> /\ acc[Len(acc)][2] = r[1]
                        THEN [acc EXCEPT ![Len(acc)] = <<@[1], r[2]>>]
                        ELSE Append(acc, r)
    IN  FoldLeft(join, <<>>, raw)

\* The emitter: the chunks written so far and the block still being collected.
NoPending == [start |-> -1, bits |-> {}]

Emitter == [out |-> <<>>, pend |-> NoPending]

EmitFlush(e) ==
    IF e.pend.bits = {} THEN [e EXCEPT !.pend = NoPending]
    ELSE [out |-> Append(e.out, Sparse(e.pend.start, e.pend.bits)), pend |-> NoPending]

EmitWords(e, start, bits) ==
    IF e.pend.start = start THEN [e EXCEPT !.pend.bits = @ \cup bits]
    ELSE [EmitFlush(e) EXCEPT !.pend = [start |-> start, bits |-> bits]]

\* A run is appended to the last chunk when that is a run, or full, and ends there.
AppendRle(out, start, cap, len) ==
    LET last == out[Len(out)]
        n == start + len - last.start
    IN  IF /\ out # <<>>
           /\ last.rle \/ Full(last)
           /\ last.start + Length(last) = start
           /\ n <= RleMax /\ start + cap - last.start <= RleMax
        THEN [out EXCEPT ![Len(out)] = Rle(last.start, start + cap - last.start, n)]
        ELSE Append(out, Rle(start, cap, len))

\* The whole blocks of a run are one RLE chunk, the rest is collected.
EmitRle(e, start, len) ==
    LET full == Aligned(len)
        f == EmitFlush(e)
        d == IF full > 0 THEN [f EXCEPT !.out = AppendRle(f.out, start, full, full)] ELSE e
    IN  IF len = full THEN d
        ELSE EmitWords(d, start + full, (start + full)..(start + len - 1))

\* A faulty variant of the next definition: the head of the run replaces the block being
\* collected, instead of being added to it.
EmitRun_head(e, lo, hi) ==
    LET body == Least(RoundUp(lo), hi)
        h == IF body > lo
             THEN [EmitFlush(e) EXCEPT !.pend = [start |-> Aligned(lo), bits |-> lo..(body - 1)]]
             ELSE e
    IN  IF body = hi THEN h ELSE EmitRle(h, body, hi - body)

\* The part of a run before the first block boundary is collected, the rest emitted.
EmitRun(e, lo, hi) ==
    LET body == Least(RoundUp(lo), hi)
        h == IF body > lo THEN EmitWords(e, Aligned(lo), lo..(body - 1)) ELSE e
    IN  IF body = hi THEN h ELSE EmitRle(h, body, hi - body)

EmitAll(runs) == EmitFlush(FoldLeft(LAMBDA e, r : EmitRun(e, r[1], r[2]), Emitter, runs)).out

\* The pieces two lists of runs cut each other into, of those the test keeps.
Pieces(a, b, Keep(_, _)) ==
    LET ends == {a[k][j] : k \in DOMAIN a, j \in 1..2} \cup {b[k][j] : k \in DOMAIN b, j \in 1..2}
        cut == Ascending(ends)
        In(runs, i) == \E k \in DOMAIN runs : runs[k][1] <= i /\ i < runs[k][2]
    IN  SelectSeq([k \in 1..(Len(cut) - 1) |-> <<cut[k], cut[k + 1]>>],
                  LAMBDA p : Keep(In(a, p[1]), In(b, p[1])))

\* __sm_union_runs().
UnionRuns(m, runs) ==
    CoalesceMap(EmitAll(Pieces(Runs(m), runs, LAMBDA x, y : x \/ y)))

\* __sm_add_many_core() and __sm_replace_buffer(): the new map is built aside, and
\* replaces the old one if it fits.
AddManyCore(m, S, capacity) ==
    LET cs == UnionRuns(m, RunsOf(S))
    IN  IF ChunksWords(cs) > capacity THEN NoSpace(m) ELSE Ok(TryDemote(Chunked(cs)))

\* sm_add_range(lo, hi), hi exclusive: the new run takes its place among the map's, and
\* runs that meet are joined.
MergedRuns(m, lo, hi) ==
    LET rs == Runs(m)
        all == SelectSeq(rs, LAMBDA r : r[1] < lo) \o <<<<lo, hi>>>>
               \o SelectSeq(rs, LAMBDA r : r[1] >= lo)
        join(acc, r) == IF acc # <<>> /\ r[1] <= acc[Len(acc)][2]
                        THEN [acc EXCEPT ![Len(acc)] = <<@[1], Greatest(@[2], r[2])>>]
                        ELSE Append(acc, r)
    IN  FoldLeft(join, <<>>, all)

\* A result that is one short run from a block boundary is stored as a run.
AddRange(m, lo, hi, capacity) ==
    LET runs == MergedRuns(m, lo, hi)
        one == runs[1]
        cs == IF /\ Len(runs) = 1 /\ one[1] % MaxCapacity = 0
                 /\ one[2] - one[1] < MaxCapacity
              THEN <<Rle(one[1], MaxCapacity, one[2] - one[1])>>
              ELSE CoalesceMap(EmitAll(runs))
    IN  IF ChunksWords(cs) > capacity THEN NoSpace(m) ELSE Ok(TryDemote(Chunked(cs)))

-----------------------------------------------------------------------------
\* Set operations on two maps, chunk pair by chunk pair.  A small operand is first
\* rewritten in chunks; the result is a new map with all the room it needs.

Unlimited == 1000000

RECURSIVE AddEach(_, _)
AddEach(m, bits) ==
    IF bits = {} THEN m
    ELSE AddEach(AddDispatch(m, Min(bits), Unlimited, NoCursor).map, bits \ {Min(bits)})

\* __sm_materialize(): the bits go one by one into a new map, which is promoted if it is
\* still small.
Materialize(m) ==
    LET chunks(r) == IF r.small /\ r.bits # {} THEN Promote(r, Unlimited).val.chunks ELSE r.chunks
    IN  IF ~m.small THEN m.chunks
        ELSE chunks(AddEach(EmptyMap, m.bits))

AppendSparse(out, s, bits) == IF bits = {} THEN out ELSE Append(out, Sparse(s, bits))

\* The bits of a chunk in from..to-1.  The vectors of a sparse chunk outside that range
\* no longer count for its capacity, the last one excepted.
EmitChunkBits(out, c, from, to) ==
    LET lo == Greatest(from, c.start)
        hi == Least(to, c.start + Length(c))
        bits == c.bits \cap from..(to - 1)
        kept == {v \in 0..(VectorsPerChunk - 1) :
                    Vector(c.start, v) \cap from..(to - 1) # {} \/ v = VectorsPerChunk - 1}
    IN  IF from >= to THEN out
        ELSE IF c.rle THEN IF lo < hi THEN AppendRle(out, lo, hi - lo, hi - lo) ELSE out
        ELSE IF bits = {} THEN out
        ELSE Append(out, [Sparse(c.start, bits) EXCEPT !.cap = Cardinality(kept) * BitsPerVector])

\* The block in which a run meets a sparse chunk, and where the result of the pair starts.
PairStart(x, y) == IF x.rle /\ ~y.rle THEN y.start ELSE x.start

Block(s) == s..(s + MaxCapacity - 1)

\* Two runs meet in a run, anything else in a sparse chunk.
IntersectPair(x, y, out) ==
    LET both == x.bits \cap y.bits
    IN  IF x.rle /\ y.rle
        THEN IF both = {} THEN out ELSE AppendRle(out, Min(both), Cardinality(both), Cardinality(both))
        ELSE AppendSparse(out, PairStart(x, y), both \cap Block(PairStart(x, y)))

RECURSIVE Intersect(_, _, _)
Intersect(a, b, out) ==
    IF a = <<>> \/ b = <<>> THEN out
    ELSE LET x == Head(a)
             y == Head(b)
         IN  IF ChunkEnd(x) <= y.start THEN Intersect(Tail(a), b, out)
             ELSE IF ChunkEnd(y) <= x.start THEN Intersect(a, Tail(b), out)
             ELSE Intersect(IF ChunkEnd(x) <= ChunkEnd(y) THEN Tail(a) ELSE a,
                            IF ChunkEnd(y) <= ChunkEnd(x) THEN Tail(b) ELSE b,
                            IntersectPair(x, y, out))

sm_intersection(p, q) == TryDemote(Chunked(Intersect(Materialize(p), Materialize(q), <<>>)))

\* What x has more than y in from..to-1; out ends before from.
SubtractPair(x, y, from, to, out) ==
    LET s == PairStart(x, y)
    IN  IF x.rle /\ y.rle
        THEN EmitChunkBits(out, x, Greatest(y.start + Length(y), from), to)
        ELSE AppendSparse(out, s, (x.bits \ y.bits) \cap Block(s))

\* done: the bits of a's first chunk before it are dealt with.
RECURSIVE Subtract(_, _, _, _)
Subtract(a, b, done, out) ==
    IF a = <<>> THEN out
    ELSE LET x == Head(a)
             y == Head(b)
             c == Greatest(done, x.start)
             rest(from, o) == Subtract(Tail(a), b, 0, EmitChunkBits(o, x, from, ChunkEnd(x)))
             from == Greatest(c, y.start)
             to == Least(ChunkEnd(x), ChunkEnd(y))
             new == SubtractPair(x, y, from, to, EmitChunkBits(out, x, c, from))
             b2 == IF ChunkEnd(y) <= ChunkEnd(x) THEN Tail(b) ELSE b
             same == ~x.rle /\ ~y.rle /\ x.start = y.start
         IN  IF b = <<>> /\ c = x.start THEN Subtract(Tail(a), b, 0, Append(out, x))
             ELSE IF b = <<>> \/ ChunkEnd(x) <= y.start THEN rest(c, out)
             ELSE IF ChunkEnd(y) <= c THEN Subtract(a, Tail(b), c, out)
             ELSE IF same THEN Subtract(Tail(a), b2, 0, new)
             ELSE IF ChunkEnd(x) <= ChunkEnd(y)
             THEN Subtract(Tail(a), b2, 0, EmitChunkBits(new, x, to, ChunkEnd(x)))
             ELSE Subtract(a, b2, to, new)

sm_difference(p, q) ==
    IF Members(q) = {} THEN p
    ELSE TryDemote(Chunked(Subtract(Materialize(p), Materialize(q), 0, <<>>)))

\* Chunk z from index c on; a chunk not yet touched is copied as it is.
UniteRest(z, c, out) == IF c = z.start THEN Append(out, z) ELSE EmitChunkBits(out, z, c, ChunkEnd(z))

\* Two sparse chunks of one block, without what is already emitted of them.
UniteSame(x, y, cx, cy, out) ==
    AppendSparse(out, x.start, {i \in x.bits : i >= cx} \cup {i \in y.bits : i >= cy})

\* Two runs in from..to-1: one run if they touch, else two.
UniteRuns(x, y, from, to, out) ==
    FoldLeft(LAMBDA o, r : AppendRle(o, r[1], r[2] - r[1], r[2] - r[1]), out,
             RunsOf((x.bits \cup y.bits) \cap from..(to - 1)))

\* A run and a sparse chunk, or two sparse chunks of different blocks.
UniteMixed(x, y, out) ==
    LET s == PairStart(x, y) IN AppendSparse(out, s, (x.bits \cup y.bits) \cap Block(s))

\* ca, cb: the bits of a's and b's first chunks before them are emitted.
RECURSIVE Unite(_, _, _, _, _)
Unite(a, b, ca, cb, out) ==
    IF a = <<>> /\ b = <<>> THEN out
    ELSE IF a = <<>> THEN Unite(b, a, cb, ca, out)
    ELSE LET x == Head(a)
             y == Head(b)
             cx == Greatest(ca, x.start)
             cy == Greatest(cb, y.start)
             from == Greatest(cx, cy)
             to == Least(ChunkEnd(x), ChunkEnd(y))
             gap == EmitChunkBits(EmitChunkBits(out, x, cx, from), y, cy, from)
         IN  IF b = <<>> \/ ChunkEnd(x) <= cy THEN Unite(Tail(a), b, 0, cb, UniteRest(x, cx, out))
             ELSE IF ChunkEnd(y) <= cx THEN Unite(a, Tail(b), ca, 0, UniteRest(y, cy, out))
             ELSE IF ~x.rle /\ ~y.rle /\ x.start = y.start
             THEN Unite(Tail(a), Tail(b), 0, 0, UniteSame(x, y, cx, cy, out))
             ELSE Unite(IF to >= ChunkEnd(x) THEN Tail(a) ELSE a,
                        IF to >= ChunkEnd(y) THEN Tail(b) ELSE b,
                        IF to >= ChunkEnd(x) THEN 0 ELSE to,
                        IF to >= ChunkEnd(y) THEN 0 ELSE to,
                        IF x.rle /\ y.rle THEN UniteRuns(x, y, from, to, gap)
                        ELSE UniteMixed(x, y, gap))

sm_union(p, q) ==
    IF Members(p) = {} THEN q
    ELSE IF Members(q) = {} THEN p
    ELSE TryDemote(Chunked(Unite(Materialize(p), Materialize(q), 0, 0, <<>>)))

sm_xor(p, q) ==
    IF Members(p) = {} THEN q
    ELSE IF Members(q) = {} THEN p
    ELSE TryDemote(Chunked(CoalesceMap(EmitAll(Pieces(Runs(p), Runs(q), LAMBDA x, y : x # y)))))

\* The bits of a chunk moved by d; what falls below 0 is dropped.
Shifted(c, d) == {i + d : i \in {j \in c.bits : j + d >= 0}}

ShiftRun(e, c, d) ==
    LET bits == Shifted(c, d) IN IF bits = {} THEN e ELSE EmitRun(e, Min(bits), Max(bits) + 1)

\* A sparse chunk comes to lie across a block boundary.
ShiftSparse(e, c, d) ==
    LET a == Aligned(Greatest(c.start + d, 0))
        f == EmitWords(e, a, Shifted(c, d) \cap Block(a))
        over == Shifted(c, d) \ Block(a)
    IN  IF c.start + d <= -MaxCapacity THEN e
        ELSE IF over = {} THEN f ELSE EmitWords(f, a + MaxCapacity, over)

ShiftChunk(e, c, d) == IF c.rle THEN ShiftRun(e, c, d) ELSE ShiftSparse(e, c, d)

sm_offset(p, d) ==
    LET out == EmitFlush(FoldLeft(LAMBDA e, c : ShiftChunk(e, c, d), Emitter, Materialize(p))).out
        demoted(m) == IF p.small THEN TryDemote(m) ELSE m
    IN  IF d = 0 THEN p ELSE demoted(Chunked(CoalesceMap(out)))
-----------------------------------------------------------------------------
\* Reads.

NoIndex == -1

\* Does chunk c, found for index i, hold it?
InChunk(c, i) == i >= c.start /\ i - c.start < c.cap /\ i \in c.bits

sm_contains(m, i) ==
    IF m.small THEN i < m.n * BitsPerVector /\ i \in m.bits
    ELSE m.chunks # <<>> /\ InChunk(m.chunks[ChunkOffset(m.chunks, i)], i)

\* Ascending queries in one walk over the chunks: i is answered at the first chunk that
\* starts after it (no) or reaches past it.
sm_contains_many(m, i) ==
    LET cs == m.chunks
        stop == {k \in DOMAIN cs : i < cs[k].start \/ i < ChunkEnd(cs[k])}
    IN  IF m.small THEN sm_contains(m, i)
        ELSE stop # {} /\ i >= cs[Min(stop)].start /\ i \in cs[Min(stop)].bits

sm_minimum(m) ==
    IF m.small THEN IF m.bits = {} THEN 0 ELSE Min(m.bits)
    ELSE IF m.chunks = <<>> THEN 0 ELSE Min(m.chunks[1].bits)

sm_maximum(m) ==
    IF m.small THEN IF m.bits = {} THEN 0 ELSE Max(m.bits)
    ELSE IF m.chunks = <<>> THEN 0 ELSE Max(m.chunks[Len(m.chunks)].bits)

\* The first member of a chunk after prev; the walk passes over the chunks that end there.
NextSet(c, prev) == LET s == {i \in c.bits : i > prev} IN IF s = {} THEN NoIndex ELSE Min(s)

sm_next_member(m, prev) ==
    LET cs == m.chunks
        hit == {k \in DOMAIN cs : ChunkEnd(cs[k]) - 1 > prev /\ NextSet(cs[k], prev) # NoIndex}
    IN  IF m.small THEN NextSet(m, prev)
        ELSE IF hit = {} THEN NoIndex ELSE NextSet(cs[Min(hit)], prev)

PrevSet(c, upper) == LET s == {i \in c.bits : i < upper} IN IF s = {} THEN NoIndex ELSE Max(s)

\* Back from the last chunk that starts before upper.
sm_prev_member(m, upper) ==
    LET cs == m.chunks
        before == {k \in DOMAIN cs : \A j \in 1..k : cs[j].start < upper}
        hit == {k \in before : PrevSet(cs[k], upper) # NoIndex}
    IN  IF m.small THEN PrevSet(m, upper)
        ELSE IF hit = {} THEN NoIndex ELSE PrevSet(cs[Max(hit)], upper)

ChunkRank(c, lo, hi) == Cardinality(c.bits \cap lo..hi)

\* The members in lo..hi, chunk by chunk; a chunk that starts past hi ends the walk.
RankIn(cs, lo, hi) ==
    LET seen == {k \in DOMAIN cs : (\A j \in 1..k : cs[j].start <= hi) /\ ChunkEnd(cs[k]) - 1 >= lo}
    IN  FoldSet(LAMBDA k, acc : acc + ChunkRank(cs[k], Greatest(lo, cs[k].start),
                                                Least(hi, ChunkEnd(cs[k]) - 1)), 0, seen)

sm_rank(m, lo, hi) == RankIn(Materialize(m), lo, hi)

\* The n-th (from 0) of a sequence of chunks from the k-th on.
RECURSIVE SelectFrom(_, _, _)
SelectFrom(cs, k, n) ==
    IF k > Len(cs) THEN NoIndex
    ELSE IF n < Length(cs[k]) THEN Ascending(cs[k].bits)[n + 1]
    ELSE SelectFrom(cs, k + 1, n - Length(cs[k]))

sm_select(m, n) == SelectFrom(Materialize(m), 1, n)

sm_cardinality(m) ==
    IF m.small THEN Cardinality(m.bits)
    ELSE FoldLeft(LAMBDA acc, c : acc + Length(c), 0, m.chunks)

\* The locator: of every stride-th chunk its place and the members before it.
Isqrt(x) == Max({r \in 0..x : r * r <= x})

SuperblockPlaces(cs) ==
    LET stride == Greatest(Isqrt(Len(cs)), 1)
    IN  {k \in DOMAIN cs : (k - 1) % stride = 0}

PrefixBefore(cs, k) == FoldLeft(LAMBDA acc, c : acc + Length(c), 0, SubSeq(cs, 1, k - 1))

FindSuperblock(cs, i) ==
    LET below == {k \in SuperblockPlaces(cs) : cs[k].start <= i}
    IN  IF below = {} THEN 1 ELSE Max(below)

\* A faulty variant of the next definition: the members before the superblock are left out.
LocatorRankUpto_bare(cs, i) ==
    LET k0 == FindSuperblock(cs, i)
        seen == {k \in k0..Len(cs) : \A j \in k0..k : cs[j].start <= i}
    IN  FoldSet(LAMBDA k, acc : acc + ChunkRank(cs[k], cs[k].start, i), 0, seen)

LocatorRankUpto(cs, i) ==
    LET k0 == FindSuperblock(cs, i)
        seen == {k \in k0..Len(cs) : \A j \in k0..k : cs[j].start <= i}
    IN  FoldSet(LAMBDA k, acc : acc + ChunkRank(cs[k], cs[k].start, Least(i, ChunkEnd(cs[k]) - 1)),
                PrefixBefore(cs, k0), seen)

sm_locator_rank(cs, lo, hi) ==
    IF lo > hi THEN 0
    ELSE LocatorRankUpto(cs, hi) - (IF lo = 0 THEN 0 ELSE LocatorRankUpto(cs, lo - 1))

sm_locator_contains(cs, i) ==
    LET past == {k \in FindSuperblock(cs, i)..Len(cs) : i < ChunkEnd(cs[k])}
    IN  past # {} /\ InChunk(cs[Min(past)], i)

sm_locator_select(cs, n) ==
    LET below == {k \in SuperblockPlaces(cs) : PrefixBefore(cs, k) <= n}
        k0 == IF below = {} THEN 1 ELSE Max(below)
    IN  SelectFrom(cs, k0, n - PrefixBefore(cs, k0))

\* Two maps walked side by side, member by member.
RECURSIVE SubsetFrom(_, _, _, _)
SubsetFrom(p, q, ip, iq) ==
    IF ip = NoIndex THEN TRUE
    ELSE IF iq # NoIndex /\ iq < ip THEN SubsetFrom(p, q, ip, sm_next_member(q, iq))
    ELSE iq = ip /\ SubsetFrom(p, q, sm_next_member(p, ip), iq)

sm_is_subset(p, q) ==
    Members(p) = {} \/ (Members(q) # {} /\ SubsetFrom(p, q, sm_next_member(p, -1), sm_next_member(q, -1)))

RECURSIVE OverlapFrom(_, _, _, _)
OverlapFrom(p, q, ip, iq) ==
    IF ip = NoIndex \/ iq = NoIndex THEN FALSE
    ELSE IF ip = iq THEN TRUE
    ELSE IF ip < iq THEN OverlapFrom(p, q, sm_next_member(p, ip), iq)
    ELSE OverlapFrom(p, q, ip, sm_next_member(q, iq))

sm_overlap(p, q) == OverlapFrom(p, q, sm_next_member(p, -1), sm_next_member(q, -1))

\* The members of both lists of runs, counted run pair by run pair: the run that ends first
\* is left behind.
RECURSIVE PairCounts(_, _)
PairCounts(a, b) ==
    IF a = <<>> \/ b = <<>> THEN 0
    ELSE LET both == Least(a[1][2], b[1][2]) - Greatest(a[1][1], b[1][1])
             rest == IF a[1][2] <= b[1][2] THEN PairCounts(Tail(a), b) ELSE PairCounts(a, Tail(b))
         IN  Greatest(both, 0) + rest

sm_intersection_cardinality(p, q) == PairCounts(Runs(p), Runs(q))

sm_union_cardinality(p, q) ==
    sm_cardinality(p) + sm_cardinality(q) - sm_intersection_cardinality(p, q)

sm_equals(p, q) == Runs(p) = Runs(q)

\* The order of two maps: -1 if the first difference is a smaller member of p.  In both
\* lists the runs before the first ones are used up, and pa, pb are reached in those.
RECURSIVE CompareFrom(_, _, _, _)
CompareFrom(a, b, pa, pb) ==
    IF a = <<>> /\ b = <<>> THEN 0
    ELSE IF a = <<>> THEN -1
    ELSE IF b = <<>> THEN 1
    ELSE LET x == Greatest(pa, a[1][1])
             y == Greatest(pb, b[1][1])
             step == Least(a[1][2] - x, b[1][2] - y)
         IN  IF x # y THEN IF x < y THEN -1 ELSE 1
             ELSE CompareFrom(IF x + step >= a[1][2] THEN Tail(a) ELSE a,
                              IF y + step >= b[1][2] THEN Tail(b) ELSE b, x + step, y + step)

sm_compare(p, q) == CompareFrom(Runs(p), Runs(q), 0, 0)

\* Which map holds the other: every piece the two cut each other into is looked at.
sm_subset_compare(p, q) ==
    LET only(Keep(_, _)) == Pieces(Runs(p), Runs(q), Keep) # <<>>
        more == only(LAMBDA x, y : x /\ ~y)
        less == only(LAMBDA x, y : y /\ ~x)
    IN  IF more /\ less THEN "different" ELSE IF less THEN "subset_a"
        ELSE IF more THEN "subset_b" ELSE "equal"

\* The members of lo..hi-1 as a map of their own.
sm_extract_range(m, lo, hi) ==
    LET cut == SelectSeq(Runs(m), LAMBDA r : r[2] > lo /\ r[1] < hi)
    IN  TryDemote(Chunked(CoalesceMap(EmitAll(
            [k \in DOMAIN cut |-> <<Greatest(cut[k][1], lo), Least(cut[k][2], hi)>>]))))

\* What sm_validate() accepts.
sm_validate(m, capacity) ==
    LET cs == m.chunks
    IN  /\ Used(m) <= capacity
        /\ m.small => /\ m.n <= SmallMaxWords
                      /\ m.n > 0 => Vector(0, m.n - 1) \cap m.bits # {}
        /\ \A k \in DOMAIN cs :
              /\ cs[k].start % MaxCapacity = 0
              /\ Length(cs[k]) <= cs[k].cap
              /\ cs[k].bits # {} => Max(cs[k].bits) < ChunkEnd(cs[k])
              /\ k > 1 => cs[k].start > cs[k - 1].start /\ cs[k].start >= ChunkEnd(cs[k - 1])
-----------------------------------------------------------------------------
\* A map, its caller's cursor, and what the caller has asked for.

CONSTANTS
    Capacities,    \* bound: the sizes sm_create() is called with, in words
    GrowMin,       \* the least size a map grows to, 4096 bytes
    MaxWords,      \* bound: the size no map grows past
    Batches,       \* bound: the sets sm_add_many() is called with
    Ranges,        \* bound: the <<lo, hi>> that sm_add_range() is called with
    Operands       \* bound: the sets the other map of a set operation holds

VARIABLES
    map,
    capacity,
    cur,
    call           \* the last update asked for: its kind, its indices, whether it succeeded

vars == <<map, capacity, cur, call>>

Call(op, S, ok) == [op |-> op, S |-> S, ok |-> ok]

Init ==
    /\ map = EmptyMap
    /\ capacity \in Capacities
    /\ cur = NoCursor
    /\ call = Call("clear", {}, TRUE)

\* A caller that updates a map without its cursor resets the cursor.
sm_add(i) ==
    \E r \in {AddDispatch(map, i, capacity, NoCursor)} :
        /\ map' = r.map
        /\ cur' = NoCursor
        /\ call' = Call("add", {i}, r.ok)
        /\ UNCHANGED capacity

GrownSize == Greatest(2 * capacity, GrowMin)

\* sm_add_grow_cursor(), and sm_add_grow() with no cursor: one retry in a larger buffer.
sm_add_grow_cursor(i) ==
    \E r \in {AddDispatch(map, i, capacity, cur)} :
        IF r.ok
        THEN /\ map' = r.map /\ cur' = r.cur
             /\ call' = Call("add", {i}, TRUE)
             /\ UNCHANGED capacity
        ELSE \E g \in {AddDispatch(r.map, i, GrownSize, NoCursor)} :
             /\ GrownSize <= MaxWords
             /\ map' = g.map /\ cur' = g.cur
             /\ capacity' = GrownSize
             /\ call' = Call("add", {i}, g.ok)

sm_add_many(S) ==
    \E r \in {AddManyCore(map, S, capacity)} :
        /\ map' = r.val
        /\ cur' = NoCursor
        /\ call' = Call("add", S, r.ok)
        /\ UNCHANGED capacity

\* A faulty variant of the next definition: the end is taken for inclusive, one step late.
sm_add_range_short(lo, hi) ==
    \E r \in {AddRange(map, lo, hi - 1, capacity)} :
        /\ map' = r.val
        /\ cur' = NoCursor
        /\ call' = Call("add", lo..(hi - 1), r.ok)
        /\ UNCHANGED capacity

sm_add_range(lo, hi) ==
    \E r \in {AddRange(map, lo, hi, capacity)} :
        /\ map' = r.val
        /\ cur' = NoCursor
        /\ call' = Call("add", lo..(hi - 1), r.ok)
        /\ UNCHANGED capacity

sm_clear ==
    /\ map' = EmptyMap
    /\ cur' = NoCursor
    /\ call' = Call("clear", {}, TRUE)
    /\ UNCHANGED capacity

\* The buffer is stored and opened again: sm_open() empties what does not validate.
sm_open ==
    /\ map' = IF sm_validate(map, capacity) THEN map ELSE EmptyMap
    /\ cur' = NoCursor
    /\ call' = Call("read", {}, TRUE)
    /\ UNCHANGED capacity

\* A lookup of i through the cursor.
sm_contains_cursor(i) ==
    /\ ~map.small /\ map.chunks # <<>>
    /\ cur' = Seated(map.chunks, Seek(map.chunks, i, cur))
    /\ call' = Call("read", {}, TRUE)
    /\ UNCHANGED <<map, capacity>>

\* The bit is the only one of its sparse chunk.
LoneBit(i) == ~map.small /\ \E c \in ToSet(map.chunks) : ~c.rle /\ c.bits = {i}

\* A removal.  Removing a lone bit spoils the chunk that follows (see MapUnset) and is
\* not explored; no caller in the index removes single bits.
sm_remove(i) ==
    \E r \in {RemoveDispatch(map, i, capacity)} :
        /\ ~LoneBit(i)
        /\ map' = r.val
        /\ cur' = NoCursor
        /\ call' = Call("remove", {i}, r.ok)
        /\ UNCHANGED capacity

Next ==
    \/ \E i \in Index : sm_add(i)
    \/ \E i \in Index : sm_add_grow_cursor(i)
    \/ \E S \in Batches : sm_add_many(S)
    \/ \E r \in Ranges : sm_add_range(r[1], r[2])
    \/ sm_clear
    \/ sm_open
    \/ \E i \in Index : sm_contains_cursor(i)
    \/ \E i \in Index : sm_remove(i)

Spec == Init /\ [][Next]_vars

-----------------------------------------------------------------------------
\* The map is a set of indices (WeaveBitset): every update does to the set what the caller
\* asked, or reports that it did not and changes nothing; storing the buffer and opening
\* it again loses nothing.
Bitset == INSTANCE WeaveBitset WITH members <- Members(map)

ImplementsSet == Bitset!Spec

TypeOK ==
    /\ map \in [small : BOOLEAN, n : 0..SmallMaxWords, bits : SUBSET Index, chunks : Seq(
            [start : Index, rle : BOOLEAN, cap : 1..RleMax, bits : SUBSET Index])]
    /\ capacity \in 1..MaxWords
    /\ cur \in [off : Int, start : Nat, prev : Int]
    /\ call.ok \in BOOLEAN

\* Whatever sequence of insertions made a map, sm_validate() accepts its buffer: chunks
\* start at block boundaries, in order, and none reaches into the next.  (sm_open() turns
\* a buffer that does not validate into an empty map: stored tombstones would vanish.)
Valid == sm_validate(map, capacity)

\* Every read finds the same set in the same buffer: a lookup, a batch of lookups, both
\* walks, rank, select, the extremes, the count, and the three through a locator, however
\* the members are spread over runs, sparse chunks and the small form.
ReadsAgree ==
    LET S == Members(map)
        cs == map.chunks
        after(i) == {j \in S : j > i}
        before(i) == {j \in S : j < i}
    IN  /\ sm_cardinality(map) = Cardinality(S)
        /\ S # {} => sm_minimum(map) = Min(S) /\ sm_maximum(map) = Max(S)
        /\ \A i \in 0..(MaxIndex + 1) :
              /\ sm_contains(map, i) <=> i \in S
              /\ sm_contains_many(map, i) <=> i \in S
              /\ sm_next_member(map, i) = IF after(i) = {} THEN NoIndex ELSE Min(after(i))
              /\ sm_prev_member(map, i) = IF before(i) = {} THEN NoIndex ELSE Max(before(i))
              /\ sm_rank(map, 2, i) = Cardinality(S \cap 2..i)
              /\ sm_select(map, i) = IF i < Cardinality(S) THEN Ascending(S)[i + 1] ELSE NoIndex
              /\ ~map.small /\ cs # <<>> =>
                    /\ sm_locator_contains(cs, i) <=> i \in S
                    /\ sm_locator_rank(cs, 2, i) = Cardinality(S \cap 2..i)
                    /\ sm_locator_select(cs, i) = sm_select(map, i)

\* A cursor kept across insertions, splits and merges never misleads: a lookup through it
\* finds what a lookup from the first chunk finds, and the left neighbour it remembers is
\* an earlier chunk.
CursorExact ==
    LET cs == map.chunks
    IN  ~map.small /\ cs # <<>> =>
            \A i \in Index :
                LET s == Seek(cs, i, cur)
                IN  /\ InChunk(cs[s.k], i) <=> i \in Members(map)
                    /\ ChunkAt(cs, s.prev) < s.k

\* Sets ordered by their ascending members; the one that ends first is smaller.
OrderOf(S, T) ==
    LET first == (S \ T) \cup (T \ S)
        d == Min(first)
    IN  IF first = {} THEN 0
        ELSE IF d \in S THEN IF \E t \in T : t > d THEN -1 ELSE 1
        ELSE IF \E x \in S : x > d THEN 1 ELSE -1

\* A map made by insertions combines exactly with another: intersection, difference, union
\* and symmetric difference hold the members they should, once each, and a shift moves
\* every member; the comparisons and counts that build no result agree.
SetOpsExact ==
    LET S == Members(map)
        exact(r, R) == Members(r) = R /\ sm_cardinality(r) = Cardinality(R)
    IN  /\ \A T \in Operands :
              \A q \in {AddManyCore(EmptyMap, T, MaxWords).val} :
                  /\ exact(sm_intersection(map, q), S \cap T)
                  /\ exact(sm_difference(map, q), S \ T)
                  /\ exact(sm_difference(q, map), T \ S)
                  /\ exact(sm_union(map, q), S \cup T)
                  /\ exact(sm_xor(map, q), (S \ T) \cup (T \ S))
                  /\ sm_intersection_cardinality(map, q) = Cardinality(S \cap T)
                  /\ sm_union_cardinality(map, q) = Cardinality(S \cup T)
                  /\ sm_is_subset(map, q) <=> S \subseteq T
                  /\ sm_overlap(map, q) <=> S \cap T # {}
                  /\ sm_equals(map, q) <=> S = T
                  /\ sm_compare(map, q) = OrderOf(S, T)
                  /\ sm_subset_compare(map, q) = (IF S = T THEN "equal" ELSE IF S \subseteq T THEN "subset_a"
                                                  ELSE IF T \subseteq S THEN "subset_b" ELSE "different")
        /\ exact(sm_extract_range(map, 1, MaxCapacity + 2), S \cap 1..(MaxCapacity + 1))
        /\ \A d \in {-3, 1, MaxCapacity} :
              exact(sm_offset(map, d), {i + d : i \in {j \in S : j + d >= 0}})

\* Whatever a map is asked without changing it, its answer is the set's: by a read, from the
\* map or through a locator, and by an operation with another map.
AnswersExact == ReadsAgree /\ SetOpsExact
=============================================================================
