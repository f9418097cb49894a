----------------------- MODULE ParallelPriorityQueue -----------------------
(***************************************************************************)
(* stxxl::parallel_priority_queue with its minima_tree.                    *)
(*                                                                         *)
(* A queue is a record.  Elements are numbers, the smallest one is the     *)
(* first to leave.  Insertion heaps, internal arrays (ia) and external     *)
(* arrays (ea) are sequences of elements; a heap is kept sorted, which     *)
(* stands for the heap property: its first element is at the front.  Sizes *)
(* of memory are counted in units: an element takes Unit of them, the head *)
(* of an array and the entry of an external array for a block take one.    *)
(*                    err is the first assertion that fails or access that *)
(* goes astray.                                                            *)
(***************************************************************************)
EXTENDS Integers, Sequences, SequencesExt, FiniteSets, FiniteSetsExt

CONSTANTS
    Configs,      \* records [heaps, cap, mem, ialevel, ealevel, limit, order, limits]: the number of
                  \* insertion heaps and the capacity of one, the memory left at first, the sizes
                  \* of a level of internal and of external arrays, the limit of the extract
                  \* buffer, the elements in the order in which they are pushed; and the limits
                  \* that bulk extractions use
    BlockItems, Unit,
    ReadHalves,   \* num_read_blocks_per_ea in halves of a block
    Levels,       \* c_max_internal_levels, c_max_external_levels
    Zero,         \* bulk_pop may be asked for no elements
    Known,        \* the assertions that are known to fail
    Null

VARIABLES
    obj,  \* the queue
    ref   \* how often it should hold each key

vars == <<obj, ref>>

T == INSTANCE QueueParts WITH Players <- 8, Keys <- {}, Width <- 8, Values <- {}, MaxSize <- 0, May <- {}
E == INSTANCE ExternalArray WITH Capacities <- {}, Pool <- 0, May <- {}

\* The sequence s, with its elements computed.
Tuple(s) == s \o <<>>

Ids(s) == 0..(Len(s) - 1)
Sorted(s) == SortSeq(s, <)
Total(s) == FoldLeft(LAMBDA a, x : a + x, 0, s)
IaMemory(cap) == 1 + cap * Unit
EaMemory(n) == 1 + E!Ceil(n, BlockItems)
BlockMem == BlockItems * Unit
ReadBlocks(n) == (ReadHalves * n) \div 2
Err(q, cond, what) == IF cond /\ q.err = {} THEN [q EXCEPT !.err = {what}] ELSE q

\* A player who does not fit into a tree.
Growth(q, t, i) == Err(q, i >= t.slots, "grow")

\* The elements of an array that an iterator range gives, and their number below a limit.
Below(s, x) == SelectSeq(s, LAMBDA y : y < x)

---------------------------------------------------------------------------
(* The sources of minima, as the comparators see them: a player whose      *)
(* element does not exist is not in the domain.                            *)

HEAP == 0
IA == 1
EB == 2

Nonempty(f) == [x \in {x \in DOMAIN f : f[x] # <<>>} |-> Head(f[x])]
HeapVal(q) == Nonempty(q.heap)
IaVal(q) == Nonempty([i \in Ids(q.ia) |-> q.ia[i + 1].vals])
EminVal(q) == [i \in {i \in Ids(q.ea) : E!has_em_data(q.ea[i + 1])} |-> E!get_next_block_min(q.ea[i + 1])]
HintVal(q) == [i \in {i \in Ids(q.ea) : E!has_unhinted_em_data(q.ea[i + 1])} |-> E!get_next_hintable_min(q.ea[i + 1])]

\* The value of the winner of a tree, if it has one.
WinnerVal(val, p) == IF p \in DOMAIN val THEN <<val[p]>> ELSE <<>>
HeadVal(q) == Nonempty([x \in {HEAP, IA, EB} |-> CASE x = HEAP -> WinnerVal(HeapVal(q), T!top(q.heapt))
                                                  [] x = IA -> WinnerVal(IaVal(q), T!top(q.iat))
                                                  [] x = EB -> q.eb])

HeadChange(q, x) == [q EXCEPT !.head = T!notify_change(@, HeadVal(q), x)]
HeadOff(q, x) == [q EXCEPT !.head = T!deactivate_player(@, HeadVal(q), x)]

update_heap(q, p) == HeadChange([q EXCEPT !.heapt = T!notify_change(@, HeapVal(q), p)], HEAP)

HeapsPlayed(q) == IF T!empty(q.heapt) THEN HeadOff(q, HEAP) ELSE HeadChange(q, HEAP)
deactivate_heap(q, p) == HeapsPlayed([q EXCEPT !.heapt = T!deactivate_player(@, HeapVal(q), p)])

update_extract_buffer(q) == HeadChange(q, EB)
deactivate_extract_buffer(q) == HeadOff(q, EB)
update_internal_array(q, i) == HeadChange([q EXCEPT !.iat = T!notify_change(@, IaVal(q), i)], IA)
add_internal_array(q, i) == HeadChange([Growth(q, q.iat, i) EXCEPT !.iat = T!activate_player(@, IaVal(q), i)], IA)

ArraysPlayed(q) == IF T!empty(q.iat) THEN HeadOff(q, IA) ELSE HeadChange(q, IA)
deactivate_internal_array(q, i) == ArraysPlayed([q EXCEPT !.iat = T!deactivate_player(@, IaVal(q), i)])

clear_heaps(q) == HeadOff([q EXCEPT !.heapt = T!clear(@)], HEAP)
clear_internal_arrays(q) == HeadOff([q EXCEPT !.iat = T!resize_and_clear(@, 2)], IA)

\* With no internal array left, the tree of the internal arrays is not cleared.
rebuild_internal_arrays(q) ==
    IF q.ia # <<>> THEN HeadChange([q EXCEPT !.iat = T!resize_and_rebuild(@, IaVal(q), Len(q.ia))], IA)
    ELSE HeadOff(q, IA)

\* minima_tree::top: where the next element is, and which one of them
MinimaTop(q) ==
    LET type == T!top(q.head)
    IN  <<type, CASE type = HEAP -> T!top(q.heapt) [] type = IA -> T!top(q.iat) [] OTHER -> 0>>

---------------------------------------------------------------------------
(* Arrays come and go.                                                     *)

\* A buffer that an external array takes or gives back is one of the pool.
Held(q) == Total([i \in 1..Len(q.ea) |-> Cardinality(q.ea[i].ram)])
free_size_prefetch(q) == q.reads - Held(q)

update_external_min_tree(q, i) ==
    [q EXCEPT !.emin = IF E!has_em_data(q.ea[i + 1]) THEN T!replay_on_change(@, EminVal(q), i)
                       ELSE T!deactivate_player(@, EminVal(q), i)]

update_hint_tree(q, i) ==
    [q EXCEPT !.hint = IF E!has_unhinted_em_data(q.ea[i + 1]) THEN T!replay_on_change(@, HintVal(q), i)
                       ELSE T!deactivate_player(@, HintVal(q), i)]

resize_read_pool(q) ==
    LET want == ReadBlocks(Len(q.ea))
        less == Min({q.reads - want, free_size_prefetch(q)})
    IN  IF want > q.reads
        THEN [Err(q, q.mem < (want - q.reads) * BlockMem, "read-pool")
                EXCEPT !.reads = want, !.mem = @ - (want - q.reads) * BlockMem]
        ELSE IF want < q.reads THEN [q EXCEPT !.reads = @ - less, !.mem = @ + less * BlockMem]
        ELSE q

LevelsLess(lv, gone) == T!Value([l \in DOMAIN lv |-> lv[l] - Cardinality({i \in DOMAIN gone : gone[i].level = l})])

cleanup_internal_arrays(q) ==
    LET gone == SelectSeq(q.ia, LAMBDA a : a.vals = <<>>)
    IN  rebuild_internal_arrays(
            [q EXCEPT !.ia = SelectSeq(@, LAMBDA a : a.vals # <<>>),
                      !.mem = @ + Total([i \in DOMAIN gone |-> IaMemory(gone[i].cap)]),
                      !.ilevels = LevelsLess(@, gone)])

\* The trees follow the arrays that moved to the front, from the first hole on.
ReplayMoved(q, first) ==
    LET r[i \in first..Len(q.ea)] ==
            IF i = first THEN q ELSE update_hint_tree(update_external_min_tree(r[i - 1], i - 1), i - 1)
    IN  r[Len(q.ea)]

cleanup_external_arrays(q) ==
    LET gone == SelectSeq(q.ea, LAMBDA a : a.size = 0)
        first == IF gone = <<>> THEN Len(q.ea) ELSE Min({i \in Ids(q.ea) : q.ea[i + 1].size = 0})
        steps(t) == FoldLeft(LAMBDA u, i : T!deactivate_player_step(u, i), t,
                             [k \in 1..(Len(q.ea) - first) |-> Len(q.ea) - k])
        r == [q EXCEPT !.ea = SelectSeq(@, LAMBDA a : a.size # 0),
                       !.mem = @ + Total([i \in DOMAIN gone |-> EaMemory(Len(gone[i].vals))]),
                       !.elevels = LevelsLess(@, gone),
                       !.emin = steps(@), !.hint = steps(@)]
    IN  resize_read_pool(ReplayMoved(r, first))

---------------------------------------------------------------------------
(* Hints.                                                                  *)

EaSet(q, i, e) == [q EXCEPT !.ea = [@ EXCEPT ![i + 1] = e]]
EaAll(q, op(_)) == [q EXCEPT !.ea = Tuple([k \in 1..Len(@) |-> op(@[k])])]

RECURSIVE Prehint(_, _)
\* rebuild_hint_tree: the next blocks in the order of their minima get a virtual hint
Prehint(q, n) ==
    LET i == T!top(q.hint)
    IN  IF n = 0 \/ i = T!Inv THEN q
        ELSE LET r == EaSet([q EXCEPT !.hinted = @ + 1], i, E!rebuild_hints_prehint_next_block(q.ea[i + 1]))
             IN  Prehint(update_hint_tree(r, i), n - 1)

HintPlayers(q) ==
    LET on(t) == FoldLeft(LAMBDA u, i : IF E!has_unhinted_em_data(q.ea[i + 1]) THEN T!activate_without_replay(u, i)
                                        ELSE T!deactivate_without_replay(u, i),
                          t, [k \in 1..Len(q.ea) |-> k - 1])
    IN  [q EXCEPT !.hint = T!rebuild(on(@), HintVal(q)), !.hinted = 0]
HintsPrepared(q) == EaAll(q, E!rebuild_hints_prepare)
HintsFinished(q) == EaAll(EaAll(q, E!rebuild_hints_cancel), E!rebuild_hints_finish)
rebuild_hint_tree(q) == HintsFinished(Prehint(HintPlayers(HintsPrepared(q)), free_size_prefetch(q) + q.hinted))

RECURSIVE hint_external_arrays(_)
hint_external_arrays(q) ==
    LET i == T!top(q.hint)
    IN  IF free_size_prefetch(q) <= 0 \/ i = T!Inv THEN q
        ELSE LET r == EaSet([q EXCEPT !.hinted = @ + 1], i, E!hint_next_block(q.ea[i + 1]))
             IN  hint_external_arrays(update_hint_tree(r, i))

\* The further blocks that have been read, too, are none or, in an eager disk, all.
wait_next_ea_blocks(q, i) ==
    LET e == q.ea[i + 1]
        k == IF q.eager THEN E!num_hinted_blocks(e) ELSE 1
    IN  update_external_min_tree(
            EaSet([q EXCEPT !.hinted = @ - k, !.used = @ + k], i, E!wait_next_blocks(e, k)), i)

---------------------------------------------------------------------------
(* Merging.                                                                *)

RECURSIVE MergeN(_, _, _, _)
\* multiway_merge: the n smallest elements of sorted sequences, and how many come from each
MergeN(seqs, n, out, cnt) ==
    LET left == {i \in DOMAIN seqs : cnt[i] < Len(seqs[i])}
        i == CHOOSE i \in left : \A j \in left : seqs[i][cnt[i] + 1] < seqs[j][cnt[j] + 1]
                                             \/ (seqs[i][cnt[i] + 1] = seqs[j][cnt[j] + 1] /\ i <= j)
    IN  IF n = 0 \/ left = {} THEN [out |-> out, cnt |-> cnt]
        ELSE MergeN(seqs, n - 1, Append(out, seqs[i][cnt[i] + 1]), [cnt EXCEPT ![i] = @ + 1])

multiway_merge(seqs, n) == MergeN(seqs, n, <<>>, [i \in DOMAIN seqs |-> 0])
All(seqs) == Total([i \in DOMAIN seqs |-> Len(seqs[i])])

\* The items in memory of the external arrays, then the internal arrays.
Sequences(q) ==
    Tuple([i \in 1..(Len(q.ea) + Len(q.ia)) |-> IF i <= Len(q.ea) THEN E!Loaded(q.ea[i]) ELSE q.ia[i - Len(q.ea)].vals])

\* Items nobody reads any more.
Tidy(e) == [e EXCEPT !.vals = Tuple([i \in DOMAIN @ |-> IF i <= e.index THEN 0 ELSE @[i]])]

HintIf(cond, q) == IF cond THEN hint_external_arrays(q) ELSE q
advance_arrays(q, cnt) ==
    LET n == Len(q.ea)
        freed == Total([i \in 1..n |-> Cardinality(q.ea[i].ram \ E!remove_items(q.ea[i], cnt[i]).ram)])
        gone(a, b) == Total([i \in 1..(b - a + 1) |-> cnt[a + i - 1]])
        r == [q EXCEPT !.ea = Tuple([i \in 1..n |-> Tidy(E!remove_items(@[i], cnt[i]))]),
                       !.used = @ - freed,
                       !.esize = @ - gone(1, n),
                       !.ia = Tuple([j \in 1..Len(@) |-> [@[j] EXCEPT !.vals = SubSeq(@, cnt[n + j] + 1, Len(@))]]),
                       !.isize = @ - gone(n + 1, n + Len(q.ia))]
    IN  cleanup_internal_arrays(HintIf(freed > 0, cleanup_external_arrays(r)))

---------------------------------------------------------------------------
(* Internal arrays.                                                        *)

\* Memory is unsigned: taking more than is left wraps around.
Take(q, n) == Err([q EXCEPT !.mem = @ - n], q.mem < n, "memory")

\* A mutant: the array is merged, but stays where it is.
MergedStay(q, level) == q.ia

\* make_empty of the arrays of a level
MergedGone(q, level) ==
    Tuple([i \in 1..Len(q.ia) |-> IF q.ia[i].level = level THEN [q.ia[i] EXCEPT !.vals = <<>>] ELSE q.ia[i]])

RECURSIVE add_as_internal_array(_, _, _, _)
\* The arrays of a full level become one of the next level, if there is memory for it.
MergeLevel(q, level, same, size) ==
    IF q.ilevels[level] < q.cfg.ialevel \/ q.mem < IaMemory(size) THEN q
    ELSE IF level + 1 = Levels THEN Err(q, TRUE, "universe")
    ELSE add_as_internal_array(
            cleanup_internal_arrays(
                [Err(q, Total([i \in DOMAIN same |-> IaMemory(same[i].cap)]) < IaMemory(size), "level")
                    EXCEPT !.ia = MergedGone(q, level), !.isize = @ - size]),
            multiway_merge([i \in DOMAIN same |-> same[i].vals], size).out, size, level + 1)
CheckLevel(q, level) ==
    LET same == SelectSeq(q.ia, LAMBDA x : x.level = level /\ x.vals # <<>>)
    IN  MergeLevel(q, level, same, Total([i \in DOMAIN same |-> Len(same[i].vals)]))

\* vals is sorted; an extract buffer with elements is there while it is being converted, too
AppendArray(q, vals, cap, level) == [q EXCEPT !.ia = Append(@, [vals |-> vals, cap |-> cap, level |-> level])]
EnterArray(q) == IF q.eb # <<>> THEN add_internal_array(q, Len(q.ia) - 1) ELSE q
add_as_internal_array(q, vals, cap, level) ==
    CheckLevel(Take([EnterArray(AppendArray(q, vals, cap, level)) EXCEPT !.isize = @ + Len(vals), !.ilevels[level] = @ + 1],
                    IaMemory(cap)), level)

---------------------------------------------------------------------------
(* External arrays.                                                        *)

\* A new array of level 0 or of the merged ones is registered in the trees.
HintUnlessBulk(q, n) == IF q.bulk THEN q ELSE update_hint_tree(q, n)
RegisterArray(q, vals, level) ==
    LET n == Len(q.ea)
        a == [Err(q, vals = <<>>, "external-array-of-no-items") EXCEPT !.ea = Append(@, E!NewArray(vals, level))]
        b == [Growth(a, q.emin, n) EXCEPT !.emin = T!activate_without_replay(@, n), !.elevels[level] = @ + 1]
    IN  HintUnlessBulk([update_external_min_tree(b, n) EXCEPT !.hint = T!activate_without_replay(@, n)], n)

RECURSIVE PrehintAmong(_, _, _)
\* The tree of the arrays that are merged: the next one to hint, the last one among equals.
NextToHint(q, M) ==
    LET H == {i \in M : E!has_unhinted_em_data(q.ea[i])}
        v(i) == E!get_next_hintable_min(q.ea[i])
    IN  CHOOSE i \in H : \A j \in H : v(i) < v(j) \/ (v(i) = v(j) /\ i >= j)
Hintable(q, M) == \E i \in M : E!has_unhinted_em_data(q.ea[i])
PrehintAmong(q, M, n) ==
    IF n = 0 \/ ~Hintable(q, M) THEN q
    ELSE LET i == NextToHint(q, M)
         IN  PrehintAmong(EaSet([q EXCEPT !.hinted = @ + 1], i - 1, E!rebuild_hints_prehint_next_block(q.ea[i])), M, n - 1)

\* The part of a sequence a round may merge: below the first element still on disk.
RoundLimit(q, M, s) == IF Hintable(q, M) THEN Below(s, E!get_next_block_min(q.ea[NextToHint(q, M)])) ELSE s

\* A round of a merge: all free memory becomes buffers, the hints are placed anew and waited for.
RoundBuffers(q) == LET more == q.mem \div BlockMem IN [q EXCEPT !.reads = @ + more, !.mem = @ - more * BlockMem]
RoundHints(q, M) ==
    HintsFinished(PrehintAmong([HintsPrepared(q) EXCEPT !.hinted = 0], M, free_size_prefetch(q) + q.hinted))
RoundRead(q, M) ==
    LET n == Total([i \in 1..Len(q.ea) |-> IF i \in M THEN E!num_hinted_blocks(q.ea[i]) ELSE 0])
    IN  [q EXCEPT !.ea = Tuple([i \in 1..Len(@) |-> IF i \in M THEN E!wait_all_hinted_blocks(@[i]) ELSE @[i]]),
                  !.hinted = @ - n, !.used = @ + n]
RoundRemove(q, seqs) ==
    LET freed == Total([i \in 1..Len(q.ea) |-> Cardinality(q.ea[i].ram \ E!remove_items(q.ea[i], Len(seqs[i])).ram)])
    IN  resize_read_pool([q EXCEPT !.ea = Tuple([i \in 1..Len(@) |-> Tidy(E!remove_items(@[i], Len(seqs[i])))]),
                                   !.used = @ - freed])

RECURSIVE MergeRounds(_, _, _)
MergeRound(q, M, out, seqs) ==
    IF All(seqs) = 0 THEN [q |-> Err(RoundRemove(q, seqs), TRUE, "no-progress"), out |-> out]
    ELSE MergeRounds(RoundRemove(q, seqs), M, out \o multiway_merge(seqs, All(seqs)).out)
MergeFrom(q, M, out) ==
    MergeRound(q, M, out, Tuple([i \in 1..Len(q.ea) |-> IF i \in M THEN RoundLimit(q, M, E!Loaded(q.ea[i])) ELSE <<>>]))
MergeRounds(q, M, out) ==
    IF \A i \in M : q.ea[i].size = 0 THEN [q |-> q, out |-> out]
    ELSE MergeFrom(RoundRead(RoundHints(RoundBuffers(q), M), M), M, out)

RECURSIVE check_external_level(_, _, _)
NextLevel(q, level, force) == IF force \/ level = Levels - 1 THEN q ELSE check_external_level(q, level, FALSE)
MergedLevel(m, level, force) ==
    IF "no-progress" \in m.q.err THEN m.q
    ELSE NextLevel(RegisterArray(cleanup_external_arrays([m.q EXCEPT !.delayed = IF m.q.bulk THEN 0 ELSE @]), m.out, level),
                   level, force)
check_external_level(q, level, force) ==
    LET M == {i \in 1..Len(q.ea) : (q.ea[i].level = level \/ force) /\ q.ea[i].size # 0}
        size == Total([i \in 1..Len(q.ea) |-> IF i \in M THEN q.ea[i].size ELSE 0])
    IN  IF ~force /\ (q.elevels[level] < q.cfg.ealevel \/ q.mem < EaMemory(size)) THEN q
        ELSE MergedLevel(MergeRounds(Take(Err(q, ~force /\ Cardinality(M) # q.cfg.ealevel, "level-size"), EaMemory(size)), M, <<>>),
                         IF force THEN Levels - 1 ELSE level + 1, force)

\* A mutant: the hints stay as they are.
AfterFlushHinted(q) == resize_read_pool(q)

\* At the end of a flush: outside of a bulk the hints are placed anew.
HintsAfterFlush(q) == IF q.bulk THEN Err(q, Len(q.ea) - 1 < q.delayed, "delayed") ELSE rebuild_hint_tree(q)
AfterFlush(q) == HintsAfterFlush(resize_read_pool(q))

\* merge_external_arrays (force) and the end of flush_internal_arrays
CheckLevels(q, force) == AfterFlush(check_external_level(q, 0, force))

---------------------------------------------------------------------------
(* The extract buffer and the flushes.                                     *)

\* The vector moves to an internal array, what was extracted from it is not counted.
EbToIa(q) ==
    [add_as_internal_array(deactivate_extract_buffer([q EXCEPT !.full = FALSE]), q.eb, q.ebcap, 0)
        EXCEPT !.eb = <<>>, !.ebsize = 0, !.ebcap = 0]

\* A mutant: the internal arrays' size is added twice.
FlushedTwice(q, size) == [q EXCEPT !.isize = 0, !.esize = @ + size + size]

FlushedSize(q, size) == [q EXCEPT !.isize = 0, !.esize = @ + size]

EbToIaUnlessEmpty(q) == IF q.eb = <<>> THEN q ELSE EbToIa(q)

\* The internal arrays, which take mem, become an external one of level 0.
FlushArrays(q, mem) ==
    LET seqs == [i \in 1..Len(q.ia) |-> q.ia[i].vals]
        r == [RegisterArray(FlushedSize(q, q.isize), multiway_merge(seqs, q.isize).out, 0) EXCEPT !.ia = <<>>]
    IN  Take([cleanup_internal_arrays(r) EXCEPT !.ilevels = [l \in DOMAIN @ |-> 0], !.mem = @ + mem], EaMemory(q.isize))
FlushOrMerge(q, mem) ==
    LET little == mem < EaMemory(q.isize) + E!Ceil(ReadHalves, 2) * BlockMem
    IN  [q |-> IF little THEN q ELSE FlushArrays(q, mem), force |-> little]
FlushCounted(q) == FlushOrMerge(q, Total([i \in 1..Len(q.ia) |-> IaMemory(q.ia[i].cap)]))
\* The flushed arrays, and whether the external arrays are to be merged instead.
flush_internal_arrays(q) == FlushCounted(cleanup_internal_arrays(EbToIaUnlessEmpty(clear_internal_arrays(q))))

FreeOrErr(q, n) == Err(q, q.mem < n, "not-enough-memory")
FlushChecked(f, n) == FreeOrErr(CheckLevels(f.q, f.force), n)
flush_ia_ea_until_memory_free(q, n) ==
    IF q.mem >= n THEN q
    ELSE FlushChecked(IF q.isize > 0 THEN flush_internal_arrays(q) ELSE [q |-> q, force |-> TRUE], n)

convert_eb_into_ia(q) ==
    IF q.eb = <<>> THEN q
    ELSE EbToIaUnlessEmpty(flush_ia_ea_until_memory_free([q EXCEPT !.full = FALSE], IaMemory(q.ebsize)))

\* vector::resize of the buffer
EbResized(q, n) ==
    [q EXCEPT !.ebsize = n, !.ebcap = IF n <= @ THEN @ ELSE q.ebsize + Max({q.ebsize, n - q.ebsize})]

\* What precedes the next element that is not in memory.
Mergeable(q, s, i) == Below(s, E!get_next_block_min(q.ea[i + 1]))

calculate_merge_sequences(q) ==
    LET i == T!top(q.emin)
        s == Sequences(q)
    IN  IF i = T!Inv THEN s ELSE Tuple([k \in DOMAIN s |-> Mergeable(q, s[k], i)])

RECURSIVE RequestMore(_, _)
\* Blocks are waited for until enough elements are in memory or no more were hinted.
RequestMore(q, n) ==
    LET i == T!top(q.emin)
    IN  IF All(calculate_merge_sequences(q)) >= n \/ i = T!Inv \/ E!num_hinted_blocks(q.ea[i + 1]) = 0 THEN q
        ELSE RequestMore(wait_next_ea_blocks(q, i), n)

\* n elements of the sequences move to the buffer
ExtractFrom(q, seqs, n) ==
    LET m == multiway_merge(seqs, n)
        c == [EbResized(Err(q, n = 0, "nothing-to-extract"), n) EXCEPT !.eb = m.out]
    IN  IF n = 0 THEN c ELSE update_extract_buffer(advance_arrays(c, m.cnt))
ExtractAtMost(q, seqs, max) == ExtractFrom(q, seqs, Min({All(seqs), max}))
RefillFromArrays(q, max) == ExtractAtMost(q, calculate_merge_sequences(q), max)
RefillCleaned(q, minimum, max) ==
    IF q.ea = <<>> /\ q.ia = <<>> THEN deactivate_extract_buffer(EbResized(q, 0))
    ELSE RefillFromArrays(RequestMore(q, minimum), max)
refill_extract_buffer(q, minimum, maximum) ==
    RefillCleaned(cleanup_internal_arrays(clear_internal_arrays(cleanup_external_arrays(Err(q, q.eb # <<>>, "buffer")))),
                  minimum, IF maximum = 0 THEN q.cfg.limit ELSE maximum)

HeapToIa(q, p, h) ==
    [add_as_internal_array([deactivate_heap(q, p) EXCEPT !.heap[p] = <<>>], h, q.cfg.cap, 0) EXCEPT !.hsize = @ - Len(h)]
flush_insertion_heap(q, p) ==
    LET h == Sorted(q.heap[p])
    IN  HeapToIa(flush_ia_ea_until_memory_free([q EXCEPT !.heap[p] = h], IaMemory(Len(h))), p, h)

HeapsToIa(q) ==
    LET seqs == [i \in 1..q.cfg.heaps |-> Sorted(q.heap[i - 1])]
    IN  add_as_internal_array(Err(q, q.hsize = 0, "no-heap"), multiway_merge(seqs, q.hsize).out, q.hsize, 0)
flush_insertion_heaps(q) ==
    clear_heaps([HeapsToIa(flush_ia_ea_until_memory_free(q, q.cfg.heaps * q.cfg.cap * Unit))
                    EXCEPT !.heap = [p \in DOMAIN @ |-> <<>>], !.hsize = 0])

\* The items of heap p before the limit, as long as its first one is.
BackOf(q, p, limit) ==
    IF q.heap[p] = <<>> \/ Head(q.heap[p]) >= limit THEN <<>> ELSE Below(q.heap[p], limit)

\* What stays in heap p.
HeapPlayed(q, p) == IF q.heap[p] = <<>> THEN deactivate_heap(q, p) ELSE update_heap(q, p)
CutHeaps(q, limit) ==
    FoldLeft(LAMBDA r, p : HeapPlayed([r EXCEPT !.heap[p] = SelectSeq(@, LAMBDA y : y >= limit)], p),
             q, [i \in 1..q.cfg.heaps |-> i - 1])
flush_insertion_heaps_with_limit(q, limit) ==
    LET back == FoldLeft(\o, <<>>, [i \in 1..q.cfg.heaps |-> BackOf(q, i - 1, limit)])
    IN  IF back = <<>> THEN q
        ELSE [add_as_internal_array(CutHeaps(flush_ia_ea_until_memory_free(q, Len(back) * Unit), limit), Sorted(back), Len(back), 0)
                EXCEPT !.hsize = @ - Len(back)]

---------------------------------------------------------------------------
(* Bulk extraction up to a limit.                                          *)

RECURSIVE BlocksUpTo(_, _)
\* The blocks that may have elements before the limit, or the limit that is possible without them.
BlocksUpTo(q, limit) ==
    LET i == T!top(q.emin)
        next == E!get_next_block_min(q.ea[i + 1])
    IN  IF i = T!Inv THEN [q |-> q, limit |-> limit, full |-> TRUE]
        ELSE IF limit < next THEN [q |-> q, limit |-> limit, full |-> TRUE]
        ELSE IF E!num_hinted_blocks(q.ea[i + 1]) = 0 THEN [q |-> q, limit |-> next, full |-> FALSE]
        ELSE BlocksUpTo(wait_next_ea_blocks(q, i), limit)

HasFullRange(b, all, max) == b.full /\ all <= max

\* The queue without the elements, the elements, and whether these are all before the limit.
HeapsBelow(q, limit) == IF q.hsize > 0 THEN flush_insertion_heaps_with_limit(q, limit) ELSE q
NoEmptyArray(q) == Err(q, \E i \in 1..Len(q.ia) : q.ia[i].vals = <<>>, "empty-array")
ExtractBelow(w, seqs, max) ==
    LET m == multiway_merge(seqs, Min({All(seqs), max}))
    IN  [q |-> advance_arrays(w.q, m.cnt), out |-> m.out, full |-> HasFullRange(w, All(seqs), max)]
BulkBelow(w, max) ==
    LET s == Sequences(w.q)
    IN  ExtractBelow(w, Tuple([k \in DOMAIN s |-> Below(s[k], w.limit)]), max)
bulk_pop_limit(q, limit, max) ==
    BulkBelow(BlocksUpTo(NoEmptyArray(HeapsBelow(convert_eb_into_ia(q), limit)), limit), max)

\* limit_begin, limit_top and limit_pop: the extract buffer is what a bulk pop gives
LimitBuffer(b) ==
    LET r == [b.q EXCEPT !.eb = b.out, !.ebsize = Len(b.out), !.ebcap = Len(b.out), !.full = b.full]
    IN  IF b.out = <<>> THEN deactivate_extract_buffer(r) ELSE update_extract_buffer(r)
LimitRefill(q) == LimitBuffer(bulk_pop_limit(q, q.limit, q.cfg.limit))

---------------------------------------------------------------------------
(* A queue and its users.                                                  *)

NewQueue(c) ==
    [cfg |-> c, heap |-> [p \in 0..(c.heaps - 1) |-> <<>>], add |-> [p \in 0..(c.heaps - 1) |-> 0],
     ia |-> <<>>, ea |-> <<>>, eb |-> <<>>, ebsize |-> 0, ebcap |-> 0,
     hsize |-> 0, isize |-> 0, esize |-> 0, mem |-> c.mem, reads |-> 0, hinted |-> 0, used |-> 0,
     ilevels |-> [l \in 0..(Levels - 1) |-> 0], elevels |-> [l \in 0..(Levels - 1) |-> 0],
     head |-> T!winner_tree(3), heapt |-> T!winner_tree(c.heaps), iat |-> T!winner_tree(2),
     emin |-> T!winner_tree(4), hint |-> T!winner_tree(4),
     bulk |-> FALSE, delayed |-> 0, limit |-> Null, full |-> FALSE, eager |-> FALSE, right |-> TRUE, err |-> {}, n |-> 0]

size(q) == q.hsize + q.isize + q.esize + Len(q.eb)

InitObj == {NewQueue(c) : c \in Configs}
Init == obj \in InitObj /\ ref = [k \in 1..Max(ToSet(obj.cfg.order)) |-> 0]

Present == {k \in DOMAIN ref : ref[k] > 0}
Idle == ~obj.bulk /\ obj.err = {}
InBulk == obj.bulk /\ obj.limit = Null /\ obj.err = {}
InLimit == obj.limit # Null /\ obj.err = {}
More == obj.n < Len(obj.cfg.order)
NextKey == obj.cfg.order[obj.n + 1]

\* How the disks go about the reads of this call.
Disks == {[obj EXCEPT !.eager = e] : e \in (IF obj.hinted > 1 THEN BOOLEAN ELSE {FALSE})}
Wild(q) == \E t \in {q.head, q.heapt, q.iat, q.emin, q.hint} : t.wild
Become(q, right) ==
    obj' = [Err(q, Wild(q) /\ "grow" \notin q.err, "stale") EXCEPT !.eager = FALSE, !.right = right]
Pushes(q) == Become([q EXCEPT !.n = @ + 1], TRUE) /\ ref' = [ref EXCEPT ![NextKey] = @ + 1]

HeapPush(q, k, p, equal) ==
    LET r == [q EXCEPT !.heap[p] = Sorted(Append(@, k)), !.hsize = @ + 1]
    IN  IF Head(r.heap[p]) = k /\ ~equal THEN update_heap(r, p) ELSE r
push(q, k, p) ==
    IF Len(q.heap[p]) >= q.cfg.cap THEN HeapPush(flush_insertion_heap(q, p), k, p, FALSE)
    ELSE HeapPush(q, k, p, k \in ToSet(q.heap[p]))

Push == \E p \in DOMAIN obj.heap : Idle /\ More /\ Pushes(push(obj, NextKey, p))

Refilled(q) == IF q.eb = <<>> THEN refill_extract_buffer(q, Min({q.cfg.limit, q.isize + q.esize}), 0) ELSE q

TopOf(q) ==
    LET t == MinimaTop(q)
    IN  CASE t[1] = HEAP -> Head(q.heap[t[2]]) [] t[1] = IA -> Head(q.ia[t[2] + 1].vals) [] OTHER -> Head(q.eb)

HasTop(q) ==
    LET t == MinimaTop(q)
    IN  CASE t[1] = HEAP -> q.heap[t[2]] # <<>>
          [] t[1] = IA -> t[2] + 1 \in DOMAIN q.ia /\ q.ia[t[2] + 1].vals # <<>>
          [] t[1] = EB -> q.eb # <<>>
          [] OTHER -> FALSE

PopFrom(q) ==
    LET t == MinimaTop(q)
        h == [q EXCEPT !.heap[t[2]] = Tail(@), !.hsize = @ - 1]
        a == [q EXCEPT !.ia = [@ EXCEPT ![t[2] + 1].vals = Tail(@)], !.isize = @ - 1]
        b == [q EXCEPT !.eb = Tail(@)]
    IN  CASE t[1] = HEAP -> (IF h.heap[t[2]] # <<>> THEN update_heap(h, t[2]) ELSE deactivate_heap(h, t[2]))
          [] t[1] = IA -> (IF a.ia[t[2] + 1].vals # <<>> THEN update_internal_array(a, t[2]) ELSE deactivate_internal_array(a, t[2]))
          [] OTHER -> (IF b.eb # <<>> THEN update_extract_buffer(b) ELSE deactivate_extract_buffer(b))

Top ==
    /\ Idle /\ Present # {}
    /\ \E r \in {Refilled(q) : q \in Disks} : Become(r, HasTop(r) /\ TopOf(r) = Min(Present))
    /\ UNCHANGED ref

Pop ==
    /\ Idle /\ Present # {}
    /\ \E r \in {Refilled(q) : q \in Disks} :
        IF HasTop(r) THEN Become(PopFrom(r), TopOf(r) = Min(Present)) ELSE Become(r, FALSE)
    /\ ref' = [ref EXCEPT ![Min(Present)] = @ - 1]

\* The elements that a bulk pop hands out are the first ones there are.
Without(s) == [k \in DOMAIN ref |-> ref[k] - Cardinality({i \in DOMAIN s : s[i] = k})]
FirstOnes(s) ==
    /\ \A i \in 1..(Len(s) - 1) : s[i] <= s[i + 1]
    /\ \A k \in DOMAIN ref : Without(s)[k] >= 0
    /\ s # <<>> => \A k \in 1..(Last(s) - 1) : Without(s)[k] = 0

HeapsFlushed(q) == IF q.hsize > 0 THEN flush_insertion_heaps(q) ELSE q
bulk_pop(q, n) == refill_extract_buffer(convert_eb_into_ia(HeapsFlushed(q)), n, n)
BulkPop == \E max \in (IF Zero THEN 0 ELSE 1)..(obj.cfg.limit - 1) :
    /\ Idle /\ Present # {}
    /\ \E r \in {bulk_pop(q, Min({max, size(q)})) : q \in Disks} :
        /\ Become(deactivate_extract_buffer([r EXCEPT !.eb = <<>>, !.ebsize = 0, !.ebcap = 0]),
                  FirstOnes(r.eb) /\ Len(r.eb) <= max /\ r.eb # <<>>)
        /\ ref' = IF FirstOnes(r.eb) THEN Without(r.eb) ELSE ref

BulkPopLimit == \E limit \in obj.cfg.limits :
    /\ Idle /\ Present # {}
    /\ \E b \in {bulk_pop_limit(q, limit, q.cfg.limit) : q \in Disks} :
        LET left == {k \in DOMAIN ref : k < limit /\ Without(b.out)[k] > 0}
        IN  /\ Become(b.q, FirstOnes(b.out) /\ ToSet(b.out) \subseteq 1..(limit - 1) /\ (b.full => left = {}))
            /\ ref' = IF FirstOnes(b.out) THEN Without(b.out) ELSE ref

BulkBegun(q) == [q EXCEPT !.bulk = TRUE, !.delayed = Len(q.ea), !.add = [p \in DOMAIN @ |-> 0]]

bulk_push(q, k, p) ==
    [IF Len(q.heap[p]) >= q.cfg.cap THEN flush_insertion_heap([q EXCEPT !.hsize = @ + q.add[p], !.add[p] = 0], p) ELSE q
        EXCEPT !.heap[p] = Append(@, k), !.add[p] = @ + 1]

HintIfDelayed(q) == IF q.delayed # Len(q.ea) THEN rebuild_hint_tree(q) ELSE q
BulkCounted(q) ==
    [q EXCEPT !.bulk = FALSE, !.heap = [p \in DOMAIN @ |-> Sorted(@[p])],
              !.hsize = @ + Total([i \in 1..q.cfg.heaps |-> q.add[i - 1]]), !.add = [p \in DOMAIN @ |-> 0]]

\* A mutant: the heaps do not play again.
BulkEndedShort(q) == HintIfDelayed(BulkCounted(q))

BulkEnded(q) ==
    HintIfDelayed(FoldLeft(LAMBDA r, p : IF r.heap[p] # <<>> THEN update_heap(r, p) ELSE r,
                           BulkCounted(q), [i \in 1..q.cfg.heaps |-> i - 1]))

BulkPushBegin == Idle /\ Become(BulkBegun(obj), TRUE) /\ UNCHANGED ref
BulkPush == \E p \in DOMAIN obj.heap : InBulk /\ More /\ Pushes(bulk_push(obj, NextKey, p))
BulkPushEnd == InBulk /\ Become(BulkEnded(obj), TRUE) /\ UNCHANGED ref

LimitBegin == \E q \in Disks, limit \in obj.cfg.limits :
    /\ Idle
    /\ Become(BulkBegun(LimitRefill([q EXCEPT !.limit = limit])), TRUE)
    /\ UNCHANGED ref

LimitPush == \E p \in DOMAIN obj.heap :
    InLimit /\ More /\ obj.limit <= NextKey /\ Pushes(bulk_push(obj, NextKey, p))

Before == {k \in Present : k < obj.limit}
Next1 == IF Before = {} THEN obj.limit ELSE Min(Before)

LimitTop ==
    /\ InLimit
    /\ \E r \in {IF q.eb # <<>> \/ q.full THEN q ELSE LimitRefill(q) : q \in Disks} :
        Become(r, IF r.eb # <<>> THEN Head(r.eb) = Next1 ELSE obj.full /\ obj.limit = Next1)
    /\ UNCHANGED ref

\* "only works correctly while elements < L"
LimitPop == \E q \in Disks :
    LET b == [q EXCEPT !.eb = Tail(@)]
    IN  /\ InLimit /\ Before # {} /\ q.eb # <<>>
        /\ Become(IF b.eb = <<>> /\ ~b.full THEN LimitRefill(b) ELSE b, Head(q.eb) = Next1)
        /\ ref' = [ref EXCEPT ![Next1] = @ - 1]

LimitEnd == InLimit /\ Become([BulkEnded(obj) EXCEPT !.limit = Null], TRUE) /\ UNCHANGED ref

Next ==
    \/ Push \/ Top \/ Pop \/ BulkPop \/ BulkPopLimit
    \/ BulkPushBegin \/ BulkPush \/ BulkPushEnd
    \/ LimitBegin \/ LimitPush \/ LimitTop \/ LimitPop \/ LimitEnd

Spec == Init /\ [][Next]_vars

TypeOK == obj.hsize \in Nat /\ obj.isize \in Nat /\ obj.esize \in Nat /\ obj.cfg \in Configs

Places(q) ==
    [i \in 1..q.cfg.heaps |-> q.heap[i - 1]] \o [i \in 1..Len(q.ia) |-> q.ia[i].vals]
    \o [i \in 1..Len(q.ea) |-> SubSeq(q.ea[i].vals, q.ea[i].index + 1, Len(q.ea[i].vals))] \o <<q.eb>>
Contents(q) == FoldLeft(\o, <<>>, Places(q))

\* What the queue holds is what was pushed and not extracted, and what every extraction hands out
\* are the first elements there were.
ParallelQueueHolds == obj.err = {} =>
    /\ obj.right
    /\ LET s == Contents(obj) IN \A k \in DOMAIN ref : Cardinality({i \in DOMAIN s : s[i] = k}) = ref[k]

\* check_invariants: the counters agree with the arrays, the buffers and the memory they count
CountersExact == obj.err = {} =>
    LET ia == obj.ia
        ea == obj.ea
        sum(s, f(_)) == Total([i \in DOMAIN s |-> f(s[i])])
    IN  /\ obj.hinted = sum(ea, E!num_hinted_blocks)
        /\ obj.used = sum(ea, E!num_used_blocks)
        /\ obj.used = obj.reads - free_size_prefetch(obj) - obj.hinted
        /\ ~obj.bulk => obj.hsize = Total([i \in 1..obj.cfg.heaps |-> Len(obj.heap[i - 1])])
        /\ obj.isize = sum(ia, LAMBDA a : Len(a.vals))
        /\ obj.esize = sum(ea, LAMBDA e : e.size)
        /\ \A l \in 0..(Levels - 1) : /\ obj.ilevels[l] = Cardinality({i \in DOMAIN ia : ia[i].level = l})
                                      /\ obj.elevels[l] = Cardinality({i \in DOMAIN ea : ea[i].level = l})
        /\ obj.cfg.mem = obj.mem + obj.reads * BlockMem + sum(ia, LAMBDA a : IaMemory(a.cap))
                         + sum(ea, LAMBDA e : EaMemory(Len(e.vals)))

Winner(t, val) == IF DOMAIN val = {} THEN T!empty(t) ELSE T!top(t) \in DOMAIN val /\ \A i \in DOMAIN val : val[T!top(t)] <= val[i]

\* The trees show the array whose next block, on disk or to be hinted, comes first.  Outside of a
\* bulk every free buffer is put to use: it is hinted unless there is nothing left to hint.
TreesRight == obj.err = {} =>
    /\ Winner(obj.emin, EminVal(obj))
    /\ ~obj.bulk => Winner(obj.hint, HintVal(obj))
    /\ ~obj.bulk /\ DOMAIN HintVal(obj) # {} => free_size_prefetch(obj) = 0

\* No assertion of the queue fails but those that are known to, no tree compares what is not there.
OnlyKnownFail == obj.err \subseteq Known
===========================================================================
