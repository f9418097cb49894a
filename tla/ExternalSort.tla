---------------------------- MODULE ExternalSort ----------------------------
(* stxxl::sort and stxxl::ksort on a range of a vector: in memory if it     *)
(* fits; else the partly covered blocks at the ends of the range are        *)
(* replaced by padded copies, the blocks are sorted into runs, the runs     *)
(* merged, and the blocks of the vector replaced by those of the result.    *)
(* How the reads and writes of a phase overlap is the matter of             *)
(* RunFormation and BlockStreams.                                           *)
(*                                                                          *)
(* obj.bids is where the blocks of the vector are, obj.disk what the blocks *)
(* contain: <<"file", i>> belongs to the file a vector is mapped to,        *)
(* <<"disk", i>> is managed by the block manager.                           *)
EXTENDS SortKernels

CONSTANTS Calls,     \* records of what is sorted: see Begin
          MinKey, KeyBits,
          ElemSize, RefSize, \* sizeof(value_type), sizeof(type_key)
          L2Keys,    \* references that fit into the L2 cache
          Unrolled,  \* loser trees of up to 2^Unrolled leaves are unrolled
          May        \* calls the code does not stand that may be made

VARIABLES obj, ref

B == obj.call.size
first == obj.call.first
last == obj.call.last
FirstBlock == (first \div B) + 1
FirstOffset == first % B
LastBlock == (last \div B) + 1
LastOffset == last % B
NoBid == <<"none", 0>>
JunkBlock == [i \in 1..B |-> <<0 - 1, 0 - i>>]
Read(o, bid) == IF bid \in DOMAIN o.disk THEN o.disk[bid] ELSE JunkBlock
Managed(bid) == bid[1] = "disk"

-----------------------------------------------------------------------------
(* The block manager and the disks.                                         *)

NewBids(o, n) == [i \in 1..n |-> <<"disk", o.fresh + i>>]

Write(o, bid, block) ==
    [o EXCEPT !.disk = [b \in DOMAIN @ \cup {bid} |-> IF b = bid THEN block ELSE @[b]]]

WriteAll(o, bids, blocks) ==
    LET f[i \in 0..Len(bids)] == IF i = 0 THEN o
                                 ELSE Write(f[i - 1], bids[i], IF i \in DOMAIN blocks THEN blocks[i] ELSE JunkBlock)
    IN  f[Len(bids)]

NewBlocks(o, n) == [WriteAll(o, NewBids(o, n), <<>>) EXCEPT !.fresh = o.fresh + n]

(* A block that is not managed is left alone.                               *)
DeleteBlocks(o, bids) ==
    LET managed == {b \in bids : Managed(b)}
    IN  [o EXCEPT !.disk = [b \in DOMAIN @ \ managed |-> @[b]],
                  !.bad = @ \/ ~(managed \subseteq DOMAIN o.disk)]

-----------------------------------------------------------------------------
(* Begin: a vector of size elements per block holds the keys, mapped to a   *)
(* file or not; [first, last) is sorted with memory for m blocks.           *)

Initial(c) ==
    LET n == Len(c.keys) \div c.size
        bid(i) == <<IF c.file THEN "file" ELSE "disk", i>>
        block(i) == [j \in 1..c.size |-> <<c.keys[((i - 1) * c.size) + j], ((i - 1) * c.size) + j>>]
    IN  [call |-> c, pc |-> "begin", bids |-> [i \in 1..n |-> bid(i)],
         disk |-> [b \in {bid(i) : i \in 1..n} |-> block(b[2])], fresh |-> n, bad |-> FALSE,
         saved |-> <<>>, input |-> <<>>, runs |-> <<>>, outs |-> <<>>, factor |-> 0, merged |-> 0]

Init ==
    /\ \E c \in Calls :
        /\ (c.first % c.size # 0 /\ c.last % c.size = 0 /\ c.last < Len(c.keys))
             => "past_last" \in May
        /\ (c.first % c.size # 0 /\ c.file) => "file_first" \in May
        /\ obj = Initial(c)
    /\ ref = Flat([i \in DOMAIN obj.bids |-> obj.disk[obj.bids[i]]])

(* All blocks of the range are read, sorted and written back.               *)
stl_in_memory_sort(o) ==
    LET n == LastBlock - FirstBlock + (IF LastOffset # 0 THEN 1 ELSE 0)
        bids == SubSeq(o.bids, FirstBlock, FirstBlock + n - 1)
        all == Flat([i \in DOMAIN bids |-> Read(o, bids[i])])
        end == (n * B) - (IF LastOffset # 0 THEN B - LastOffset ELSE 0)
        sorted == SubSeq(all, 1, FirstOffset) \o Sort(SubSeq(all, FirstOffset + 1, end))
                    \o SubSeq(all, end + 1, n * B)
    IN  WriteAll(o, bids, Cut(sorted, B))

FitsInMemory == last - first < obj.call.m * B

sort_in_memory ==
    /\ obj.pc = "begin" /\ obj.call.alg = "sort" /\ FitsInMemory
    /\ obj' = [stl_in_memory_sort(obj) EXCEPT !.pc = "done"]
    /\ UNCHANGED ref

ksort_in_memory ==
    /\ obj.pc = "begin" /\ obj.call.alg = "ksort" /\ FitsInMemory
    /\ obj' = [stl_in_memory_sort(obj) EXCEPT !.pc = "done"]
    /\ UNCHANGED ref

sort_bad_parameter ==
    /\ obj.pc = "begin" /\ obj.call.alg = "sort" /\ ~FitsInMemory /\ obj.call.m < 2
    /\ obj' = [obj EXCEPT !.pc = "thrown"]
    /\ UNCHANGED ref

-----------------------------------------------------------------------------
(* The ends of the range: the elements of the first block that lie before   *)
(* it become minimal ones, those of the last that lie behind it maximal.    *)

Padded(block, pad(_), value) == [j \in 1..B |-> IF pad(j) THEN <<value, 0>> ELSE block[j]]

PadEnd(o, b, block) ==
    LET bid == NewBids(o, 1)[1]
    IN  [Write(NewBlocks(o, 1), bid, block) EXCEPT !.saved = Append(@, o.bids[b]), !.bids[b] = bid]

PadFirst(o) ==
    PadEnd(o, FirstBlock, Padded(Read(o, o.bids[FirstBlock]), LAMBDA j : j <= FirstOffset, MinKey))
PadLast(o) ==
    PadEnd(o, LastBlock, Padded(Read(o, o.bids[LastBlock]), LAMBDA j : j > LastOffset, MaxKey))

SortBlocks(o, n) ==
    [o EXCEPT !.pc = "runs", !.input = SubSeq(o.bids, FirstBlock, FirstBlock + n - 1)]

External(alg) == obj.pc = "begin" /\ obj.call.alg = alg /\ ~FitsInMemory /\ obj.call.m >= 2
Unaligned(f, l) == (FirstOffset # 0) = f /\ (LastOffset # 0) = l

sort_both ==
    /\ External("sort") /\ Unaligned(TRUE, TRUE)
    /\ obj' = SortBlocks(PadLast(PadFirst(obj)), LastBlock - FirstBlock + 1)
    /\ UNCHANGED ref
sort_first ==
    /\ External("sort") /\ Unaligned(TRUE, FALSE)
    /\ obj' = SortBlocks(PadFirst(obj), LastBlock - FirstBlock)
    /\ UNCHANGED ref
sort_last ==
    /\ External("sort") /\ Unaligned(FALSE, TRUE)
    /\ obj' = SortBlocks(PadLast(obj), LastBlock - FirstBlock + 1)
    /\ UNCHANGED ref
sort_aligned ==
    /\ External("sort") /\ Unaligned(FALSE, FALSE)
    /\ obj' = SortBlocks(obj, LastBlock - FirstBlock)
    /\ UNCHANGED ref
ksort_both ==
    /\ External("ksort") /\ Unaligned(TRUE, TRUE)
    /\ obj' = SortBlocks(PadLast(PadFirst(obj)), LastBlock - FirstBlock + 1)
    /\ UNCHANGED ref
ksort_first ==
    /\ External("ksort") /\ Unaligned(TRUE, FALSE)
    /\ obj' = SortBlocks(PadFirst(obj), LastBlock - FirstBlock)
    /\ UNCHANGED ref
ksort_last ==
    /\ External("ksort") /\ Unaligned(FALSE, TRUE)
    /\ obj' = SortBlocks(PadLast(obj), LastBlock - FirstBlock + 1)
    /\ UNCHANGED ref
ksort_aligned ==
    /\ External("ksort") /\ Unaligned(FALSE, FALSE)
    /\ obj' = SortBlocks(obj, LastBlock - FirstBlock)
    /\ UNCHANGED ref

-----------------------------------------------------------------------------
(* Runs of m2 blocks, the last one maybe shorter.                           *)

RunLength(o) ==
    IF o.call.alg = "sort" THEN o.call.m \div 2
    ELSE (div_ceil(o.call.m, 2) * ElemSize) \div (ElemSize + RefSize)

RadixSorted(o, a) ==
    LET n == RunLength(o) * B
        logK1 == ilog2_ceil(IF n >= L2Keys THEN n \div L2Keys ELSE 2)
        logN == CHOOSE l \in 0..10 : 2^l <= n /\ n < 2^(l + 1)
    IN  RadixSort(a, KeyBits, logK1, logN - logK1 - 1)

Entries(bids, blocks) == [i \in DOMAIN bids |-> [bid |-> bids[i], value |-> blocks[i][1]]]

CreateRuns(o, sorted(_)) ==
    LET m2 == RunLength(o)
        n == Len(o.input)
        part(k) == SubSeq(o.input, ((k - 1) * m2) + 1, Min({k * m2, n}))
        blocks(k) == Cut(sorted(Flat([i \in DOMAIN part(k) |-> Read(o, part(k)[i])])), B)
        out(k) == SubSeq(NewBids(o, n), ((k - 1) * m2) + 1, Min({k * m2, n}))
        nruns == (n \div m2) + (IF n % m2 # 0 THEN 1 ELSE 0)
        written == WriteAll(NewBlocks(o, n), NewBids(o, n), Flat([k \in 1..nruns |-> blocks(k)]))
    IN  [DeleteBlocks(written, ToSet(o.input)) EXCEPT
            !.runs = [k \in 1..nruns |-> Entries(out(k), blocks(k))],
            !.factor = optimal_merge_factor(nruns, o.call.m), !.pc = "phase"]

sort_create_runs ==
    /\ obj.pc = "runs" /\ obj.call.alg = "sort"
    /\ obj' = CreateRuns(obj, Sort)
    /\ UNCHANGED ref

ksort_create_runs ==
    /\ obj.pc = "runs" /\ obj.call.alg = "ksort"
    /\ obj' = CreateRuns(obj, LAMBDA a : RadixSorted(obj, a))
    /\ UNCHANGED ref

-----------------------------------------------------------------------------
(* A merge phase: lay out the new runs, then merge factor runs at a time.   *)

Group(o, j) == SubSeq(o.runs, ((j - 1) * o.factor) + 1, Min({j * o.factor, Len(o.runs)}))
Groups(o) == div_ceil(Len(o.runs), o.factor)
BlocksOf(o, j) == MapThenSumSet(LAMBDA k : Len(Group(o, j)[k]), DOMAIN Group(o, j))

BlocksInFirst(o) == BlocksOf(o, 1)
BlocksInNewRun(o) == BlocksOf(o, Groups(o))

(* The last phase may write to the blocks of the file that is sorted.       *)
ReuseNone(o) == FALSE

ReuseInput(o) ==
    Groups(o) = 1 /\ BlocksInNewRun(o) = Len(o.input) /\ ~Managed(o.input[1])

ReusedBids(o) ==
    LET n == Len(o.input)
        f == o.input[1]
        l == o.input[n]
        o1 == IF Managed(f) THEN NewBlocks(o, 1) ELSE o
        o2 == IF Managed(l) THEN NewBlocks(o1, 1) ELSE o1
        bids == [i \in 1..n |-> IF i = n /\ Managed(l) THEN NewBids(o1, 1)[1]
                               ELSE IF i = 1 /\ Managed(f) THEN NewBids(o, 1)[1] ELSE o.input[i]]
    IN  [o2 EXCEPT !.outs = <<bids>>]

Interleaved(o) ==
    LET n == Len(o.input)
        w == Groups(o)
        bid(j, i) == LET at == {p \in 0..(n - 1) :
                                runs2bid_array_adaptor2(p, w, BlocksInNewRun(o)) = <<j, i>>}
                     IN  IF at = {} THEN NoBid ELSE NewBids(o, n)[Max(at) + 1]
    IN  [NewBlocks(o, n) EXCEPT
            !.outs = [j \in 1..w |-> [i \in 1..BlocksOf(o, j) |-> bid(j, i)]]]

NewPhase(o) ==
    [(IF ReuseInput(o) THEN ReusedBids(o) ELSE Interleaved(o)) EXCEPT !.pc = "merge", !.merged = 0]

sort_phase ==
    /\ obj.pc = "phase" /\ Len(obj.runs) > 1 /\ obj.call.alg = "sort"
    /\ obj' = NewPhase(obj)
    /\ UNCHANGED ref

ksort_phase ==
    /\ obj.pc = "phase" /\ Len(obj.runs) > 1 /\ obj.call.alg = "ksort"
    /\ obj' = NewPhase(obj)
    /\ UNCHANGED ref

Consume(o, runs) ==
    ConsumeSequence([i \in DOMAIN Flat(runs) |->
        [value |-> Flat(runs)[i].value, elem |-> Read(o, Flat(runs)[i].bid)]])

NativeMerge(o, runs, n) ==
    multi_merge(loser_tree(Consume(o, runs), Len(runs)), n * B, Unrolled).out

ParallelMerge(o, runs, n) ==
    Iterate(LAMBDA p : ParallelFill(p, B, (n * B) - Len(p.out)), n,
            pull_blocks(Consume(o, runs), Len(runs))).out

(* merge_runs: write the result, give back the blocks of the merged runs.   *)
MergeRuns(o, merged) ==
    LET j == o.merged + 1
        bids == o.outs[j]
        blocks == [i \in DOMAIN bids |-> IF i * B <= Len(merged) THEN Cut(merged, B)[i] ELSE JunkBlock]
        inputs == {Flat(Group(o, j))[i].bid : i \in DOMAIN Flat(Group(o, j))}
        p == [DeleteBlocks(WriteAll(o, bids, blocks), inputs) EXCEPT
                !.outs[j] = Entries(bids, blocks), !.merged = j]
    IN  IF j < Groups(o) THEN p
        ELSE [p EXCEPT !.pc = "phase", !.runs = p.outs, !.outs = <<>>]

Merging(alg, par) == obj.pc = "merge" /\ obj.call.alg = alg /\ obj.call.par = par
Next1 == Group(obj, obj.merged + 1)

sort_merge_runs ==
    /\ Merging("sort", FALSE)
    /\ obj' = MergeRuns(obj, NativeMerge(obj, Next1, BlocksOf(obj, obj.merged + 1)))
    /\ UNCHANGED ref
sort_parallel_merge_runs ==
    /\ Merging("sort", TRUE)
    /\ obj' = MergeRuns(obj, ParallelMerge(obj, Next1, BlocksOf(obj, obj.merged + 1)))
    /\ UNCHANGED ref
ksort_merge_runs ==
    /\ Merging("ksort", FALSE)
    /\ obj' = MergeRuns(obj, NativeMerge(obj, Next1, BlocksOf(obj, obj.merged + 1)))
    /\ UNCHANGED ref

-----------------------------------------------------------------------------
(* The elements of the padded blocks go back to the saved ones, and the     *)
(* vector gets the other blocks of the result.                              *)

Result == obj.runs[1]

RestoreFirstKept(o) ==
    LET sorted == Read(o, Result[1].bid)
        block == [j \in 1..B |-> IF j > FirstOffset THEN sorted[j] ELSE Read(o, o.saved[1])[j]]
    IN  [Write(o, o.saved[1], block) EXCEPT !.bids[FirstBlock] = o.saved[1]]

RestoreFirst(o) ==
    LET mine == Read(o, o.saved[1])
        sorted == Read(o, Result[1].bid)
        block == [j \in 1..B |-> IF j > FirstOffset THEN sorted[j] ELSE mine[j]]
    IN  [DeleteBlocks(Write(o, o.saved[1], block), {Result[1].bid}) EXCEPT
            !.bids[FirstBlock] = o.saved[1]]

RestoreLastWhole(o) ==
    LET bid == o.saved[Len(o.saved)]
    IN  [DeleteBlocks(Write(o, bid, Read(o, Result[Len(Result)].bid)), {Result[Len(Result)].bid})
            EXCEPT !.bids[LastBlock] = bid]

RestoreLast(o) ==
    LET bid == o.saved[Len(o.saved)]
        mine == Read(o, bid)
        sorted == Read(o, Result[Len(Result)].bid)
        block == [j \in 1..B |-> IF j <= LastOffset THEN sorted[j] ELSE mine[j]]
    IN  [DeleteBlocks(Write(o, bid, block), {Result[Len(Result)].bid}) EXCEPT
            !.bids[LastBlock] = bid]

(* Blocks f..l of the vector, from entry i of the result on; reading behind *)
(* the result yields no block.                                              *)
ReplaceBids(o, f, l, i) ==
    [o EXCEPT !.bids = [b \in DOMAIN @ |->
        IF b \notin f..l THEN @[b]
        ELSE IF b - f + i \in DOMAIN Result THEN Result[b - f + i].bid ELSE NoBid]]

Finish(alg, f, l) ==
    obj.pc = "phase" /\ Len(obj.runs) = 1 /\ obj.call.alg = alg /\ Unaligned(f, l)

RestoreBoth(o) == ReplaceBids(RestoreLast(RestoreFirst(o)), FirstBlock + 1, LastBlock - 1, 2)
RestoreFirstOnly(o) == ReplaceBids(RestoreFirst(o), FirstBlock + 1, LastBlock, 2)
RestoreLastOnly(o) == ReplaceBids(RestoreLast(o), FirstBlock, LastBlock - 1, 1)
RestoreNone(o) == ReplaceBids(o, FirstBlock, LastBlock - 1, 1)

sort_both_done ==
    /\ Finish("sort", TRUE, TRUE)
    /\ obj' = [RestoreBoth(obj) EXCEPT !.pc = "done"]
    /\ UNCHANGED ref
sort_first_done ==
    /\ Finish("sort", TRUE, FALSE)
    /\ obj' = [RestoreFirstOnly(obj) EXCEPT !.pc = "done"]
    /\ UNCHANGED ref
sort_last_done ==
    /\ Finish("sort", FALSE, TRUE)
    /\ obj' = [RestoreLastOnly(obj) EXCEPT !.pc = "done"]
    /\ UNCHANGED ref
sort_aligned_done ==
    /\ Finish("sort", FALSE, FALSE)
    /\ obj' = [RestoreNone(obj) EXCEPT !.pc = "done"]
    /\ UNCHANGED ref
ksort_both_done ==
    /\ Finish("ksort", TRUE, TRUE)
    /\ obj' = [RestoreBoth(obj) EXCEPT !.pc = "done"]
    /\ UNCHANGED ref
ksort_first_done ==
    /\ Finish("ksort", TRUE, FALSE)
    /\ obj' = [RestoreFirstOnly(obj) EXCEPT !.pc = "done"]
    /\ UNCHANGED ref
ksort_last_done ==
    /\ Finish("ksort", FALSE, TRUE)
    /\ obj' = [RestoreLastOnly(obj) EXCEPT !.pc = "done"]
    /\ UNCHANGED ref
ksort_aligned_done ==
    /\ Finish("ksort", FALSE, FALSE)
    /\ obj' = [RestoreNone(obj) EXCEPT !.pc = "done"]
    /\ UNCHANGED ref

Next ==
    \/ sort_in_memory \/ ksort_in_memory \/ sort_bad_parameter
    \/ sort_both \/ sort_first \/ sort_last \/ sort_aligned
    \/ ksort_both \/ ksort_first \/ ksort_last \/ ksort_aligned
    \/ sort_create_runs \/ ksort_create_runs \/ sort_phase \/ ksort_phase
    \/ sort_merge_runs \/ sort_parallel_merge_runs \/ ksort_merge_runs
    \/ sort_both_done \/ sort_first_done \/ sort_last_done \/ sort_aligned_done
    \/ ksort_both_done \/ ksort_first_done \/ ksort_last_done \/ ksort_aligned_done

vars == <<obj, ref>>
Spec == Init /\ [][Next]_vars

-----------------------------------------------------------------------------
Contents == Flat([i \in DOMAIN obj.bids |-> Read(obj, obj.bids[i])])

TypeOK ==
    /\ obj.pc \in {"begin", "runs", "phase", "merge", "done", "thrown"}
    /\ Len(Contents) = Len(ref)

(* When the sort returns, the range holds the same elements as before, in   *)
(* order, whatever their alignment, the number of phases and the merger.    *)
RangeSorted ==
    obj.pc = "done" =>
        LET now == SubSeq(Contents, first + 1, last)
        IN  /\ \A i \in 1..(Len(now) - 1) : ~Less(now[i + 1], now[i])
            /\ ToSet(now) = ToSet(SubSeq(ref, first + 1, last))

(* The elements outside of the range stay where they are.                   *)
OutsideUntouched ==
    obj.pc \in {"done", "thrown"} =>
        \A i \in DOMAIN ref : i \notin (first + 1)..last => Contents[i] = ref[i]

(* No block is lost or given back twice: the managed blocks in use are      *)
(* those of the vector, each once.                                          *)
BlocksConserved ==
    /\ ~obj.bad
    /\ obj.pc \in {"done", "thrown"} =>
        /\ {b \in DOMAIN obj.disk : Managed(b)} = {b \in ToSet(obj.bids) : Managed(b)}
        /\ Cardinality(ToSet(obj.bids)) = Len(obj.bids)

(* Every block of every new run gets a place of its own from the            *)
(* interleaved allocation, though the last run is shorter than the others.  *)
EveryPlaceAllocated ==
    obj.pc = "merge" /\ obj.merged = 0 =>
        /\ Cardinality(UNION {ToSet(obj.outs[j]) : j \in DOMAIN obj.outs}) = Len(obj.input)
        /\ \A j \in DOMAIN obj.outs : NoBid \notin ToSet(obj.outs[j])

(* A phase merges at least two and at most m runs at once, and the runs of  *)
(* a phase are fewer than those of the one before.                          *)
PhasesShrink ==
    obj.pc = "merge" => /\ obj.factor \in 2..obj.call.m
                        /\ Len(obj.outs) < Len(obj.runs)

(* A vector that is mapped to a file is so after it has been sorted.        *)
FileStays ==
    (obj.pc = "done" /\ obj.call.file) => \A i \in DOMAIN obj.bids : ~Managed(obj.bids[i])
=============================================================================
