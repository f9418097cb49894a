---------------------------- MODULE SortKernels ----------------------------
(* What the external sorters share: the merging of sorted blocks that are   *)
(* taken in the order of their smallest elements, by a loser tree of        *)
(* cursors or by the parallel merger, the merge factor, the interleaved     *)
(* allocation of runs, and the radix sort of keys.  An element is           *)
(* <<key, identity>>; a block of a run that waits to be merged is           *)
(* [value, elem], its smallest element and what it holds.                   *)
EXTENDS Integers, Sequences, FiniteSets, FiniteSetsExt, SequencesExt

CONSTANT MaxKey     \* cmp.max_value()

Less(a, b) == a[1] < b[1]

Iterate(op(_), n, x) ==
    LET f[i \in 0..n] == IF i = 0 THEN x ELSE op(f[i - 1]) IN f[n]

(* A sort by keys; the order of equal ones is fixed by their identity.      *)
Sort(s) == SortSeq(s, LAMBDA a, b : a[1] < b[1] \/ (a[1] = b[1] /\ a[2] < b[2]))

Flat(blocks) == FoldLeft(LAMBDA acc, b : acc \o b, <<>>, blocks)
Cut(s, B) == [i \in 1..(Len(s) \div B) |-> SubSeq(s, ((i - 1) * B) + 1, i * B)]

-----------------------------------------------------------------------------
(* Blocks of all runs in the order in which a merge needs them: a stable    *)
(* sort of the triggers.                                                    *)
UnsortedTriggers(entries) == entries
ConsumeSequence(entries) ==
    LET order == SortSeq([i \in DOMAIN entries |-> i],
                         LAMBDA i, j : \/ Less(entries[i].value, entries[j].value)
                                       \/ entries[i].value[1] = entries[j].value[1] /\ i < j)
    IN  [i \in DOMAIN entries |-> entries[order[i]]]

-----------------------------------------------------------------------------
(* loser_tree: a cursor is what is left of its block, and takes the next    *)
(* block of the consume sequence, of whichever run, when none is.           *)

CursorLess(a, b) == b = <<>> \/ (a # <<>> /\ Less(a[1], b[1]))

init_winner(cur, k) ==
    LET w[n \in 1..(2 * k - 1)] ==
            IF n >= k THEN n - k
            ELSE IF CursorLess(cur[w[2 * n]], cur[w[2 * n + 1]]) THEN w[2 * n] ELSE w[2 * n + 1]
    IN  [n \in 0..(k - 1) |->
            IF n = 0 THEN w[1] ELSE IF w[n] = w[2 * n] THEN w[2 * n + 1] ELSE w[2 * n]]

ilog2_ceil(n) == CHOOSE l \in 0..10 : 2^l >= n /\ (l = 0 \/ 2^(l - 1) < n)

loser_tree(consume, nruns) ==
    LET k == 2^ilog2_ceil(nruns)
        cur == [i \in 0..(k - 1) |-> IF i < nruns THEN consume[i + 1].elem ELSE <<>>]
    IN  [k |-> k, cur |-> cur, entry |-> init_winner(cur, k),
         rest |-> SubSeq(consume, nruns + 1, Len(consume)), out |-> <<>>]

Advance(t, i) ==
    IF Len(t.cur[i]) > 1 \/ t.rest = <<>> THEN [t EXCEPT !.cur[i] = Tail(@)]
    ELSE [t EXCEPT !.cur[i] = Head(t.rest).elem, !.rest = Tail(@)]

Play(t, n) ==
    IF CursorLess(t.cur[t.entry[n]], t.cur[t.entry[0]])
    THEN [t EXCEPT !.entry[n] = t.entry[0], !.entry[0] = t.entry[n]] ELSE t

(* TreeStep looks for the node from the winner of the moment,               *)
(* multi_merge_k climbs from the leaf that has moved.                       *)
multi_merge_unrolled(t) ==
    LET logK == ilog2_ceil(t.k)
        f[l \in 0..logK] ==
            IF l = 0 THEN Advance([t EXCEPT !.out = Append(@, t.cur[t.entry[0]][1])], t.entry[0])
            ELSE Play(f[l - 1], (f[l - 1].entry[0] + t.k) \div 2^l)
    IN  f[logK]

multi_merge_unrolled_0(t) == Advance([t EXCEPT !.out = Append(@, t.cur[0][1])], 0)

multi_merge_k(t) ==
    LET leaf == t.entry[0] + t.k
        f[l \in 0..ilog2_ceil(t.k)] ==
            IF l = 0 THEN Advance([t EXCEPT !.out = Append(@, t.cur[t.entry[0]][1])], t.entry[0])
            ELSE Play(f[l - 1], leaf \div 2^l)
    IN  f[ilog2_ceil(t.k)]

(* The next n elements; trees of more than 2^unrolled leaves climb.         *)
multi_merge(t, n, unrolled) ==
    Iterate(LAMBDA x : IF x.k = 1 THEN multi_merge_unrolled_0(x)
                       ELSE IF x.k <= 2^unrolled THEN multi_merge_unrolled(x)
                       ELSE multi_merge_k(x), n, t)

-----------------------------------------------------------------------------
(* The parallel merger: only elements that no block still to come can       *)
(* precede are merged, the number of which is counted anew when it runs out.*)

pull_blocks(consume, nruns) ==
    [seqs |-> [i \in 1..nruns |-> consume[i].elem],
     rest |-> SubSeq(consume, nruns + 1, Len(consume)), mergeable |-> 0, out |-> <<>>]

count_elements_less_equal(seqs, bound) ==
    MapThenSumSet(LAMBDA i : Cardinality({j \in DOMAIN seqs[i] : ~Less(bound, seqs[i][j])}),
                  DOMAIN seqs)

refill_or_remove_empty_sequences(p) ==
    LET step(q, i) ==
            IF p.seqs[i] # <<>> THEN [q EXCEPT !.seqs = Append(@, p.seqs[i])]
            ELSE IF q.rest # <<>>
            THEN [q EXCEPT !.seqs = Append(@, Head(q.rest).elem), !.rest = Tail(@)]
            ELSE q
        f[i \in 0..Len(p.seqs)] == IF i = 0 THEN [p EXCEPT !.seqs = <<>>] ELSE step(f[i - 1], i)
    IN  f[Len(p.seqs)]

(* multiway_merge takes the smallest head, the first of equal ones.         *)
MergeOne(p) ==
    LET heads == {i \in DOMAIN p.seqs : p.seqs[i] # <<>>}
        i == CHOOSE x \in heads : \A y \in heads : \/ Less(p.seqs[x][1], p.seqs[y][1])
                                                   \/ p.seqs[x][1][1] = p.seqs[y][1][1] /\ x <= y
    IN  [p EXCEPT !.out = Append(@, p.seqs[i][1]), !.seqs[i] = Tail(@)]

multiway_merge(p, n) == Iterate(MergeOne, n, p)

(* One round of the do loop: need elements are missing to fill the output   *)
(* block, left to fill the run.                                             *)
CountMergeable(p, need, left) ==
    IF p.mergeable >= need THEN p.mergeable
    ELSE IF p.rest = <<>> THEN left
    ELSE count_elements_less_equal(p.seqs, Head(p.rest).value)

MergeRound(p, goal, left) ==
    LET need == goal - Len(p.out)
        counted == CountMergeable(p, need, left)
        n == Min({counted, need})
    IN  IF need = 0 \/ p.seqs = <<>> THEN p
        ELSE refill_or_remove_empty_sequences([multiway_merge(p, n) EXCEPT !.mergeable = counted - n])

ParallelFill(p, n, left) ==
    LET goal == Len(p.out) + n
    IN  Iterate(LAMBDA q : MergeRound(q, goal, left - (n - (goal - Len(q.out)))), n, p)

-----------------------------------------------------------------------------
(* r runs at once, r the root of the number of runs that gives the fewest   *)
(* phases.                                                                  *)
floor_merge_factor(nruns, m) ==
    LET phases == CHOOSE d \in 1..nruns : m^d >= nruns /\ (d = 1 \/ m^(d - 1) < nruns)
    IN  Max({r \in 1..nruns : r^phases <= nruns})

optimal_merge_factor(nruns, m) ==
    LET phases == CHOOSE d \in 1..nruns : m^d >= nruns /\ (d = 1 \/ m^(d - 1) < nruns)
    IN  CHOOSE r \in 1..nruns : r^phases >= nruns /\ (r = 1 \/ (r - 1)^phases < nruns)

div_ceil(a, b) == (a + b - 1) \div b

(* The place of the pos-th new block: round robin over the w runs while the *)
(* last one, of h blocks, has room, then over the others.                   *)
runs2bid_array_adaptor2(pos, w, h) ==
    LET i == pos - (w * h)
    IN  IF i < 0 THEN <<(pos % w) + 1, (pos \div w) + 1>>
        ELSE <<(i % (w - 1)) + 1, h + (i \div (w - 1)) + 1>>

-----------------------------------------------------------------------------
(* Sorting keys: count, add up, distribute, then sort every bucket.         *)

Bucket(x, offset, shift) == (x[1] - offset) \div 2^shift

count(a, K, offset, shift) ==
    [i \in 0..(K - 1) |-> Cardinality({j \in DOMAIN a : Bucket(a[j], offset, shift) = i})]

exclusive_prefix_sum(bucket) ==
    [i \in DOMAIN bucket |-> MapThenSumSet(LAMBDA j : bucket[j], 0..(i - 1))]

(* b[bucket[i]++] = x for every x of bucket i.                              *)
classify(a, bucket, offset, shift) ==
    LET place(j) == bucket[Bucket(a[j], offset, shift)] + 1
                      + Cardinality({h \in 1..(j - 1) : Bucket(a[h], offset, shift)
                                                          = Bucket(a[j], offset, shift)})
    IN  [p \in DOMAIN a |-> a[CHOOSE j \in DOMAIN a : place(j) = p]]

sort2(s) == IF Less(s[2], s[1]) THEN <<s[2], s[1]>> ELSE s

sort3(s) ==
    LET a == s[1] b == s[2] c == s[3]
    IN  IF Less(b, a)
        THEN IF Less(c, a) THEN (IF Less(b, c) THEN <<b, c, a>> ELSE <<c, b, a>>) ELSE <<b, a, c>>
        ELSE IF Less(c, a) THEN <<c, a, b>> ELSE IF Less(c, b) THEN <<a, c, b>> ELSE s

sort4(s) ==
    LET l == sort2(<<s[1], s[2]>>) r == sort2(<<s[3], s[4]>>)
        a == l[1] b == l[2] c == r[1] d == r[2]
    IN  IF Less(c, a)
        THEN IF Less(d, a) THEN <<c, d, a, b>>
             ELSE IF Less(d, b) THEN <<c, a, d, b>> ELSE <<c, a, b, d>>
        ELSE IF Less(c, b) THEN (IF Less(d, b) THEN <<a, c, d, b>> ELSE <<a, c, b, d>>)
        ELSE l \o r

InsertLast(s, t) ==
    LET behind == Cardinality({i \in DOMAIN s : Less(t, s[i])})
    IN  SubSeq(s, 1, Len(s) - behind) \o <<t>> \o SubSeq(s, Len(s) - behind + 1, Len(s))

insertion_sort(s) == FoldLeft(InsertLast, <<>>, s)

SortBucket(s) ==
    CASE Len(s) < 2 -> s
      [] Len(s) = 2 -> sort2(s)
      [] Len(s) = 3 -> sort3(s)
      [] Len(s) = 4 -> sort4(s)
      [] Len(s) \in 5..16 -> insertion_sort(s)
      [] OTHER -> Sort(s)

cleanup(b, ends, K) ==
    LET part(i) == SubSeq(b, (IF i = 0 THEN 0 ELSE ends[i - 1]) + 1, ends[i])
        f[i \in 0..K] == IF i = 0 THEN <<>> ELSE f[i - 1] \o SortBucket(part(i - 1))
    IN  f[K]

Ends(bucket, a, offset, shift) ==
    LET n == count(a, Cardinality(DOMAIN bucket), offset, shift)
    IN  [i \in DOMAIN bucket |-> bucket[i] + n[i]]

l1sort(a, K, offset, shift) ==
    LET starts == exclusive_prefix_sum(count(a, K, offset, shift))
    IN  cleanup(classify(a, starts, offset, shift), Ends(starts, a, offset, shift), K)

(* The two levels of ksort: 2^logK1 buckets by the top bits of the key,     *)
(* each sorted by the next logK2 bits.                                      *)
SecondLevelOffset(i, shift1) == i * 2^shift1

RadixSort(a, bits, logK1, logK2) ==
    LET shift1 == bits - logK1
        starts == exclusive_prefix_sum(count(a, 2^logK1, 0, shift1))
        ends == Ends(starts, a, 0, shift1)
        refs == classify(a, starts, 0, shift1)
        f[i \in 0..(2^logK1)] ==
            IF i = 0 THEN <<>>
            ELSE f[i - 1] \o l1sort(SubSeq(refs, starts[i - 1] + 1, ends[i - 1]), 2^logK2,
                                    SecondLevelOffset(i - 1, shift1), shift1 - logK2)
    IN  f[2^logK1]

-----------------------------------------------------------------------------
(* sorted_runs and what its creators and its merger do with blocks.  A run  *)
(* is a sequence of [bid, value], the blocks and their smallest elements;   *)
(* flight holds the writes under way, oldest first, i the index of the      *)
(* request.  An object has the fields live, the allocated blocks, disk,     *)
(* flight and res, the sorted_runs.                                         *)

Pad == <<MaxKey, 0>>
Junk == <<-1, 0>>
SetOfBids(runs) == UNION {{r[i].bid : i \in DOMAIN r} : r \in Range(runs)}

WaitNone(o, i) == TRUE
WaitOver(o, i) == \A k \in DOMAIN o.flight : o.flight[k].i # i

(* block_manager: the lowest numbers that are free, so that freed blocks    *)
(* are soon used again.                                                     *)
new_blocks(live, n) ==
    LET pick[k \in 0..n] == IF k = 0 THEN <<>>
                            ELSE Append(pick[k - 1], Min(1..(Cardinality(live) + n)
                                                          \ (live \cup Range(pick[k - 1]))))
    IN  pick[n]

NoRuns == [elements |-> 0, runs |-> <<>>, sizes |-> <<>>, small |-> <<>>]

(* What a freed block holds is forgotten.                                   *)
delete_blocks(o, bids) ==
    [o EXCEPT !.live = @ \ bids,
              !.disk = [b \in DOMAIN @ |-> IF b \in bids THEN <<>> ELSE @[b]] \o <<>>]

sorted_runs_clear(o) == [delete_blocks(o, SetOfBids(o.res.runs)) EXCEPT !.res = NoRuns]

add_run(res, run, n) ==
    [res EXCEPT !.runs = Append(@, run), !.sizes = Append(@, n), !.elements = @ + n]
=============================================================================
