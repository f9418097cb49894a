---------------------------- MODULE LoserTree ----------------------------
(***************************************************************************)
(* The mergers of stxxl::priority_queue: a loser tree or the adapter of    *)
(* the parallel multiway merge, over arrays in memory (int_merger) or over *)
(* sequences of blocks on disk (ext_merger).                               *)
(*                                                                         *)
(* A slot holds what is in memory of a sequence, cur, and its blocks on    *)
(* disk, bids. Keys are numbers, the largest goes first; 0 is the          *)
(* sentinel, which an empty slot shows.                                    *)
(***************************************************************************)
EXTENDS Integers, Sequences, SequencesExt, FiniteSets, FiniteSetsExt

CONSTANTS
    Kinds,       \* the mergers to build: [ext, par, arity, keys, items], with
                 \* the largest key and a bound on the keys held at a time
    BlockItems,  \* block_type::size
    MaxLen       \* bound on the length of an array

VARIABLES
    obj,  \* the merger m, and whether it gave the largest keys in order
    ref   \* how often it should hold each key

vars == <<obj, ref>>

Log2(n) == CHOOSE l \in 0..n : 2^l >= n /\ (l > 0 => 2^(l - 1) < n)
max_arity(m) == 2^Log2(m.arity)
EmptySlot == [cur |-> <<>>, bids |-> <<>>, alloc |-> FALSE, mem |-> 0]

Key(m, i) == IF m.seg[i].cur = <<>> THEN 0 ELSE Head(m.seg[i].cur)
is_array_empty(m, i) == Key(m, i) = 0
Slots(m) == 0..(m.k - 1)
Content(s) == s.cur \o FlattenSeq(s.bids)
Range0(n) == [j \in 1..n |-> j - 1]     \* 0, ..., n - 1

---------------------------------------------------------------------------
(* The tree: entry[0] holds the winner, the other nodes the losers.        *)

RECURSIVE init_winner(_, _)
init_winner(m, root) ==
    IF root >= m.k THEN [m |-> m, win |-> root - m.k]
    ELSE LET l == init_winner(m, 2 * root)
             r == init_winner(l.m, 2 * root + 1)
             loser == IF Key(m, l.win) < Key(m, r.win) THEN l.win ELSE r.win
         IN [m |-> [r.m EXCEPT !.entry[root] = [key |-> Key(m, loser), index |-> loser]],
             win |-> IF loser = l.win THEN r.win ELSE l.win]

rebuild_loser_tree(m) ==
    IF m.par THEN m
    ELSE LET w == init_winner(m, 1)
         IN [w.m EXCEPT !.entry[0] = [key |-> Key(m, w.win), index |-> w.win]]

NewMerger(kind) ==
    LET max == 2^Log2(kind.arity)
    IN rebuild_loser_tree(
        [ext |-> kind.ext, par |-> kind.par, arity |-> kind.arity, k |-> 1, free |-> <<0>>,
         seg |-> [i \in 0..(max - 1) |-> EmptySlot],
         entry |-> [i \in 0..(max - 1) |-> [key |-> 0, index |-> 0]],
         keys |-> kind.keys, items |-> kind.items, size |-> 0, mem |-> 0, ok |-> TRUE])

\* A mutant: the new key is compared with the loser only.
UpdateStepShort(st, node, mask, new, i) ==
    LET lost == st.m.entry[node]
        apart == (st.w.index \div mask) % 2 # (i \div mask) % 2
    IN IF ~apart THEN st
       ELSE [m |-> IF lost.key < new THEN [st.m EXCEPT !.entry[node] = [key |-> new, index |-> i]] ELSE st.m,
             w |-> lost]

\* One node below the root: w is the old winner of the subtree.
UpdateStep(st, node, mask, new, i) ==
    LET lost == st.m.entry[node]
        apart == (st.w.index \div mask) % 2 # (i \div mask) % 2
        loser == IF st.w.key < new THEN st.w ELSE [key |-> new, index |-> i]
    IN IF ~apart THEN st
       ELSE [m |-> IF lost.key < new THEN [st.m EXCEPT !.entry[node] = loser] ELSE st.m,
             w |-> lost]

\* From the root down to the parent of slot i, whose key is new.
update_on_insert(m, new, i) ==
    LET logK == Log2(m.k)
        w == m.entry[0]
        root == IF w.key < new THEN [m EXCEPT !.entry[0] = [key |-> new, index |-> i]] ELSE m
        down[l \in 0..logK] ==
            IF l = 0 THEN [m |-> root, w |-> w]
            ELSE UpdateStep(down[l - 1], (i + m.k) \div 2^(logK - l + 1), 2^(logK - l), new, i)
    IN IF m.par THEN m ELSE down[logK].m

---------------------------------------------------------------------------
(* Slots.                                                                  *)

is_space_available(m) == m.k < m.arity \/ m.free # <<>>

double_k(m) ==
    LET new == SelectSeq([j \in 1..m.k |-> 2 * m.k - j], LAMBDA i : i < m.arity)
    IN rebuild_loser_tree([m EXCEPT !.free = @ \o new, !.k = 2 * @])

\* A mutant: the slot is not offered again.
free_array_lost(m, i) == [m EXCEPT !.seg[i] = EmptySlot, !.mem = @ - m.seg[i].mem]

\* A mutant: the memory of the array stays counted.
free_array_uncounted(m, i) == [m EXCEPT !.seg[i] = EmptySlot, !.free = Append(@, i)]

free_array(m, i) ==
    [m EXCEPT !.seg[i] = EmptySlot, !.free = Append(@, i), !.mem = @ - m.seg[i].mem]

\* Free the slots that ran empty, in order.
FreeEmpty(m) ==
    LET f[i \in 0..m.k] ==
            IF i = 0 THEN m
            ELSE LET x == f[i - 1]
                 IN IF is_array_empty(x, i - 1) /\ x.seg[i - 1].alloc THEN free_array(x, i - 1) ELSE x
    IN f[m.k]

\* The degree is halved as often as possible.
RECURSIVE Halved(_, _)
Halved(k, used) == IF k > 1 /\ used <= k \div 2 THEN Halved(k \div 2, used) ELSE k

compact_tree(m) ==
    LET full == SelectSeq(Range0(m.k), LAMBDA i : ~is_array_empty(m, i))
        k == Halved(m.k, Len(full))
        rest == [j \in 1..(k - Len(full)) |-> Len(full) + j - 1]
    IN rebuild_loser_tree(
        [m EXCEPT !.seg = [i \in DOMAIN m.seg |-> IF i < Len(full) THEN m.seg[full[i + 1]] ELSE EmptySlot],
                  !.k = k, !.free = SelectSeq(rest, LAMBDA i : i < m.arity)])

maybe_compact(m) ==
    IF m.k > 1 /\ (\/ m.k - Len(m.free) <= m.k - (3 * m.k) \div 5
                   \/ m.k = 4 /\ m.free # <<>> /\ ~is_array_empty(m, 3))
    THEN compact_tree(m) ELSE m

\* new_player, linking of the sequence and update of the tree. Without space
\* the assertion of double_k fails.
Link(m, cur, bids, mem) ==
    IF ~is_space_available(m) THEN [m EXCEPT !.ok = FALSE]
    ELSE LET d == IF m.free = <<>> THEN double_k(m) ELSE m
             i == Last(d.free)
             linked == [d EXCEPT !.free = Front(@), !.mem = @ + mem + Len(bids),
                                 !.seg[i] = [cur |-> cur, bids |-> bids, alloc |-> TRUE, mem |-> mem],
                                 !.size = @ + Len(Content([cur |-> cur, bids |-> bids]))]
         IN update_on_insert(linked, Head(cur), i)

append_array(m, s) == IF s = <<>> THEN m ELSE Link(m, s, <<>>, Len(s) + 1)

\* The first block takes the remainder, the others are full.
BlockSizes(n) ==
    LET first == IF n % BlockItems = 0 THEN BlockItems ELSE n % BlockItems
    IN <<first>> \o [j \in 1..((n - first) \div BlockItems) |-> BlockItems]

\* append_merger, given the blocks that the other merger filled.
append_merger(m, blocks) == IF blocks = <<>> THEN m ELSE Link(m, Head(blocks), Tail(blocks), 0)

---------------------------------------------------------------------------
(* Merging. A result is the merger and the keys given.                     *)

\* operator ++ of a sequence: after the last item of a block the next is read,
\* and given back to the block manager.
Advance(m, i) ==
    LET s == m.seg[i]
    IN IF Len(s.cur) > 1 \/ s.bids = <<>> THEN [m EXCEPT !.seg[i].cur = Tail(@)]
       ELSE [m EXCEPT !.seg[i].cur = Head(s.bids), !.seg[i].bids = Tail(@), !.mem = @ - 1]

Emit(r, i) == [m |-> Advance(r.m, i), out |-> Append(r.out, Key(r.m, i))]
Start(m) == [m |-> m, out |-> <<>>]

merge2_iterator(m, n) ==
    LET f[j \in 0..n] ==
        IF j = 0 THEN Start(m)
        ELSE LET r == f[j - 1] IN Emit(r, IF Key(r.m, 0) < Key(r.m, 1) THEN 1 ELSE 0)
    IN f[n]

Start3(x) ==
    IF x[1] < x[0]
    THEN IF x[2] < x[1] THEN <<0, 1, 2>> ELSE IF x[0] < x[2] THEN <<2, 0, 1>> ELSE <<0, 2, 1>>
    ELSE IF x[2] < x[1] THEN IF x[2] < x[0] THEN <<1, 0, 2>> ELSE <<1, 2, 0>>
         ELSE <<2, 1, 0>>

\* After an item of a: where a goes in the order of the sources.
Merge3Case(x, a, b, c) ==
    IF x[b] < x[a] THEN <<a, b, c>> ELSE IF x[c] < x[a] THEN <<b, a, c>> ELSE <<b, c, a>>

merge3_iterator(m, n) ==
    LET x(mm) == [i \in 0..2 |-> Key(mm, i)]
        f[j \in 0..n] ==
            IF j = 0 THEN [r |-> Start(m), o |-> Start3(x(m))]
            ELSE LET p == f[j - 1]
                     r == Emit(p.r, p.o[1])
                 IN [r |-> r, o |-> Merge3Case(x(r.m), p.o[1], p.o[2], p.o[3])]
    IN f[n].r

\* The orders of four sources, as the code tries them.
Orders4 ==
    << <<0,1,2,3>>, <<1,2,3,0>>, <<2,3,0,1>>, <<3,0,1,2>>, <<0,3,1,2>>, <<3,1,2,0>>,
       <<1,2,0,3>>, <<2,0,3,1>>, <<0,2,3,1>>, <<2,3,1,0>>, <<3,1,0,2>>, <<1,0,2,3>>,
       <<2,0,1,3>>, <<0,1,3,2>>, <<1,3,2,0>>, <<3,2,0,1>>, <<3,0,2,1>>, <<0,2,1,3>>,
       <<2,1,3,0>>, <<1,3,0,2>>, <<1,0,3,2>>, <<0,3,2,1>>, <<3,2,1,0>>, <<2,1,0,3>> >>

Start4(x) == SelectSeq(Orders4, LAMBDA o : x[o[1]] >= x[o[2]] /\ x[o[2]] >= x[o[3]] /\ x[o[3]] >= x[o[4]])[1]

Merge4Case(x, a, b, c, d) ==
    IF x[c] < x[a]
    THEN IF x[b] < x[a] THEN <<a, b, c, d>> ELSE <<b, a, c, d>>
    ELSE IF x[d] < x[a] THEN <<b, c, a, d>> ELSE <<b, c, d, a>>

merge4_iterator(m, n) ==
    LET x(mm) == [i \in 0..3 |-> Key(mm, i)]
        f[j \in 0..n] ==
            IF j = 0 THEN [r |-> Start(m), o |-> Start4(x(m))]
            ELSE LET p == f[j - 1]
                     r == Emit(p.r, p.o[1])
                 IN [r |-> r, o |-> Merge4Case(x(r.m), p.o[1], p.o[2], p.o[3], p.o[4])]
    IN f[n].r

\* The winner w meets the loser of a node.
Meet(st, node) ==
    LET e == st.m.entry[node]
    IN IF st.w.key < e.key THEN [m |-> [st.m EXCEPT !.entry[node] = st.w], w |-> e] ELSE st

\* The winner gives its key; a slot that ran empty is freed.
Give(st) ==
    LET i == st.w.index
        r == Emit([m |-> st.m, out |-> st.out], i)
    IN [m |-> IF Key(r.m, i) = 0 THEN free_array(r.m, i) ELSE r.m, out |-> r.out,
        w |-> [key |-> Key(r.m, i), index |-> i]]

\* A mutant: the last step is left out.
TreeStepsShort(st) ==
    LET logK == Log2(st.m.k)
        f[l \in 0..logK] ==
            IF l = 0 THEN [m |-> st.m, w |-> st.w]
            ELSE LET p == f[l - 1] IN Meet(p, (p.w.index + st.m.k) \div 2^l)
    IN f[logK - 1]

\* Unrolled: the node of each level is found from the winner so far.
TreeSteps(st) ==
    LET logK == Log2(st.m.k)
        f[l \in 0..logK] ==
            IF l = 0 THEN [m |-> st.m, w |-> st.w]
            ELSE LET p == f[l - 1] IN Meet(p, (p.w.index + st.m.k) \div 2^l)
    IN f[logK]

\* The loop: the nodes are the ancestors of the slot that gave.
ClimbLoop(st) ==
    LET logK == Log2(st.m.k)
        f[l \in 0..logK] ==
            IF l = 0 THEN [m |-> st.m, w |-> st.w]
            ELSE LET p == f[l - 1] IN Meet(p, (st.w.index + st.m.k) \div 2^l)
    IN f[logK]

multi_merge_f(m, n) ==
    LET f[j \in 0..n] ==
            IF j = 0 THEN [m |-> m, out |-> <<>>, w |-> m.entry[0]]
            ELSE LET g == Give(f[j - 1]) t == TreeSteps(g) IN [m |-> t.m, out |-> g.out, w |-> t.w]
    IN [m |-> [f[n].m EXCEPT !.entry[0] = f[n].w], out |-> f[n].out]

multi_merge_k(m, n) ==
    LET f[j \in 0..n] ==
            IF j = 0 THEN [m |-> m, out |-> <<>>, w |-> m.entry[0]]
            ELSE LET g == Give(f[j - 1]) t == ClimbLoop(g) IN [m |-> t.m, out |-> g.out, w |-> t.w]
    IN [m |-> [f[n].m EXCEPT !.entry[0] = f[n].w], out |-> f[n].out]

\* loser_tree::multi_merge without its end, maybe_compact.
SerialMerge(m, n) ==
    CASE m.k = 1 ->
            LET f[j \in 0..n] == IF j = 0 THEN Start(m) ELSE Emit(f[j - 1], 0)
                r == f[n]
            IN [m |-> FreeEmpty([r.m EXCEPT !.entry[0].key = Key(r.m, 0),
                                            !.ok = @ /\ m.entry[0].index = 0 /\ m.free = <<>>]),
                out |-> r.out]
      [] m.k \in {2, 4} ->
            LET r == IF m.k = 2 THEN merge2_iterator(m, n)
                     ELSE IF is_array_empty(m, 3) THEN merge3_iterator(m, n)
                     ELSE merge4_iterator(m, n)
            IN [m |-> FreeEmpty(rebuild_loser_tree(r.m)), out |-> r.out]
      [] OTHER -> multi_merge_f(m, n)

\* The n largest keys in memory, the first slot in case of ties; no block is read.
multiway_merge(m, n) ==
    LET best(x) == CHOOSE i \in Slots(x) :
            /\ \A j \in Slots(x) : Key(x, j) <= Key(x, i)
            /\ \A j \in 0..(i - 1) : Key(x, j) < Key(x, i)
        f[j \in 0..n] ==
            IF j = 0 THEN Start(m)
            ELSE LET r == f[j - 1] b == best(r.m)
                 IN [m |-> [r.m EXCEPT !.seg[b].cur = Tail(@)], out |-> Append(r.out, Key(r.m, b))]
    IN f[n]

\* A mutant: blocks are merged to their end.
SafeCountAll(m) == MapThenSumSet(LAMBDA i : Len(m.seg[i].cur), Slots(m))

\* How many keys may go before a block must be read: those not below the
\* largest of the last keys in memory.
SafeCount(m) ==
    LET full == {i \in Slots(m) : ~is_array_empty(m, i)}
        min_last == Max({Last(m.seg[i].cur) : i \in full})
    IN FoldSet(LAMBDA i, c : c + Len(SelectSeq(m.seg[i].cur, LAMBDA x : x >= min_last)), 0, full)

\* The next block of every sequence that used up its block.
ReadNext(m) ==
    LET next == {i \in Slots(m) : m.seg[i].cur = <<>> /\ m.seg[i].bids # <<>>}
    IN [m EXCEPT !.mem = @ - Cardinality(next),
                 !.seg = [i \in DOMAIN @ |-> IF i \in next THEN [m.seg[i] EXCEPT !.cur = Head(m.seg[i].bids), !.bids = Tail(@)]
                                             ELSE m.seg[i]]]

RECURSIVE ParallelRounds(_, _)
ParallelRounds(r, rest) ==
    IF rest = 0 THEN r
    ELSE LET n == Min({SafeCount(r.m), rest})
             s == multiway_merge(r.m, n)
         IN ParallelRounds([m |-> ReadNext(s.m), out |-> r.out \o s.out], rest - n)

Freed(r) == [m |-> FreeEmpty(r.m), out |-> r.out]
multi_merge_parallel(m, n) == Freed(IF m.ext THEN ParallelRounds(Start(m), n) ELSE multiway_merge(m, n))

Compacted(r, n) == [m |-> [maybe_compact(r.m) EXCEPT !.size = @ - n], out |-> r.out]
multi_merge(m, n) ==
    IF n = 0 THEN Start(m) ELSE Compacted(IF m.par THEN multi_merge_parallel(m, n) ELSE SerialMerge(m, n), n)

---------------------------------------------------------------------------
(* One merger, to which arrays are appended and from which keys are taken. *)

Keys == 1..Max({kind.keys : kind \in Kinds})
Descending(s) == \A i \in 1..(Len(s) - 1) : s[i] >= s[i + 1]
Arrays == {s \in BoundedSeq(Keys, MaxLen) : s # <<>> /\ Descending(s)}
Counts(s) == [x \in Keys |-> Cardinality({i \in DOMAIN s : s[i] = x})]

Cut(s) ==
    LET f[b \in 0..Len(BlockSizes(Len(s)))] == IF b = 0 THEN 0 ELSE f[b - 1] + BlockSizes(Len(s))[b]
    IN [b \in 1..Len(BlockSizes(Len(s))) |-> SubSeq(s, f[b - 1] + 1, f[b])]

Held(m) == FlattenSeq([i \in 1..max_arity(m) |-> Content(m.seg[i - 1])])

Init == \E kind \in Kinds : obj = [m |-> NewMerger(kind), largest |-> TRUE] /\ ref = Counts(<<>>)

AppendArray ==
    \E s \in Arrays :
        /\ is_space_available(obj.m)
        /\ obj.m.size + Len(s) <= obj.m.items /\ Head(s) <= obj.m.keys
        /\ obj' = [obj EXCEPT !.m = IF @.ext THEN append_merger(@, Cut(s)) ELSE append_array(@, s)]
        /\ ref' = [x \in Keys |-> ref[x] + Counts(s)[x]]

Merge ==
    \E n \in {1, 2, obj.m.size} \cap 1..obj.m.size :
        \E r \in {multi_merge(obj.m, n)} :
            /\ obj' = [m |-> r.m,
                       largest |-> /\ Descending(r.out)
                                   /\ \A i \in Slots(r.m) : Key(r.m, i) <= Last(r.out)]
            /\ ref' = [x \in Keys |-> ref[x] - Counts(r.out)[x]]

Next == AppendArray \/ Merge
Spec == Init /\ [][Next]_vars

TypeOK ==
    /\ obj.m.k \in {2^l : l \in 0..Log2(obj.m.arity)}
    /\ \A i \in DOMAIN obj.m.free : obj.m.free[i] \in 0..(obj.m.arity - 1)

\* A merger gives its largest keys in order, keeps the others and loses or
\* doubles none (multi_merge of both mergers, serial and parallel).
MergeExact == obj.largest /\ Counts(Held(obj.m)) = ref

\* Every slot plays once in the tree, with the key it shows, and no loser
\* beats the winner (init_winner, update_on_insert and the merge loops keep
\* the entries that the next merge starts from).
TreeExact ==
    ~obj.m.par =>
        /\ {obj.m.entry[i].index : i \in Slots(obj.m)} = Slots(obj.m)
        /\ \A i \in Slots(obj.m) : /\ obj.m.entry[i].key = Key(obj.m, obj.m.entry[i].index)
                                   /\ obj.m.entry[i].key <= obj.m.entry[0].key

\* The stack of free slots holds every usable slot without an array once, and
\* a slot with an array is not empty (free_player, compact_tree).
SlotsAccounted ==
    LET m == obj.m
        usable == {i \in Slots(m) : i < m.arity}
    IN /\ ToSet(m.free) = {i \in usable : ~m.seg[i].alloc}
       /\ Len(m.free) = Cardinality(ToSet(m.free))
       /\ \A i \in DOMAIN m.seg : m.seg[i].alloc <=> Content(m.seg[i]) # <<>> /\ ~is_array_empty(m, i)

\* The memory counted is that of the arrays, the blocks held are those of the
\* sequences, and the size counts the keys (the destructor asserts that no
\* memory is lost).
MemoryAccounted ==
    LET m == obj.m
    IN /\ m.mem = MapThenSumSet(LAMBDA i : m.seg[i].mem + Len(m.seg[i].bids), DOMAIN m.seg)
       /\ m.size = Len(Held(m))
       /\ m.ok

\* The unrolled merge and the loop over the levels give the same.
MergersAgree ==
    obj.m.k >= 8 /\ ~obj.m.par => \A n \in 1..obj.m.size : multi_merge_f(obj.m, n) = multi_merge_k(obj.m, n)
===========================================================================
