-------------------------- MODULE PriorityQueue --------------------------
(***************************************************************************)
(* stxxl::priority_queue: an insert heap, a delete buffer, and groups of   *)
(* internal and external mergers with one buffer each.                     *)
(*                                                                         *)
(* Keys are numbers, the largest is at the top, 0 is the sentinel. The     *)
(* insert heap is a descending sequence without its sentinel; a buffer is  *)
(* what lies between its current minimum and its end.                      *)
(***************************************************************************)
EXTENDS Integers, Sequences, SequencesExt, FiniteSets, FiniteSetsExt

CONSTANTS
    Configs,     \* [n, del, ints, exts, intk, extk, par, keys, items]: the parameters
                 \* of priority_queue_config, whether STXXL_PARALLEL is set, and
                 \* bounds on the keys and on the items held at a time
    BlockItems   \* items of a block

VARIABLES
    obj,  \* the queue
    ref   \* how often it should hold each key

vars == <<obj, ref>>

T == INSTANCE LoserTree WITH Kinds <- {}, MaxLen <- 0

Groups(q) == 0..(q.c.ints + q.c.exts - 1)
IsInt(q, g) == g < q.c.ints
Merger(c, g) ==
    T!NewMerger([ext |-> g >= c.ints, par |-> c.par, arity |-> IF g < c.ints THEN c.intk ELSE c.extk,
                 keys |-> c.keys, items |-> c.items])

\* The constructor and init().
NewQueue(c) ==
    [c |-> c, heap |-> <<>>, del |-> <<>>, grp |-> [g \in 0..(c.ints + c.exts - 1) |-> <<>>],
     mrg |-> [g \in 0..(c.ints + c.exts - 1) |-> Merger(c, g)], active |-> 0, size |-> 0, ok |-> TRUE]

Top(s) == IF s = <<>> THEN 0 ELSE Head(s)
Take(s, n) == SubSeq(s, 1, n)
Drop(s, n) == SubSeq(s, n + 1, Len(s))

\* internal_priority_queue::push
HeapPush(s, x) == SelectSeq(s, LAMBDA y : y >= x) \o <<x>> \o SelectSeq(s, LAMBDA y : y < x)

size(q) == q.size + Len(q.heap) + Len(q.del)
FromHeap(q) == Top(q.del) < Top(q.heap)
top(q) == IF FromHeap(q) THEN Top(q.heap) ELSE Top(q.del)

---------------------------------------------------------------------------
(* Refilling the buffers.                                                  *)

\* refill_group_buffer: as much of the merger as the buffer has room for.
MergedInto(q, g, r) == [q EXCEPT !.grp[g] = @ \o r.out, !.mrg[g] = r.m]
refill_group_buffer(q, g) == MergedInto(q, g, T!multi_merge(q.mrg[g], Min({q.mrg[g].size, q.c.n - Len(q.grp[g])})))

\* The loop over the active groups, the last first: total is what they offer at
\* least; the last group is given up when it is dry.
Refilled(q, g, total) ==
    LET len == Len(q.grp[g])
    IN [q |-> IF len = 0 /\ g = q.active - 1 THEN [q EXCEPT !.active = @ - 1] ELSE q, total |-> total + len]
RefillGroup(p, g) ==
    IF Len(p.q.grp[g]) >= p.q.c.del THEN [p EXCEPT !.total = @ + p.q.c.del]
    ELSE Refilled(refill_group_buffer(p.q, g), g, p.total)

\* A mutant: group 0 is left out.
RefillGroupsShort(q) ==
    LET f[j \in 0..(q.active - 1)] == IF j = 0 THEN [q |-> q, total |-> 0] ELSE RefillGroup(f[j - 1], q.active - j)
    IN IF q.active = 0 THEN [q |-> q, total |-> 0] ELSE f[q.active - 1]

RefillGroups(q) ==
    LET f[j \in 0..q.active] == IF j = 0 THEN [q |-> q, total |-> 0] ELSE RefillGroup(f[j - 1], q.active - j)
    IN f[q.active]

\* The first n items of the buffers of the active groups.
MergeGroups(q, n) ==
    LET src == [k |-> q.active, mem |-> 0,
                seg |-> [i \in 0..(Cardinality(Groups(q)) - 1) |-> [cur |-> q.grp[i], bids |-> <<>>]]]
        r == CASE q.active = 0 -> T!Start(src)
               [] q.active = 1 -> [out |-> Take(q.grp[0], n), m |-> [src EXCEPT !.seg[0].cur = Drop(@, n)]]
               [] q.active > 1 /\ q.c.par -> T!multiway_merge(src, n)
               [] q.active = 2 /\ ~q.c.par -> T!merge2_iterator(src, n)
               [] q.active = 3 /\ ~q.c.par -> T!merge3_iterator(src, n)
               [] OTHER -> T!merge4_iterator(src, n)
    IN [q EXCEPT !.del = r.out, !.grp = [g \in Groups(q) |-> r.m.seg[g].cur]]

MergeRefilled(f, n) ==
    MergeGroups([f.q EXCEPT !.size = @ - n, !.ok = @ /\ (f.total < f.q.c.del => f.q.size = n)], n)
MergeAvailable(f) == MergeRefilled(f, Min({f.total, f.q.c.del}))
refill_delete_buffer(q) == MergeAvailable(RefillGroups(q))

---------------------------------------------------------------------------
(* Emptying the insert heap.                                               *)

\* A full level is merged into one array or sequence of blocks of the next.
Appended(r, outs) == [m |-> r.m, outs |-> Append(outs, r.out)]
MergeAll(m, sizes) ==
    LET f[b \in 0..Len(sizes)] ==
            IF b = 0 THEN [m |-> m, outs |-> <<>>]
            ELSE LET p == f[b - 1] IN Appended(T!multi_merge(p.m, sizes[b]), p.outs)
    IN f[Len(sizes)]
PourInto(q, from, to, all) ==
    [q EXCEPT !.mrg[from] = all.m,
              !.mrg[to] = IF IsInt(q, to) THEN T!append_array(@, all.outs[1]) ELSE T!append_merger(@, all.outs)]
Pour(q, from, to) ==
    LET n == q.mrg[from].size
    IN IF n = 0 THEN q
       ELSE PourInto(q, from, to, MergeAll(q.mrg[from], IF IsInt(q, to) THEN <<n>> ELSE T!BlockSizes(n)))

\* On the last level everything goes into one sequence of a new merger.
Overflow(q, g) ==
    [q EXCEPT !.mrg[g] = T!append_merger(Merger(q.c, g), MergeAll(@, T!BlockSizes(@.size)).outs)]

\* A mutant: a new level is not counted.
ActivateNone(q, level) == q

Activate(q, level) == IF level = q.active THEN [q EXCEPT !.active = @ + 1] ELSE q
PourLevel(up, level) == [q |-> Pour(up.q, level, level + 1), level |-> up.level]
RECURSIVE make_space_available(_, _)
MakeSpace(q, level) ==
    IF T!is_space_available(q.mrg[level]) THEN [q |-> q, level |-> level]
    ELSE IF level = Cardinality(Groups(q)) - 1 THEN [q |-> Overflow(q, level), level |-> level]
    ELSE PourLevel(make_space_available(q, level + 1), level)
make_space_available(q, level) == MakeSpace(Activate(q, level), level)

\* merge2_iterator from temp and seg, two arrays with a sentinel at the end, on
\* from the positions p and s; the third merge writes to seg itself.
MergeInto(st, n, inplace) ==
    LET f[j \in 0..n] ==
            IF j = 0 THEN [st EXCEPT !.out = <<>>]
            ELSE LET x == f[j - 1]
                     second == x.temp[x.p] < x.seg[x.s]
                     key == IF second THEN x.seg[x.s] ELSE x.temp[x.p]
                 IN [x EXCEPT !.p = IF second THEN @ ELSE @ + 1, !.s = IF second THEN @ + 1 ELSE @,
                              !.out = Append(@, key), !.seg = IF inplace THEN [@ EXCEPT ![j] = key] ELSE @]
    IN f[n]

\* The delete buffer, the buffer of group 0 and the heap share their items out.
Redistribute(q) ==
    LET a == MergeInto([temp |-> q.del \o q.grp[0] \o <<0>>, seg |-> q.heap \o <<0>>, p |-> 1, s |-> 1,
                        out |-> <<>>], Len(q.del), FALSE)
        b == MergeInto(a, Len(q.grp[0]), FALSE)
        c == MergeInto(b, q.c.n, TRUE)
    IN [q |-> [q EXCEPT !.del = a.out, !.grp[0] = b.out, !.heap = <<>>], seg |-> Take(c.seg, q.c.n)]

\* A mutant: the buffer of the group that took the items is left as it is.
DropBuffersBelow(q, level) ==
    LET f[i \in 0..level] ==
            LET p == IF i = 0 THEN q ELSE f[i - 1] g == level - i
            IN IF g = level THEN p
               ELSE [p EXCEPT !.mrg[0] = T!append_array(@, p.grp[g]), !.grp[g] = <<>>]
    IN IF level = 0 THEN q ELSE f[level]

\* The buffers of the groups up to level, which are no longer ahead of their
\* mergers, become arrays of group 0.
DropBuffers(q, level) ==
    LET f[i \in 0..level] ==
            LET p == IF i = 0 THEN q ELSE f[i - 1] g == level - i
            IN [p EXCEPT !.mrg[0] = T!append_array(@, p.grp[g]), !.grp[g] = <<>>]
    IN IF level = 0 THEN q ELSE f[level]

RefillIfEmpty(q) == IF q.del = <<>> THEN refill_delete_buffer(q) ELSE q
LinkSegment(s, seg) ==
    DropBuffers([s.q EXCEPT !.ok = @ /\ (s.level = 0 \/ s.q.mrg[0].size = 0), !.mrg[0] = T!append_array(@, seg),
                            !.size = @ + s.q.c.n], s.level)
HeapRedistributed(r) == RefillIfEmpty(LinkSegment(make_space_available(r.q, 0), r.seg))
empty_insert_heap(q) == HeapRedistributed(Redistribute(q))

push(q, x) == [IF Len(q.heap) = q.c.n THEN empty_insert_heap(q) ELSE q EXCEPT !.heap = HeapPush(@, x)]

\* A mutant: the delete buffer is refilled when it is asked for the next time.
PopLate(q) ==
    IF FromHeap(q) THEN [q EXCEPT !.heap = Tail(@)]
    ELSE IF q.del = <<>> THEN refill_delete_buffer(q) ELSE [q EXCEPT !.del = Tail(@)]

pop(q) ==
    IF FromHeap(q) THEN [q EXCEPT !.heap = Tail(@)]
    ELSE RefillIfEmpty([q EXCEPT !.del = Tail(@)])

---------------------------------------------------------------------------
Init == \E c \in Configs : obj = NewQueue(c) /\ ref = [x \in 1..c.keys |-> 0]

Card == FoldFunction(+, 0, ref)

Push ==
    \E x \in DOMAIN ref :
        /\ Card < obj.c.items
        /\ obj' = push(obj, x)
        /\ ref' = [ref EXCEPT ![x] = @ + 1]

Pop ==
    /\ Card > 0
    /\ obj' = pop(obj)
    /\ ref' = [ref EXCEPT ![Max({x \in DOMAIN ref : ref[x] > 0})] = @ - 1]

Next == Push \/ Pop
Spec == Init /\ [][Next]_vars

TypeOK == obj.active \in 0..Cardinality(Groups(obj)) /\ obj.size >= 0

Everything(q) ==
    q.heap \o q.del \o FlattenSeq([g \in 1..Cardinality(Groups(q)) |-> q.grp[g - 1] \o T!Held(q.mrg[g - 1])])

\* The queue holds what was pushed and not popped, the top is the largest key
\* and size() counts them (top, pop, size).
QueueHolds ==
    /\ [x \in DOMAIN ref |-> Cardinality({i \in DOMAIN Everything(obj) : Everything(obj)[i] = x})] = ref
    /\ Card > 0 => top(obj) = Max({x \in DOMAIN ref : ref[x] > 0})
    /\ size(obj) = Card

\* The delete buffer is ahead of all groups, and each group buffer is ahead of
\* its merger; an empty delete buffer means that the groups are empty.
BuffersLead ==
    \A g \in Groups(obj) :
        /\ \A i \in DOMAIN obj.del : Top(obj.grp[g]) <= obj.del[i]
        /\ \A i \in DOMAIN obj.grp[g], s \in T!Slots(obj.mrg[g]) : T!Key(obj.mrg[g], s) <= obj.grp[g][i]
        /\ obj.del = <<>> => obj.grp[g] = <<>> /\ obj.mrg[g].size = 0

\* A group that is not active is empty: nothing is merged from it.
InactiveEmpty ==
    \A g \in Groups(obj) : g >= obj.active => obj.grp[g] = <<>> /\ obj.mrg[g].size = 0

\* No assertion of the queue or of its mergers fails: an array is only appended
\* where a slot is free, group 0 is empty after its items moved up, and the
\* last refill finds exactly size_ items.
AssertionsHold == obj.ok /\ \A g \in Groups(obj) : obj.mrg[g].ok
===========================================================================
