--------------------------- MODULE ExternalArray ----------------------------
(***************************************************************************)
(* external_array of the parallel priority queue.                          *)
(*                                                                         *)
(* It is written first, through an external_array_writer: several threads  *)
(* of a multiway merge write the items, each through an iterator of its    *)
(* own (WriterInit, WriterNext).  It is read and merged then, with a       *)
(* ppq_iterator over the items in memory (Init, Next).                     *)
(***************************************************************************)
EXTENDS Integers, Sequences, FiniteSets, FiniteSetsExt

CONSTANTS
    Configs,      \* records [cap, items, threads]: capacity, items of a block, threads
    May,          \* "rounds": the array is written by several merges
    Capacities,   \* sizes of the arrays that are read
    BlockItems,   \* block_items
    Pool,         \* prefetch buffers of the pool
    Null

VARIABLES
    obj,  \* the array and its writer, or the array e, the free buffers of the pool, an iterator it
    ref   \* the items written so far, or the items not yet removed

vars == <<obj, ref>>

Ceil(a, b) == (a + b - 1) \div b

---------------------------------------------------------------------------
(* The write phase.  An iterator is live while it holds a reference to the *)
(* block it writes to.  The first reference brings the block into memory,  *)
(* the last one writes it to disk.  References are counted under the mutex *)
(* of the writer, so taking and giving back a reference is one step.       *)

Blocks(c) == 0..(Ceil(c.cap, c.items) - 1)
ItemsOf(c, b) == (b * c.items)..(Min({(b + 1) * c.items, c.cap}) - 1)

\* An iterator that is not live.
WriteIterator(i, end) == [index |-> i, end |-> end, live |-> FALSE]

---------------------------------------------------------------------------
(* external_array: a block is "fresh" (its marker says that it was never   *)
(* written), "ram" or "disk".                                              *)

\* The mutant: a block that was written before counts as uninitialized, too.
ReadFresh(o, b) == [o EXCEPT !.at[b] = "ram", !.ram[b] = {}]

read_block(o, b) ==
    [o EXCEPT !.at[b] = "ram", !.ram[b] = IF o.at[b] = "fresh" THEN {} ELSE o.disk[b],
              !.reread = @ \/ o.at[b] = "disk"]

\* The mutant: the minimum is that of the first time the block is written.
WriteMinOnce(o, b) ==
    [o EXCEPT !.at[b] = "disk", !.disk[b] = o.ram[b], !.ram[b] = {},
              !.minima[b] = IF @ = Null THEN b * o.c.items \in o.ram[b] ELSE @]

\* minima[b] says whether the first item of the block was there.
write_block(o, b) ==
    [o EXCEPT !.at[b] = "disk", !.disk[b] = o.ram[b], !.ram[b] = {},
              !.minima[b] = b * o.c.items \in o.ram[b]]

\* prepare_write_pool without debug assertions and with one disk
WriteBlocks(c) == 2 * (IF c.threads = 0 THEN 1 ELSE c.threads)

---------------------------------------------------------------------------
(* external_array_writer                                                   *)

get_block_ref(o, b) ==
    LET n == [o EXCEPT !.refs[b] = @ + 1] IN IF o.refs[b] = 0 THEN read_block(n, b) ELSE n

\* The mutant: a block is written when one reference is left.
FreeEarly(o, b) ==
    LET n == [o EXCEPT !.refs[b] = @ - 1] IN IF n.refs[b] = 1 THEN write_block(n, b) ELSE n

free_block_ref(o, b) ==
    LET n == [o EXCEPT !.refs[b] = @ - 1] IN IF n.refs[b] = 0 THEN write_block(n, b) ELSE n

BlockOf(o, i) == i \div o.c.items

\* The blocks of the expected boundaries are held by the writer.
Boundary(c, i) == (i * c.cap) \div c.threads

external_array_writer(c) ==
    LET new == [c |-> c, at |-> [b \in Blocks(c) |-> "fresh"], ram |-> [b \in Blocks(c) |-> {}],
                disk |-> [b \in Blocks(c) |-> {}], minima |-> [b \in Blocks(c) |-> Null],
                refs |-> [b \in Blocks(c) |-> 0], reread |-> FALSE,
                it |-> [t \in 1..c.threads |-> Null], pos |-> 0, done |-> FALSE]
    IN  FoldSet(LAMBDA i, o : get_block_ref(o, BlockOf(o, Boundary(c, i))), new, 1..(c.threads - 1))

\* ~external_array_writer: the boundaries are released, then finish_write
Released(o) ==
    [FoldSet(LAMBDA i, q : free_block_ref(q, BlockOf(q, Boundary(o.c, i))), o, 1..(o.c.threads - 1))
        EXCEPT !.done = TRUE]

---------------------------------------------------------------------------
(* The threads.                                                            *)

\* equally_split: thread t of p gets the items before Split(n, p, t).
Split(n, p, t) == t * (n \div p) + Min({t, n % p})

InitWriter == {external_array_writer(c) : c \in Configs}
WriterInit == obj \in InitWriter /\ ref = {}

\* A merge writes the next n items, with all threads or with one.
StartMerge == \E n \in 1..(obj.c.cap - obj.pos), p \in {1, obj.c.threads} :
    /\ ~obj.done /\ \A t \in DOMAIN obj.it : obj.it[t] = Null
    /\ "rounds" \notin May => n = obj.c.cap
    /\ obj' = [obj EXCEPT !.pos = @ + n,
                          !.it = [t \in DOMAIN @ |->
                              IF t > p THEN Null
                              ELSE WriteIterator(obj.pos + Split(n, p, t - 1), obj.pos + Split(n, p, t))]]
    /\ UNCHANGED ref

\* operator *: the iterator goes live
make_live(t) ==
    /\ obj.it[t] # Null
    /\ ~obj.it[t].live /\ obj.it[t].index < obj.it[t].end
    /\ obj' = [get_block_ref(obj, BlockOf(obj, obj.it[t].index)) EXCEPT !.it[t].live = TRUE]
    /\ UNCHANGED ref

\* *it = value; ++it
WriteItem(t) ==
    /\ obj.it[t] # Null
    /\ obj.it[t].live /\ obj.it[t].index < obj.it[t].end
    /\ LET i == obj.it[t].index
           b == BlockOf(obj, i)
           w == [obj EXCEPT !.ram[b] = @ \cup {i}, !.it[t].index = i + 1]
       IN  obj' = IF (i + 1) % obj.c.items = 0 THEN [free_block_ref(w, b) EXCEPT !.it[t].live = FALSE] ELSE w
    /\ ref' = ref \cup {obj.it[t].index}

\* The iterator is destroyed; a copy of it is not live.
EndIterator(t) ==
    /\ obj.it[t] # Null
    /\ obj.it[t].index = obj.it[t].end
    /\ LET o == IF obj.it[t].live THEN free_block_ref(obj, BlockOf(obj, obj.it[t].index - 1)) ELSE obj
       IN  obj' = [o EXCEPT !.it[t] = Null]
    /\ UNCHANGED ref

DestroyWriter ==
    /\ ~obj.done /\ obj.pos = obj.c.cap /\ \A t \in DOMAIN obj.it : obj.it[t] = Null
    /\ obj' = Released(obj)
    /\ UNCHANGED ref

WriterNext ==
    \/ StartMerge \/ DestroyWriter
    \/ \E t \in DOMAIN obj.it : make_live(t) \/ WriteItem(t) \/ EndIterator(t)

WriterTypeOK ==
    /\ obj.at \in [Blocks(obj.c) -> {"fresh", "ram", "disk"}]
    /\ obj.refs \in [Blocks(obj.c) -> 0..(2 * obj.c.threads)]
    /\ obj.pos \in 0..obj.c.cap

(***************************************************************************)
(* No item is lost between the threads: what was written is in the copy of *)
(* its block in memory if the block has one, and on disk otherwise.        *)
(***************************************************************************)
ItemsKept ==
    \A i \in ref :
        LET b == BlockOf(obj, i) IN i \in (IF obj.at[b] = "ram" THEN obj.ram[b] ELSE obj.disk[b])

\* A block is in memory as long as somebody refers to it and no longer, and
\* the pool has a buffer for all of them.
LiveInMemory ==
    /\ \A b \in Blocks(obj.c) : obj.at[b] = "ram" <=> obj.refs[b] > 0
    /\ Cardinality({b \in Blocks(obj.c) : obj.at[b] = "ram"}) <= WriteBlocks(obj.c)

\* After the writer is gone, every block is on disk with all its items and
\* its minimum is known (the assertion of finish_write).
AllWritten ==
    obj.done => \A b \in Blocks(obj.c) :
        obj.at[b] = "disk" /\ obj.disk[b] = ItemsOf(obj.c, b) /\ obj.minima[b] = TRUE

\* "in a full performance build re-reading never occurs" (read_block)
NeverReread == ~obj.reread

---------------------------------------------------------------------------
(* The read phase.  The blocks of an array are used (in memory, being      *)
(* merged), hinted (a read was started), or on disk, in this order.  ram   *)
(* is the set of the blocks the array holds a buffer for, bids that of the *)
(* blocks which are allocated on disk.  vals holds the items in order,     *)
(* item i is vals[i + 1].                                                  *)

num_blocks(e) == Ceil(Len(e.vals), BlockItems)

\* A new array after finish_write.
NewArray(vals, level) ==
    [vals |-> vals, level |-> level, size |-> Len(vals), index |-> 0, end |-> 0, unhinted |-> 0, old |-> 0,
     ram |-> {}, bids |-> 0..(Ceil(Len(vals), BlockItems) - 1)]

get_end_block_index(e) == Ceil(e.end, BlockItems)
get_current_block_index(e) == e.index \div BlockItems
has_em_data(e) == get_end_block_index(e) < num_blocks(e)
has_unhinted_em_data(e) == e.unhinted < num_blocks(e)
BlockMin(e, b) == e.vals[b * BlockItems + 1]
get_next_block_min(e) == BlockMin(e, get_end_block_index(e))
get_next_hintable_min(e) == BlockMin(e, e.unhinted)
num_hinted_blocks(e) == e.unhinted - get_end_block_index(e)
num_used_blocks(e) == get_end_block_index(e) - get_current_block_index(e)

\* The items in memory.
Loaded(e) == SubSeq(e.vals, e.index + 1, e.end)

hint_next_block(e) == [e EXCEPT !.unhinted = @ + 1, !.ram = @ \cup {e.unhinted}]

rebuild_hints_prepare(e) == [e EXCEPT !.old = e.unhinted, !.unhinted = get_end_block_index(e)]
rebuild_hints_prehint_next_block(e) == [e EXCEPT !.unhinted = @ + 1]

\* A mutant: the last one of the hints is forgotten.
CancelShort(e) == [e EXCEPT !.ram = @ \ (e.unhinted..(e.old - 2))]

rebuild_hints_cancel(e) == [e EXCEPT !.ram = @ \ (e.unhinted..(e.old - 1))]
rebuild_hints_finish(e) == [e EXCEPT !.ram = @ \cup (e.old..(e.unhinted - 1))]

\* A mutant: the end of a partly filled last block is that of a full one.
LoadedEndFull(e, b) == b * BlockItems

LoadedEnd(e, b) == Min({Len(e.vals), b * BlockItems})

\* k blocks have arrived, at least the one that is waited for.
wait_next_blocks(e, k) == [e EXCEPT !.end = LoadedEnd(e, get_end_block_index(e) + k)]
wait_all_hinted_blocks(e) == [e EXCEPT !.end = LoadedEnd(e, e.unhinted)]

\* The first block that is still needed when n items are removed.
AfterRemove(e, n) ==
    (e.index + n) \div BlockItems + (IF e.size = n /\ (e.index + n) % BlockItems # 0 THEN 1 ELSE 0)

remove_items(e, n) ==
    IF n = 0 THEN e
    ELSE LET gone == get_current_block_index(e)..(AfterRemove(e, n) - 1)
         IN  [e EXCEPT !.index = @ + n, !.size = @ - n, !.ram = @ \ gone, !.bids = @ \ gone]

\* ~external_array
Destroyed(e) ==
    IF e.size = 0 THEN e
    ELSE [e EXCEPT !.ram = @ \ (get_current_block_index(e)..(e.unhinted - 1)),
                   !.bids = @ \ (get_current_block_index(e)..(num_blocks(e) - 1))]

---------------------------------------------------------------------------
(* ppq_iterator: the block and the position in it follow the index.  The   *)
(* number of blocks is that of the vector of block pointers.               *)

LastOf(e, b) == IF b + 1 = num_blocks(e) THEN Len(e.vals) - b * BlockItems ELSE BlockItems

\* update
Iterator(e, i) == [index |-> i, blk |-> i \div BlockItems, at |-> i % BlockItems]
begin(e) == Iterator(e, e.index)
end(e) == Iterator(e, e.end)

\* A mutant: the iterator stays behind the last item of its block.
IncStays(e, it) == [it EXCEPT !.index = @ + 1, !.at = @ + 1]

Inc(e, it) ==
    IF it.at + 1 # LastOf(e, it.blk) THEN [it EXCEPT !.index = @ + 1, !.at = @ + 1]
    ELSE IF it.blk + 1 < num_blocks(e) THEN [index |-> it.index + 1, blk |-> it.blk + 1, at |-> 0]
    ELSE [index |-> it.index + 1, blk |-> it.blk + 1, at |-> it.at + 1]

Dec(e, it) ==
    IF it.blk >= num_blocks(e) \/ it.at = 0
    THEN [index |-> it.index - 1, blk |-> it.blk - 1, at |-> LastOf(e, it.blk - 1) - 1]
    ELSE [it EXCEPT !.index = @ - 1, !.at = @ - 1]

Plus(e, it, d) == Iterator(e, it.index + d)

---------------------------------------------------------------------------
(* An array, the pool, and the calls the queue makes.                      *)

InitObj == {[e |-> NewArray([i \in 1..n |-> i], 0), free |-> Pool, it |-> Null, gone |-> FALSE] : n \in Capacities}
Init == obj \in InitObj /\ ref = obj.e.vals

\* The buffers an array takes or gives back are those of the pool.
PoolAfter(f, old, new) == f + Cardinality(old.ram) - Cardinality(new.ram)

Become(e) == obj' = [obj EXCEPT !.e = e, !.free = PoolAfter(@, obj.e, e), !.it = Null] /\ UNCHANGED ref
Alive == ~obj.gone /\ obj.e.size > 0

Hint == Alive /\ obj.free > 0 /\ has_unhinted_em_data(obj.e) /\ Become(hint_next_block(obj.e))

\* rebuild_hint_tree: the hints are placed anew, with at most as many buffers
Rehint == \E k \in 0..(obj.free + num_hinted_blocks(obj.e)) :
    LET p == rebuild_hints_prepare(obj.e)
        h[i \in 0..k] == IF i = 0 THEN p ELSE rebuild_hints_prehint_next_block(h[i - 1])
    IN  /\ Alive
        /\ p.unhinted + k <= num_blocks(p)
        /\ Become(rebuild_hints_finish(rebuild_hints_cancel(h[k])))

Wait == \E k \in 1..num_hinted_blocks(obj.e) : Alive /\ Become(wait_next_blocks(obj.e, k))
WaitAll == Alive /\ Become(wait_all_hinted_blocks(obj.e))

Remove == \E n \in 0..(obj.e.end - obj.e.index) :
    /\ Alive
    /\ LET e == remove_items(obj.e, n)
       IN  obj' = [obj EXCEPT !.e = e, !.free = PoolAfter(@, obj.e, e), !.it = Null]
    /\ ref' = SubSeq(ref, n + 1, Len(ref))

Destroy == ~obj.gone
    /\ LET e == Destroyed(obj.e)
       IN  obj' = [obj EXCEPT !.e = e, !.free = PoolAfter(@, obj.e, e), !.it = Null, !.gone = TRUE]
    /\ UNCHANGED ref

\* An iterator over the items in memory.
Start == Alive /\ obj' = [obj EXCEPT !.it = begin(obj.e)] /\ UNCHANGED ref
StartEnd == Alive /\ obj' = [obj EXCEPT !.it = end(obj.e)] /\ UNCHANGED ref
Moves == Alive /\ obj.it # Null /\ UNCHANGED ref
Forward == Moves /\ obj.it.index < obj.e.end /\ obj' = [obj EXCEPT !.it = Inc(obj.e, @)]
Backward == Moves /\ obj.it.index > obj.e.index /\ obj' = [obj EXCEPT !.it = Dec(obj.e, @)]
Jump == Moves /\ \E i \in obj.e.index..obj.e.end :
    obj' = [obj EXCEPT !.it = Plus(obj.e, @, i - obj.it.index)]

Next ==
    \/ Hint \/ Rehint \/ Wait \/ WaitAll \/ Remove \/ Destroy
    \/ Start \/ StartEnd \/ Forward \/ Backward \/ Jump

TypeOK == obj.free \in 0..Pool /\ obj.e.end \in 0..Len(obj.e.vals) /\ obj.e.index \in 0..Len(obj.e.vals)

(***************************************************************************)
(* The array holds a buffer for its used and its hinted blocks and for no  *)
(* other one, the items between index and end are all in memory, and it    *)
(* owns on disk exactly the blocks that still have items.  A destroyed     *)
(* array has given everything back.                                        *)
(***************************************************************************)
BuffersExact ==
    LET e == obj.e
        first == get_current_block_index(e)
    IN  /\ obj.free + Cardinality(e.ram) = Pool
        /\ Alive => /\ e.ram = first..(e.unhinted - 1)
                    /\ e.bids = first..(num_blocks(e) - 1)
                    /\ num_used_blocks(e) + num_hinted_blocks(e) = Cardinality(e.ram)
                    /\ \A i \in e.index..(e.end - 1) : i \div BlockItems \in e.ram
        /\ ~Alive => e.ram = {} /\ e.bids = {}

\* What is left in the array is what was not removed from its front.
ItemsLeft == Len(ref) = obj.e.size /\ SubSeq(obj.e.vals, obj.e.index + 1, Len(obj.e.vals)) = ref

\* Whatever way an iterator came to an item in memory, it points to it.
IteratorRight ==
    obj.it # Null /\ obj.it.index < obj.e.end
        => obj.it.blk * BlockItems + obj.it.at = obj.it.index /\ obj.it.at < LastOf(obj.e, obj.it.blk)
=============================================================================
