------------------------------- MODULE Stacks -------------------------------
(***************************************************************************)
(* The stacks of containers/stack.h.  A page is blocks_per_page blocks of  *)
(* BlockElems elements and is kept as one array; block number b of the     *)
(* stack is kept at disk[b], the place its BID names, so a block that is   *)
(* allocated again is allocated where the deleted one was.  A request that *)
(* is not waited for by the call that issues it takes effect at any time   *)
(* until it is waited for (Complete).  The prefetch pool of                *)
(* grow_shrink_stack2 is abstracted to the set of blocks it holds; that    *)
(* the pools return the latest data is the subject of module Pools.        *)
(***************************************************************************)
EXTENDS Integers, Sequences, SequencesExt

CONSTANTS
    blocks_per_page,
    BlockElems,     \* block_type::size
    critical_size,  \* of migrating_stack
    MaxSize,        \* bound: no push beyond this size
    MaxAggr,        \* bound: largest prefetch aggressiveness
    Values,
    Null            \* no object, no request, an element nobody wrote

VARIABLES
    obj,  \* the stack object
    ref   \* what the user pushed and did not pop

vars == <<obj, ref>>

PageElems == blocks_per_page * BlockElems
Kinds == {"normal", "grow_shrink", "grow_shrink2"}

-----------------------------------------------------------------------------
(* Pages, blocks and requests. *)

EmptyPage == [i \in 0..(PageElems - 1) |-> Null]
EmptyBlock == [i \in 0..(BlockElems - 1) |-> Null]

\* Block i of a page, and a page with its block i replaced.
BlockOf(page, i) == [e \in 0..(BlockElems - 1) |-> page[i * BlockElems + e]]
WithBlock(page, i, block) ==
    [e \in DOMAIN page |-> IF e \div BlockElems = i THEN block[e % BlockElems] ELSE page[e]]

Other(p) == 3 - p
Slots == 0..(blocks_per_page - 1)

\* The transfer of block i of page p to or from the disk.
Write(s, p, i, b) == [s EXCEPT !.disk[b] = BlockOf(s.page[p], i)]
Read(s, p, i, b) == [s EXCEPT !.page[p] = WithBlock(@, i, s.disk[b])]

\* requests[i] is done, at the latest when it is waited for.
Complete(s, i) ==
    LET r == s.requests[i]
        t == [s EXCEPT !.requests[i] = Null]
    IN  IF r = Null THEN s
        ELSE IF r.op = "write" THEN Write(t, r.page, i, r.bid) ELSE Read(t, r.page, i, r.bid)

WaitAll(s) == FoldLeft(Complete, s, [k \in 1..blocks_per_page |-> k - 1])

-----------------------------------------------------------------------------
(* Construction. *)

\* page[first] is back_page, cache_buffers or cache; current is where
\* current_element points.
NewStack(kind) ==
    [kind |-> kind, m_size |-> 0, cache_offset |-> 0, current |-> <<1, 0>>,
     page |-> [p \in {1, 2} |-> EmptyPage], first |-> 1,
     requests |-> [i \in Slots |-> Null],
     bids |-> 0, disk |-> [b \in 1..(MaxSize + 2 * PageElems) |-> EmptyBlock],
     pref_aggr |-> 0, hints |-> {}]

Top(s) == s.page[s.current[1]][s.current[2]]

\* current_element = ..., *current_element = val
Put(s, p, off, v) == [s EXCEPT !.current = <<p, off>>, !.page[p][off] = v]

-----------------------------------------------------------------------------
(* normal_stack: both pages are cache, the requests are waited for at once. *)

\* normal_stack::element
Element(s, offset) ==
    IF offset < PageElems THEN <<s.first, offset>> ELSE <<Other(s.first), offset - PageElems>>

NormalPush(s, v) ==
    IF s.cache_offset = 2 * PageElems
    THEN LET grown == [s EXCEPT !.bids = @ + blocks_per_page]
             WriteBack(t, k) == Write(t, s.first, k - 1, s.bids + k)
             written == FoldLeft(WriteBack, grown, [k \in 1..blocks_per_page |-> k])
             swapped == [written EXCEPT !.first = Other(@), !.cache_offset = PageElems + 1,
                                        !.m_size = @ + 1]
         IN  Put(swapped, Other(swapped.first), 0, v)
    ELSE LET e == Element(s, s.cache_offset)
         IN  Put([s EXCEPT !.m_size = @ + 1, !.cache_offset = @ + 1], e[1], e[2], v)

NormalPop(s) ==
    IF s.cache_offset = 1 /\ s.bids >= blocks_per_page
    THEN LET front == Other(s.first)
             base == s.bids - blocks_per_page
             ReadFront(t, k) == Read(t, front, k - 1, base + k)
             filled == FoldLeft(ReadFront, s, [k \in 1..blocks_per_page |-> k])
         IN  [filled EXCEPT !.first = front, !.cache_offset = PageElems, !.m_size = @ - 1,
                            !.current = <<front, PageElems - 1>>, !.bids = base]
    ELSE [s EXCEPT !.m_size = @ - 1, !.cache_offset = @ - 1,
                   !.current = IF s.cache_offset = 1 THEN @ ELSE Element(s, s.cache_offset - 2)]

-----------------------------------------------------------------------------
(* grow_shrink_stack: one page is cache, the other overlaps its I/O.        *)

\* requests[i] is waited for, then replaced by the write of block i.
Reuse(s, i, r) == [Complete(s, i) EXCEPT !.requests[i] = r]

GrowPush(s, v) ==
    IF s.cache_offset = PageElems
    THEN LET grown == [s EXCEPT !.bids = @ + blocks_per_page]
             Issue(t, k) ==
                 Reuse(t, k - 1, [op |-> "write", page |-> s.first, bid |-> s.bids + k])
             issued == FoldLeft(Issue, grown, [k \in 1..blocks_per_page |-> k])
         IN  Put([issued EXCEPT !.first = Other(@), !.cache_offset = 1, !.m_size = @ + 1],
                 Other(s.first), 0, v)
    ELSE Put([s EXCEPT !.m_size = @ + 1, !.cache_offset = @ + 1], s.first, s.cache_offset, v)

\* A mutant: the pending prefetch is not waited for.
GrowPopEager(s) ==
    LET base == s.bids - blocks_per_page
        Prefetch(t, k) ==
            [t EXCEPT !.requests[k - 1] =
                [op |-> "read", page |-> s.first, bid |-> base - blocks_per_page + k]]
    IN  IF s.cache_offset = 1 /\ s.bids >= blocks_per_page
        THEN [IF s.bids > blocks_per_page
              THEN FoldLeft(Prefetch, s, [k \in 1..blocks_per_page |-> k]) ELSE s EXCEPT
                 !.first = Other(@), !.bids = base, !.cache_offset = PageElems,
                 !.m_size = @ - 1, !.current = <<Other(s.first), PageElems - 1>>]
        ELSE [s EXCEPT !.m_size = @ - 1, !.cache_offset = @ - 1,
                       !.current = <<s.first, IF s.cache_offset = 1 THEN 0 ELSE s.cache_offset - 2>>]

GrowPop(s) ==
    IF s.cache_offset = 1 /\ s.bids >= blocks_per_page
    THEN LET waited == WaitAll(s)   \* once a request was ever issued
             base == s.bids - blocks_per_page
             Prefetch(t, k) ==
                 [t EXCEPT !.requests[k - 1] =
                     [op |-> "read", page |-> s.first, bid |-> base - blocks_per_page + k]]
             hinted == IF s.bids > blocks_per_page
                       THEN FoldLeft(Prefetch, waited, [k \in 1..blocks_per_page |-> k])
                       ELSE waited
         IN  [hinted EXCEPT !.first = Other(@), !.bids = base, !.cache_offset = PageElems,
                            !.m_size = @ - 1, !.current = <<Other(s.first), PageElems - 1>>]
    ELSE [s EXCEPT !.m_size = @ - 1, !.cache_offset = @ - 1,
                   !.current = <<s.first, IF s.cache_offset = 1 THEN 0 ELSE s.cache_offset - 2>>]

-----------------------------------------------------------------------------
(* grow_shrink_stack2: a cache of one block, and hints to the pool.         *)

\* rehint: the pool prefetches the last pref_aggr blocks.
rehint(s) ==
    [s EXCEPT !.hints = @ \cup {b \in 1..s.bids : b > s.bids - s.pref_aggr}]

\* A mutant: push does not clean the prefetch buffers.
CleanedNot(s, b) == s.hints

\* The hints after push wrote block b: those of the blocks below are dropped.
Cleaned(s, b) == s.hints \ {h \in 1..(b - 1) : h >= b - s.pref_aggr}

\* push writes the cache to a new block.
Grow2Push(s, v) ==
    LET full == s.cache_offset = BlockElems
        b == s.bids + 1
        grown == [Write(s, 1, 0, b) EXCEPT !.bids = b, !.cache_offset = 0,
                                           !.hints = Cleaned(s, b)]
        t == IF full THEN grown ELSE s
    IN  Put([t EXCEPT !.m_size = @ + 1, !.cache_offset = @ + 1], 1, t.cache_offset, v)

\* pop takes the last block out of the pool, deletes it and hints anew.
Grow2Pop(s) ==
    LET last == s.bids
        t == rehint([Read(s, 1, 0, last) EXCEPT !.bids = @ - 1, !.hints = @ \ {last}])
        u == IF s.cache_offset = 1 /\ s.bids > 0
             THEN [t EXCEPT !.cache_offset = BlockElems + 1] ELSE s
    IN  [u EXCEPT !.cache_offset = @ - 1, !.m_size = @ - 1,
                  !.current = <<1, IF u.cache_offset < 2 THEN 0 ELSE u.cache_offset - 2>>]

set_prefetch_aggr(s, new_p) ==
    rehint([s EXCEPT !.pref_aggr = new_p,
                     !.hints = IF s.pref_aggr > new_p
                               THEN @ \ {h \in 1..s.bids : /\ h <= s.bids - new_p
                                                           /\ h > s.bids - s.pref_aggr}
                               ELSE @])

-----------------------------------------------------------------------------
(* The operations of the external stack, whatever its kind.                 *)

ExtPush(s, v) ==
    CASE s.kind = "normal" -> NormalPush(s, v)
      [] s.kind = "grow_shrink" -> GrowPush(s, v)
      [] s.kind = "grow_shrink2" -> Grow2Push(s, v)

ExtPop(s) ==
    CASE s.kind = "normal" -> NormalPop(s)
      [] s.kind = "grow_shrink" -> GrowPop(s)
      [] s.kind = "grow_shrink2" -> Grow2Pop(s)

\* The constructor from another stack: its elements from bottom to top.
CopyOf(kind, contents) == FoldLeft(ExtPush, NewStack(kind), contents)

\* migrating_stack before it migrates: int_impl, a std::stack.
Internal(seq) == [kind |-> "internal", seq |-> seq]

\* migrating_stack::push: internal until the critical size is reached.
MigratingPush(s, kind, v) ==
    IF Len(s.seq) + 1 = critical_size THEN CopyOf(kind, Append(s.seq, v))
    ELSE Internal(Append(s.seq, v))

-----------------------------------------------------------------------------
TypeOK ==
    /\ ref \in Seq(Values)
    /\ IF obj.kind = "internal" THEN obj.seq \in Seq(Values)
       ELSE /\ obj.kind \in Kinds
            /\ obj.m_size \in Nat /\ obj.bids \in Nat /\ obj.cache_offset \in 0..(2 * PageElems)
            /\ obj.hints \subseteq 1..(MaxSize + 2 * PageElems)

Init == ref = <<>> /\ obj \in {NewStack(k) : k \in Kinds} \cup {Internal(<<>>)}

push(v) ==
    /\ Len(ref) < MaxSize
    /\ IF obj.kind = "internal"
       THEN \E k \in {"normal", "grow_shrink"} : obj' = MigratingPush(obj, k, v)
       ELSE obj' = ExtPush(obj, v)
    /\ ref' = Append(ref, v)

pop ==
    /\ ref # <<>>
    /\ obj' = IF obj.kind = "internal" THEN Internal(Front(obj.seq)) ELSE ExtPop(obj)
    /\ ref' = Front(ref)

SetAggr(p) ==
    /\ obj.kind = "grow_shrink2"
    /\ obj' = set_prefetch_aggr(obj, p)
    /\ UNCHANGED ref

\* A pending request takes effect.
RequestDone(i) ==
    /\ obj.kind = "grow_shrink" /\ obj.requests[i] # Null
    /\ obj' = Complete(obj, i)
    /\ UNCHANGED ref

Next ==
    \/ \E v \in Values : push(v)
    \/ pop
    \/ \E p \in 0..MaxAggr : SetAggr(p)
    \/ \E i \in Slots : RequestDone(i)

Spec == Init /\ [][Next]_vars

-----------------------------------------------------------------------------
(* Properties. *)

\* The elements of the stack, from bottom to top: the blocks on disk, then
\* the cache up to cache_offset.
Contents(s) ==
    LET t == WaitAll(s)
        Cell(j) ==    \* element j of the cache
            IF s.kind = "normal" THEN t.page[Element(t, j)[1]][Element(t, j)[2]]
            ELSE t.page[t.first][j]
    IN  [j \in 1..(t.bids * BlockElems) |-> t.disk[(j - 1) \div BlockElems + 1][(j - 1) % BlockElems]]
          \o [j \in 1..t.cache_offset |-> Cell(j - 1)]

\* Whatever the order of pushes, pops and completions, the stack holds what
\* was pushed and not popped, in order: on disk, in flight and in the cache;
\* size() is its length and top() its last element.  A buffer reused before
\* its write is done, or a page read too late, would break it.
StackHoldsPushed ==
    IF obj.kind = "internal" THEN obj.seq = ref
    ELSE /\ Contents(obj) = ref
         /\ obj.m_size = Len(ref)
         /\ ref # <<>> => Top(obj) = Last(ref)

\* No pending request of a grow_shrink_stack concerns a block that the stack
\* has given back to the block manager.
NoTransferOfFreedBlock ==
    obj.kind = "grow_shrink" =>
        \A i \in Slots : obj.requests[i] # Null => obj.requests[i].bid \in 1..obj.bids

\* The prefetch pool of grow_shrink_stack2 holds no block that the stack does
\* not own, and only blocks among the last pref_aggr ones: a block that is
\* written again is never found in the pool with its old data.
HintsAreOwned ==
    obj.kind = "grow_shrink2" =>
        \A h \in obj.hints : h \in 1..obj.bids /\ h > obj.bids - obj.pref_aggr
=============================================================================
