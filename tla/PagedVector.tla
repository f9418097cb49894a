---------------------------- MODULE PagedVector ----------------------------
(***************************************************************************)
(* stxxl::vector: elements in blocks, blocks in pages, pages in the slots  *)
(* of a cache under a pager; and vector_bufwriter, vector_bufreader and    *)
(* vector_bufreader_reverse, which go around the cache.                    *)
(*                                                                         *)
(* The model follows the value of one element, which one is chosen at the  *)
(* start (watch): a cell of a cache slot, disk block or write buffer holds *)
(* TRUE when it has the last value written to that element.                *)
(***************************************************************************)
EXTENDS Integers, Sequences, SequencesExt, FiniteSets

CONSTANTS
    BSize,       \* block_type::size
    PageSizes,   \* the possible values of page_size
    NumPages,    \* numpages(), the slots of the cache
    MaxElems,    \* bound: no resize beyond this size by the user
    MaxBlocks,   \* bound: addresses on disk
    WatchSet,    \* the elements to follow
    MayShrink,   \* whether resize(n, true) is called
    Null

VARIABLES
    obj,  \* the vector, with a writer on it or Null
    ref   \* {watch} if the element is below size() and was written, or {}

vars == <<obj, ref>>

Slots == 0..(NumPages - 1)
on_disk == -1
DivCeil(a, b) == (a + b - 1) \div b
Pages(s) == DOMAIN s.status
OldBlock == [e \in 0..(BSize - 1) |-> FALSE]
OldPage(s) == [c \in 0..(s.ps * BSize - 1) |-> FALSE]

\* std::vector::resize.
Resized(f, n, d) == [i \in 0..(n - 1) |-> IF i \in DOMAIN f THEN f[i] ELSE d]

-----------------------------------------------------------------------------
(* double_blocked_index *)

Index(s, pos) == [block2 |-> pos \div (s.ps * BSize), block1 |-> (pos \div BSize) % s.ps,
                  offset |-> pos % BSize]

\* A mutant: the carry into block2 is forgotten.
IncNoCarry(s, x) ==
    IF x.offset + 1 # BSize THEN [x EXCEPT !.offset = @ + 1]
    ELSE [x EXCEPT !.offset = 0, !.block1 = (@ + 1) % s.ps]

Inc(s, x) ==
    IF x.offset + 1 # BSize THEN [x EXCEPT !.offset = @ + 1]
    ELSE IF x.block1 + 1 # s.ps THEN [x EXCEPT !.offset = 0, !.block1 = @ + 1]
    ELSE [block2 |-> x.block2 + 1, block1 |-> 0, offset |-> 0]

Dec(s, x) ==
    IF x.offset # 0 THEN [x EXCEPT !.offset = @ - 1]
    ELSE IF x.block1 # 0 THEN [x EXCEPT !.offset = BSize - 1, !.block1 = @ - 1]
    ELSE [block2 |-> x.block2 - 1, block1 |-> s.ps - 1, offset |-> BSize - 1]

PageOf(s, pos) == Index(s, pos).block2
Cell(s, pos) == LET x == Index(s, pos) IN x.block1 * BSize + x.offset
BidOf(s, pos) == LET x == Index(s, pos) IN s.bids[x.block2 * s.ps + x.block1 + 1]

-----------------------------------------------------------------------------
(* Pager and pages. *)

\* lru_pager: the slots by last use; random_pager may kick any.
Hit(s, slot) ==
    IF s.pager = "random" THEN s
    ELSE [s EXCEPT !.hist = <<slot>> \o SelectSeq(@, LAMBDA x : x # slot)]
Kicks(s) == IF s.pager = "lru" THEN {Last(s.hist)} ELSE Slots

\* The blocks of a page that exist.
BlocksOf(s, page) == {b \in (page * s.ps)..(page * s.ps + s.ps - 1) : b < Len(s.bids)}

\* A page that was never written is not read: the slot keeps what it had,
\* which is nothing current for this page.
read_page(s, page, slot) ==
    [s EXCEPT !.cache[slot] =
        [c \in DOMAIN @ |->
            LET b == page * s.ps + c \div BSize
            IN  s.status[page] # "uninitialized" /\ b < Len(s.bids)
                  /\ s.disk[s.bids[b + 1]][c % BSize]]]

write_page(s, page, slot) ==
    IF s.status[page] # "dirty" THEN s
    ELSE [s EXCEPT
            !.disk = [a \in DOMAIN @ |->
                IF \E b \in BlocksOf(s, page) : s.bids[b + 1] = a
                THEN LET b == CHOOSE x \in BlocksOf(s, page) : s.bids[x + 1] = a
                     IN  [e \in DOMAIN OldBlock |-> s.cache[slot][(b % s.ps) * BSize + e]]
                ELSE @[a]],
            !.status[page] = "valid_on_disk"]

\* m_page_to_slot[page] = slot and an access out of its bounds.
SetSlot(s, page, slot) ==
    IF page \in Pages(s) THEN [s EXCEPT !.p2s[page] = slot] ELSE [s EXCEPT !.oob = TRUE]

\* The part of element and const_element that brings the page into the cache;
\* kicked is the slot the pager chooses if none is free.
Locate(s, page, kicked) ==
    LET slot == s.p2s[page]
        old == s.s2p[kicked]
        t == [SetSlot([s EXCEPT !.p2s[page] = kicked], old, on_disk)
                 EXCEPT !.s2p[kicked] = page]
        free == Head(s.free)
        u == [s EXCEPT !.free = Tail(@), !.p2s[page] = free, !.s2p[free] = page]
    IN  IF slot # on_disk THEN Hit(s, slot)
        ELSE IF s.free # <<>> THEN read_page(Hit(u, free), page, free)
        ELSE IF t.oob THEN t
        ELSE read_page(write_page(Hit(t, kicked), old, kicked), page, kicked)

const_element(s, pos, kicked) == Locate(s, PageOf(s, pos), kicked)

element(s, pos, kicked) ==
    [Locate(s, PageOf(s, pos), kicked) EXCEPT !.status[PageOf(s, pos)] = "dirty"]

\* The copy of an element on disk is not the last value any more.
Outdate(s, pos) == [s EXCEPT !.disk[BidOf(s, pos)][pos % BSize] = FALSE]

\* element(pos) = value
Stored(s, pos) ==
    IF s.oob THEN s
    ELSE [Outdate(s, pos) EXCEPT !.cache[s.p2s[PageOf(s, pos)]][Cell(s, pos)] = (pos = s.watch)]
Assign(s, pos, kicked) == Stored(element(s, pos, kicked), pos)

-----------------------------------------------------------------------------
(* Size and capacity. *)

FreshAddresses(s, n) ==
    SetToSortSeq({a \in 1..MaxBlocks : a \notin s.alloc
                    /\ Cardinality({x \in 1..a : x \notin s.alloc}) <= n}, <)

reserve(s, n) ==
    LET blocks == DivCeil(n, BSize)
        pages == DivCeil(blocks, s.ps)
        new == FreshAddresses(s, blocks - Len(s.bids))
    IN  IF n <= Len(s.bids) * BSize THEN s
        ELSE [s EXCEPT !.status = Resized(@, pages, "uninitialized"),
                       !.p2s = Resized(@, pages, on_disk),
                       !.bids = @ \o new,
                       !.alloc = @ \cup ToSet(new),
                       !.disk = [a \in DOMAIN @ |-> IF a \in ToSet(new) THEN OldBlock ELSE @[a]]]

\* A mutant: a page that is evicted keeps its state.
EvictedStatusKept(s, page) == s.status[page]

EvictedStatus(s, page) == "uninitialized"

\* _resize: pages beyond the new size leave the cache.
Resize(s, n) ==
    LET t == reserve(s, n)
        out == {p \in Pages(t) : p >= DivCeil(n, BSize * s.ps)}
        cached == SetToSortSeq({p \in out : t.p2s[p] # on_disk}, <)
    IN  [IF n < s.m_size
         THEN [t EXCEPT !.free = @ \o [i \in DOMAIN cached |-> t.p2s[cached[i]]],
                        !.p2s = [p \in DOMAIN @ |-> IF p \in out THEN on_disk ELSE @[p]],
                        !.status = [p \in DOMAIN @ |-> IF p \in out
                                                       THEN EvictedStatus(t, p) ELSE @[p]]]
         ELSE t EXCEPT !.m_size = n]

\* _resize_shrink_capacity: delete_blocks is called with the old number of
\* blocks, an empty range.
ResizeShrink(s, n) ==
    LET blocks == DivCeil(n, BSize)
        pages == DivCeil(blocks, s.ps)
        t == IF blocks > Len(s.bids) THEN reserve(s, n)
             ELSE IF blocks < Len(s.bids)
             THEN [s EXCEPT !.bids = SubSeq(@, 1, blocks),
                            !.status = [p \in DOMAIN @ |-> IF p >= pages THEN "valid_on_disk"
                                                           ELSE @[p]]]
             ELSE s
    IN  [t EXCEPT !.m_size = n]

\* Mutants: the slots of the cache are not freed; the blocks are not deleted.
clear_slots(s) == [s EXCEPT !.m_size = 0, !.alloc = @ \ ToSet(s.bids), !.bids = <<>>,
                            !.status = <<>>, !.p2s = <<>>, !.skipped = {}]
clear_keep(s) == [s EXCEPT !.m_size = 0, !.bids = <<>>, !.status = <<>>, !.p2s = <<>>,
                           !.skipped = {}, !.free = [i \in 1..NumPages |-> i - 1]]

clear(s) == [s EXCEPT !.m_size = 0, !.alloc = @ \ ToSet(s.bids), !.bids = <<>>,
                      !.status = <<>>, !.p2s = <<>>, !.skipped = {},
                      !.free = [i \in 1..NumPages |-> i - 1]]

flush(s) ==
    LET WriteSlot(t, slot) ==
            IF slot \in ToSet(s.free) THEN t
            ELSE IF s.s2p[slot] \notin Pages(t) THEN [t EXCEPT !.oob = TRUE]
            ELSE SetSlot(write_page(t, s.s2p[slot], slot), s.s2p[slot], on_disk)
    IN  [FoldLeft(WriteSlot, s, [i \in 1..NumPages |-> i - 1])
            EXCEPT !.free = [i \in 1..NumPages |-> i - 1]]

\* A page that blocks were written to around the cache.
page_externally_updated(s, page) ==
    [s EXCEPT !.free = IF s.p2s[page] # on_disk THEN Append(@, s.p2s[page]) ELSE @,
              !.p2s[page] = on_disk, !.status[page] = "valid_on_disk"]

NewVector(ps, pager, n, watch) ==
    reserve([ps |-> ps, watch |-> watch, pager |-> pager, m_size |-> n, bids |-> <<>>, status |-> <<>>, p2s |-> <<>>,
             s2p |-> [i \in Slots |-> on_disk], free |-> [i \in 1..NumPages |-> i - 1],
             hist |-> [i \in 1..NumPages |-> i - 1],
             cache |-> [i \in Slots |-> [c \in 0..(ps * BSize - 1) |-> FALSE]],
             disk |-> [a \in 1..MaxBlocks |-> OldBlock], alloc |-> {},
             w |-> Null, skipped |-> {}, oob |-> FALSE], n)

-----------------------------------------------------------------------------
(* vector_bufwriter: it is m_iter, end is m_end, prev is m_prevblk, out     *)
(* says that m_bufout exists; the buf_ostream writes block number obid.     *)

NewWriter(s, pos) == [it |-> pos, end |-> s.m_size, grown |-> FALSE, prev |-> pos,
                      out |-> FALSE, obid |-> 0, oel |-> 0, oblk |-> OldBlock]

\* buf_ostream: a full block, or any on flush, goes to the next BID.
OutWrite(s) == [s EXCEPT !.disk[s.bids[s.w.obid + 1]] = s.w.oblk,
                         !.w.obid = @ + 1, !.w.oel = 0, !.w.oblk = OldBlock]
OutFull(s) == IF s.w.oel >= BSize THEN OutWrite(s) ELSE s
OutPut(s, cell) == OutFull([s EXCEPT !.w.oblk[s.w.oel] = cell, !.w.oel = @ + 1])

\* The part of operator * that enlarges the vector.  When the last block is
\* complete, nothing tells the vector about it.
WriterGrow(s) ==
    LET part == s.w.it % BSize # 0
        page == PageOf(s, s.w.it)
        t == IF ~s.w.out THEN s
             ELSE IF part THEN page_externally_updated([OutWrite(s) EXCEPT !.w.out = FALSE], page)
             ELSE [s EXCEPT !.w.out = FALSE, !.skipped = @ \cup {PageOf(s, s.w.prev)}]
        n == IF s.m_size < 2 * BSize THEN 2 * BSize ELSE 2 * s.m_size
    IN  [Resize(t, n) EXCEPT !.w.end = n, !.w.grown = TRUE]

\* A mutant: the block just finished is never announced.
AnnounceNever(s) == s

\* if the pointer has finished a block, the vector is informed.
Announce(s) ==
    IF s.w.it % BSize = 0 /\ s.w.prev # s.w.it
    THEN [page_externally_updated(s, PageOf(s, s.w.prev)) EXCEPT !.w.prev = s.w.it]
    ELSE s

\* operator <<
WriterOpen(s) == [flush(s) EXCEPT !.w.out = TRUE, !.w.obid = s.w.it \div BSize, !.w.oel = 0,
                                  !.w.oblk = OldBlock, !.w.prev = s.w.it]
WriterStore(s, kicked) ==
    IF ~s.w.out /\ s.w.it % BSize # 0 THEN Assign(s, s.w.it, kicked)
    ELSE OutPut(Outdate(IF s.w.out THEN Announce(s) ELSE WriterOpen(s), s.w.it), s.w.it = s.watch)
WriterPut(s, kicked) ==
    [WriterStore(IF s.w.it = s.w.end THEN WriterGrow(s) ELSE s, kicked) EXCEPT !.w.it = @ + 1]

\* finish: the block that was begun is completed with what the vector has.
FillOne(s, pos) == OutPut(s, s.cache[s.p2s[PageOf(s, pos)]][Cell(s, pos)])
Filled(s, kicked) ==
    LET rest == IF s.w.it % BSize = 0 THEN 0 ELSE BSize - (s.w.it % BSize)
        Fill(t, i) == FillOne(const_element(t, s.w.it + i - 1, kicked), s.w.it + i - 1)
    IN  FoldLeft(Fill, s, [i \in 1..rest |-> i])
OutDone(s, kicked) ==
    IF ~s.w.out THEN s
    ELSE IF s.w.prev # s.w.it THEN page_externally_updated(Filled(s, kicked), PageOf(s, s.w.prev))
    ELSE Filled(s, kicked)
ShrinkGrown(s) == IF s.w.grown THEN Resize(s, s.w.it) ELSE s
WriterFinish(s, kicked) == [ShrinkGrown(OutDone(s, kicked)) EXCEPT !.w = Null]

-----------------------------------------------------------------------------
(* vector_bufreader: a flush, then blocks from disk. *)

\* buf_istream over the blocks from first on, after n steps of operator ++.
StreamCell(s, first, n) == s.disk[s.bids[first + n \div BSize + 1]][n % BSize]

\* A mutant: the reader does not skip.
ReaderNoSkip(s, begin, i) == StreamCell(s, begin \div BSize, i - 1)

\* What the i-th element read is: the reader skips the start of its block.
ReaderElem(s, begin, i) == StreamCell(s, begin \div BSize, (begin % BSize) + i - 1)

\* buf_istream_reverse starts at the end of the last block; the reader skips
\* what is behind its range.
ReverseElem(s, end, i) ==
    LET last == end \div BSize + (IF end % BSize # 0 THEN 1 ELSE 0)
        skip == IF end % BSize = 0 THEN 0 ELSE BSize - (end % BSize)
        n == skip + i - 1
    IN  s.disk[s.bids[last - (n \div BSize)]][BSize - 1 - (n % BSize)]

-----------------------------------------------------------------------------
TypeOK ==
    /\ ref \subseteq 0..(obj.m_size - 1) \cup (IF obj.w = Null THEN {} ELSE 0..(obj.w.it - 1))
    /\ obj.m_size <= Len(obj.bids) * BSize
    /\ DOMAIN obj.status = DOMAIN obj.p2s
    /\ Range(obj.status) \subseteq {"valid_on_disk", "uninitialized", "dirty"}
    /\ Range(obj.p2s) \subseteq Slots \cup {on_disk} /\ ToSet(obj.free) \subseteq Slots
    /\ ToSet(obj.hist) = Slots /\ Len(obj.hist) = NumPages

Init ==
    /\ \E ps \in PageSizes, pager \in {"lru", "random"}, n \in {0, 1}, watch \in WatchSet :
          obj = NewVector(ps, pager, n, watch)
    /\ ref = {}

\* No call after undefined behaviour, and only the writer's while there is one.
Ready == ~obj.oob /\ obj.w = Null

\* What nobody reads any more: free slots and blocks, the copies of an
\* element that is gone.
Tidy(s, written) ==
    [s EXCEPT !.s2p = [i \in Slots |-> IF i \in ToSet(s.free) THEN on_disk ELSE @[i]],
              !.cache = [i \in Slots |-> IF i \in ToSet(s.free) \/ written = {}
                                         THEN OldPage(s) ELSE @[i]],
              !.disk = [a \in DOMAIN @ |-> IF a \notin s.alloc \/ written = {}
                                           THEN OldBlock ELSE @[a]]]

Becomes(s, written) == ref' = written /\ obj' = Tidy(s, written)

Watched(pos) == {pos} \cap {obj.watch}
Below(n) == {i \in ref : i < n}

\* v[i] = value, front(), back(), iterators.
Write ==
    /\ Ready
    /\ \E i \in 0..(obj.m_size - 1), k \in Kicks(obj) :
          Becomes(Assign(obj, i, k), ref \cup Watched(i))

\* const access.
ReadElem ==
    /\ Ready
    /\ \E i \in 0..(obj.m_size - 1), k \in Kicks(obj) :
          Becomes(const_element(obj, i, k), ref)

push_back ==
    /\ Ready /\ obj.m_size < MaxElems
    /\ \E k \in Kicks(obj) : Becomes(Assign(Resize(obj, obj.m_size + 1), obj.m_size, k),
                                      ref \cup Watched(obj.m_size))

DoResize ==
    /\ Ready
    /\ \E n \in 0..MaxElems :
          \/ Becomes(Resize(obj, n), Below(n))
          \/ MayShrink /\ Becomes(ResizeShrink(obj, n), Below(n))

DoClear == Ready /\ Becomes(clear(obj), {})
DoFlush == Ready /\ Becomes(flush(obj), ref)

OpenWriter ==
    /\ Ready
    /\ \E p \in 0..obj.m_size : obj' = [obj EXCEPT !.w = NewWriter(obj, p)]
    /\ UNCHANGED ref

Put ==
    /\ ~obj.oob /\ obj.w # Null /\ obj.w.it < MaxElems
    /\ \E k \in Kicks(obj) : Becomes(WriterPut(obj, k), ref \cup Watched(obj.w.it))

Finish ==
    /\ ~obj.oob /\ obj.w # Null
    /\ \E k \in Kicks(obj) : Becomes(WriterFinish(obj, k),
                                      IF obj.w.grown THEN Below(obj.w.it) ELSE ref)

Next == Write \/ ReadElem \/ push_back \/ DoResize \/ DoClear \/ DoFlush
          \/ OpenWriter \/ Put \/ Finish

Spec == Init /\ [][Next]_vars

-----------------------------------------------------------------------------
(* Properties. *)

\* What an access to the element would find now.
Reads(s, pos) ==
    LET page == PageOf(s, pos)
    IN  IF s.p2s[page] # on_disk THEN s.cache[s.p2s[page]][Cell(s, pos)]
        ELSE s.status[page] # "uninitialized" /\ s.disk[BidOf(s, pos)][pos % BSize]

\* An element that was written keeps its last value, through evictions,
\* resizes, flushes and buffered writers.  The exception are pages the writer
\* skipped when it enlarged the vector (see WriterWritesAll).
VectorHolds ==
    obj.w = Null /\ ~obj.oob =>
        \A i \in ref : PageOf(obj, i) \notin obj.skipped => Reads(obj, i)

\* What the comment on vector_bufwriter says: it writes a region of a vector
\* and enlarges the vector at its end.  So all that is written can be read.
WriterWritesAll == obj.w = Null /\ ~obj.oob => \A i \in ref : Reads(obj, i)

\* Slots and pages are mapped to each other: a slot that is not free holds a
\* page of the vector, which is mapped to it, and no slot is free twice.  This
\* is what _resize_shrink_capacity wants to keep by not resizing the map.
SlotsMapped ==
    /\ \A i \in Slots \ ToSet(obj.free) :
          obj.s2p[i] \in Pages(obj) /\ obj.p2s[obj.s2p[i]] = i
    /\ \A p \in Pages(obj) :
          obj.p2s[p] # on_disk => obj.p2s[p] \notin ToSet(obj.free)
    /\ Len(obj.free) = Cardinality(ToSet(obj.free))

\* A dirty page is in the cache: a page marked dirty and not there would be
\* taken for written and never be.
DirtyIsCached ==
    \A p \in Pages(obj) : obj.status[p] = "dirty" => obj.p2s[p] # on_disk

\* The vector owns the blocks it has allocated and no others.
NoBlockLost == obj.alloc = ToSet(obj.bids) /\ Len(obj.bids) = Cardinality(obj.alloc)

\* After a flush, the buffered readers deliver the elements of any range, in
\* order and in reverse order.
ReadersInOrder ==
    Ready /\ obj.skipped = {} =>
        LET s == flush(obj)
        IN  \A b \in 0..s.m_size : \A e \in b..s.m_size : \A i \in 1..(e - b) :
                /\ b + i - 1 \in ref => ReaderElem(s, b, i)
                /\ e - i \in ref => ReverseElem(s, e, i)

\* Stepping a blocked index is adding or subtracting one.
IndexSteps ==
    \A p \in 0..(2 * MaxElems) :
        /\ Inc(obj, Index(obj, p)) = Index(obj, p + 1)
        /\ p > 0 => Dec(obj, Index(obj, p)) = Index(obj, p - 1)
=============================================================================
