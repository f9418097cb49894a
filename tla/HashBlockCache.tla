-------------------------- MODULE HashBlockCache --------------------------
(***************************************************************************)
(* stxxl::hash_map::block_cache with its write buffer, and the readers     *)
(* (buffered_reader) with which a map is scanned.                          *)
(*                                                                         *)
(* Blocks are numbered in the order of the scan, a subblock is one value.  *)
(* The content is followed for block 1 only: cur, disk and the writes in   *)
(* wr say which of its subblocks are up to date in the cache, on disk and  *)
(* in a buffer on its way there.                                           *)
(***************************************************************************)
EXTENDS Integers, Sequences, SequencesExt, FiniteSets, FiniteSetsExt

CONSTANTS
    Size,          \* slots of the cache
    NBlocks,       \* blocks of the map
    NSubs,         \* subblocks of a block
    WriteBuffers,  \* disks_number() * 2
    PageSize, PrefetchPages,
    Readers,
    May,           \* "unretained": a reader moves to a block that is not cached;
                   \* "shared": a reader starts at a block where another one is;
                   \* "overtake": a read may be served before an earlier write
    Null

VARIABLES
    obj,  \* the cache and its readers
    ref   \* not used: what block 1 should hold is what was written last

vars == <<obj, ref>>

Slots == 1..Size
Blocks == 1..NBlocks
Subs == 1..NSubs
All == 0                  \* valid_all
EndBid == NBlocks + 1     \* end_bid_
Watched == 1

NewCache ==
    [map |-> <<>>, retain |-> [s \in Slots |-> 0], dirty |-> {}, valid |-> [s \in Slots |-> All],
     free |-> [i \in 1..Size |-> i], hist |-> [i \in 1..Size |-> Size + 1 - i], reads |-> {},
     cur |-> {}, disk |-> Subs, wr |-> <<>>, rd |-> [r \in Readers |-> Null]]

With(f, b, x) == [y \in DOMAIN f \cup {b} |-> IF y = b THEN x ELSE f[y]]
Without(f, b) == [y \in DOMAIN f \ {b} |-> f[y]]
hit(c, s) == [c EXCEPT !.hist = <<s>> \o SelectSeq(@, LAMBDA x : x # s)]
BidOf(c, s) == CHOOSE b \in DOMAIN c.map : c.map[b] = s
Cached(c, b) == b \in DOMAIN c.map

---------------------------------------------------------------------------
(* The write buffer: writes not known to be done, the oldest first.        *)

\* A write arrives on disk.
Done(c, i) ==
    [c EXCEPT !.wr = RemoveAt(@, i), !.disk = IF c.wr[i].bid = Watched THEN c.wr[i].cur ELSE @]

\* A mutant: the buffer of a write that is not done is taken.
WriteNoWait(c, b, content) ==
    [c EXCEPT !.wr = Append(IF Len(@) = WriteBuffers THEN Tail(@) ELSE @, [bid |-> b, cur |-> content])]

\* block_cache_write_buffer::write: without a free buffer, wait for the oldest
write(c, b, content) ==
    LET w == IF Len(c.wr) = WriteBuffers THEN Done(c, 1) ELSE c
    IN  [w EXCEPT !.wr = Append(@, [bid |-> b, cur |-> content])]

RECURSIVE WaitAll(_)
\* block_cache_write_buffer::flush
WaitAll(c) == IF c.wr = <<>> THEN c ELSE WaitAll(Done(c, 1))

\* The states in which a read of block b is served: an earlier write of it
\* is done first, unless reads overtake writes.
Served(c, b) ==
    LET mine == {i \in DOMAIN c.wr : c.wr[i].bid = b}
    IN  (IF mine = {} THEN {c} ELSE {Done(c, Max(mine))})
        \cup (IF "overtake" \in May THEN {c} ELSE {})

---------------------------------------------------------------------------
(* The cache.                                                              *)

\* Wait for the read of a slot.
WaitRead(c, s) == [c EXCEPT !.reads = @ \ {s}]

\* A mutant: the least recently used slot, retained or not.
VictimLast(c) == Size

\* The loop over kick() and hit(): the first slot from the end that is not retained.
Victim(c) == Max({i \in DOMAIN c.hist : c.retain[c.hist[i]] = 0})
CanKick(c) == c.free # <<>> \/ \E s \in Slots : c.retain[s] = 0

\* A mutant: does not wait for a prefetch of the block.
KickRead(c, s) == c

\* if (valid_subblock_ == valid_all && reqs_.valid()) wait
KickWait(c, s) == IF c.valid[s] = All THEN WaitRead(c, s) ELSE c

kick_block(c) ==
    LET v == Victim(c)
        s == c.hist[v]
        b == BidOf(c, s)
        rotated == [KickWait(c, s) EXCEPT !.hist = SubSeq(@, v, Size) \o SubSeq(@, 1, v - 1)]
        w == IF s \in c.dirty THEN write(rotated, b, IF b = Watched THEN c.cur ELSE {}) ELSE rotated
    IN  [w EXCEPT !.map = Without(@, b), !.free = Append(@, s), !.cur = IF b = Watched THEN {} ELSE @]

\* A slot for block b.
Take(c0, b) ==
    LET c == IF c0.free = <<>> THEN kick_block(c0) ELSE c0
        s == Last(c.free)
    IN  [c EXCEPT !.free = Front(@), !.map = With(@, b, s), !.retain[s] = 0, !.dirty = @ \ {s}]

\* retain_block, with what it returns
retain_block(c, b) == IF Cached(c, b) THEN [c EXCEPT !.retain[c.map[b]] = @ + 1] ELSE c

\* A mutant: the count is not changed.
ReleaseNot(c, b) == c

release_block(c, b) ==
    IF Cached(c, b) /\ c.retain[c.map[b]] > 0 THEN [c EXCEPT !.retain[c.map[b]] = @ - 1] ELSE c

\* A slot is read: all of it, or subblock i.
Load(c, b, s, i) ==
    [c EXCEPT !.valid[s] = i,
              !.cur = IF b # Watched THEN @ ELSE IF i = All THEN c.disk ELSE (@ \ {i}) \cup (c.disk \cap {i})]

\* make_dirty
make_dirty(c, b) ==
    IF ~Cached(c, b) THEN {c}
    ELSE LET s == c.map[b]
         IN  {[WaitRead(IF c.valid[s] = All THEN d ELSE Load(d, b, s, All), s) EXCEPT !.dirty = @ \cup {s}] :
                d \in IF c.valid[s] = All THEN {c} ELSE Served(c, b)}

\* get_subblock; the pointer it returns is that of the slot of b
get_subblock(c, b, i) ==
    LET s == c.map[b]
        found == Cached(c, b) /\ c.valid[s] \in {All, i}
        t == IF Cached(c, b) THEN c ELSE Take(c, b)
    IN  IF found THEN {IF c.valid[s] = All THEN WaitRead(c, s) ELSE c}
        ELSE {hit(Load(d, b, t.map[b], i), t.map[b]) : d \in Served(t, b)}

\* The block is cached, all of it.
Complete(c, b) == Cached(c, b) /\ c.valid[c.map[b]] = All

prefetch_block(c, b) ==
    LET t == IF Cached(c, b) THEN c ELSE Take(c, b)
    IN  IF Complete(c, b) THEN {hit(c, c.map[b])}
        ELSE {[hit(Load(d, b, t.map[b], All), t.map[b]) EXCEPT !.reads = @ \cup {t.map[b]}] : d \in Served(t, b)}

\* hash_map::clear: flush() and clear() of the cache.  flush() leaves other
\* buffers in the slots, so the content is gone; clear() waits for all reads.
FlushAndClear(c) ==
    LET RECURSIVE WriteDirty(_, _)
        WriteDirty(d, S) ==
            IF S = {} THEN d
            ELSE LET s == Min(S)
                     b == BidOf(c, s)
                 IN  WriteDirty(write(d, b, IF b = Watched THEN c.cur ELSE {}), S \ {s})
        f == WaitAll(WriteDirty(c, {s \in c.dirty : \E b \in DOMAIN c.map : c.map[b] = s}))
    IN  [f EXCEPT !.dirty = {}, !.map = <<>>, !.free = [i \in 1..Size |-> i], !.reads = {}, !.cur = {}]

---------------------------------------------------------------------------
(* buffered_reader.                                                        *)

\* Prefetch n blocks from the reader's pref_bid_ on.
RECURSIVE Prefetch(_, _, _)
Prefetch(c, r, n) ==
    LET p == c.rd[r].pref
    IN  IF n = 0 \/ p = EndBid THEN {c}
        ELSE UNION {Prefetch([d EXCEPT !.rd[r].pref = p + 1], r, n - 1) :
                      d \in IF CanKick(c) \/ Cached(c, p) THEN prefetch_block(c, p) ELSE {}}

enable_prefetching(c, r) ==
    IF c.rd[r].pref # Null THEN {c}
    ELSE Prefetch([c EXCEPT !.rd[r].pref = c.rd[r].bid], r, PageSize * PrefetchPages)

\* A complete page has been consumed.
NextPage(c, r) ==
    IF c.rd[r].pref # Null /\ (c.rd[r].bid - c.rd[r].begin) % PageSize = 0
    THEN Prefetch(c, r, PageSize) ELSE {c}

\* subblock_ = cache_.get_subblock(*curr_bid_, ...)
Point(c, r) ==
    LET q == c.rd[r]
    IN  IF ~CanKick(c) /\ ~Cached(c, q.bid) THEN {}
        ELSE {[d EXCEPT !.rd[r].slot = d.map[q.bid]] : d \in get_subblock(c, q.bid, q.sub)}

\* operator ++
advance(c, r) ==
    LET q == c.rd[r]
        left == release_block(c, q.bid)
        moved == [left EXCEPT !.rd[r].bid = q.bid + 1, !.rd[r].sub = 1, !.rd[r].dirty = FALSE]
    IN  CASE q.sub < NSubs -> Point([c EXCEPT !.rd[r].sub = @ + 1], r)
          [] q.sub = NSubs /\ q.bid + 1 = EndBid -> {moved}
          [] OTHER -> UNION {Point(d, r) : d \in NextPage(retain_block(moved, q.bid + 1), r)}

\* The blocks that are skipped, with their prefetching.
RECURSIVE SkipBlocks(_, _, _)
SkipBlocks(c, r, b) ==
    IF c.rd[r].bid = b THEN {c}
    ELSE UNION {SkipBlocks(d, r, b) : d \in NextPage([c EXCEPT !.rd[r].bid = @ + 1], r)}

skip_to(c, r, b, i) ==
    LET q == c.rd[r]
        left == [release_block(c, q.bid) EXCEPT !.rd[r].dirty = q.dirty /\ b = q.bid]
    IN  UNION {{retain_block(e, b) : e \in Point([d EXCEPT !.rd[r].sub = i], r)} :
                 d \in SkipBlocks(left, r, b)}

\* The constructor: a reader from block b on.
Open(c, r, b, i, prefetch) ==
    LET new == [c EXCEPT !.rd[r] = [begin |-> b % PageSize, bid |-> b, sub |-> i, pref |-> Null, dirty |-> FALSE, slot |-> Null]]
    IN  UNION {skip_to(d, r, b, i) : d \in IF prefetch THEN enable_prefetching(new, r) ELSE {new}}

Close(c, r) ==
    [IF c.rd[r].bid = EndBid THEN c ELSE release_block(c, c.rd[r].bid) EXCEPT !.rd[r] = Null]

\* value() = v: the block is made dirty, the subblock is written
Assign(c, r) ==
    LET q == c.rd[r]
        Write(d) == [d EXCEPT !.rd[r].dirty = TRUE,
                              !.disk = IF q.bid = Watched THEN @ \ {q.sub} ELSE @,
                              !.wr = IF q.bid = Watched
                                     THEN [i \in DOMAIN @ |-> [@[i] EXCEPT !.cur = @ \ {q.sub}]] ELSE @,
                              !.cur = IF q.bid = Watched
                                      THEN IF Cached(d, q.bid) /\ q.slot = d.map[q.bid]
                                           THEN @ \cup {q.sub} ELSE @ \ {q.sub}
                                      ELSE @]
    IN  {Write(d) : d \in IF q.dirty THEN {c} ELSE make_dirty(c, q.bid)}

---------------------------------------------------------------------------
Init == obj = NewCache /\ ref = 0

Live(r) == obj.rd[r] # Null /\ obj.rd[r].bid # EndBid
\* "unretained": block b will be in the cache when the reader retains it.
Sure(r, b) == Cached(obj, b) \/ "unretained" \in May
\* Bound: the subblocks looked up, in the blocks that are not followed.
Starts(b) == IF b = Watched THEN Subs ELSE {1}

\* What is left in slots that have no block is not looked at, nor are copies
\* of block 1 that will be overwritten.
Tidy(c) ==
    LET used == {c.map[b] : b \in DOMAIN c.map}
        here == c.map[Watched]
        newer == (Cached(c, Watched) /\ here \in c.dirty) \/ \E i \in DOMAIN c.wr : c.wr[i].bid = Watched
    IN  [c EXCEPT !.dirty = @ \cap used, !.disk = IF newer /\ "overtake" \notin May THEN {} ELSE @,
                  !.cur = IF Cached(c, Watched) /\ c.valid[here] # All THEN @ \cap {c.valid[here]} ELSE @, !.retain = [s \in Slots |-> IF s \in used THEN @[s] ELSE 0],
                  !.valid = [s \in Slots |-> IF s \in used THEN @[s] ELSE All]]
Do(states) == (\E c \in states : obj' = Tidy(c)) /\ UNCHANGED ref

OpenReader ==
    \E r \in Readers, b \in Blocks, p \in BOOLEAN : \E i \in Starts(b) :
        /\ obj.rd[r] = Null /\ CanKick(obj)
        /\ "shared" \notin May => \A x \in Readers : obj.rd[x] # Null => obj.rd[x].bid # b
        /\ Do(Open(obj, r, b, i, p))
CloseReader == \E r \in Readers : obj.rd[r] # Null /\ Do({Close(obj, r)})
Advance ==
    \E r \in Readers :
        /\ Live(r)
        /\ obj.rd[r].sub = NSubs /\ obj.rd[r].bid # NBlocks => Sure(r, obj.rd[r].bid + 1)
        /\ Do(advance(obj, r))
SkipTo == \E r \in Readers, b \in Blocks : \E i \in Starts(b) :
              Live(r) /\ b >= obj.rd[r].bid /\ CanKick(obj) /\ Do(skip_to(obj, r, b, i))
EnablePrefetching == \E r \in Readers : Live(r) /\ Do(enable_prefetching(obj, r))
AssignValue == \E r \in Readers : Live(r) /\ Do(Assign(obj, r))
\* A lookup of a value (_load_subblock).
Lookup == \E b \in Blocks : \E i \in Starts(b) :
              (CanKick(obj) \/ Cached(obj, b)) /\ Do(get_subblock(obj, b, i))
Clear == (\A r \in Readers : obj.rd[r] = Null) /\ Do({FlushAndClear(obj)})
WriteDone == \E i \in DOMAIN obj.wr : Do({Done(obj, i)})

Next ==
    \/ OpenReader \/ CloseReader \/ Advance \/ SkipTo \/ EnablePrefetching \/ AssignValue
    \/ Lookup \/ Clear \/ WriteDone

Spec == Init /\ [][Next]_vars

---------------------------------------------------------------------------
\* The slots, flags and readers.
TypeOK ==
    /\ DOMAIN obj.map \subseteq Blocks /\ \A b \in DOMAIN obj.map : obj.map[b] \in Slots
    /\ \A s \in Slots : obj.retain[s] \in 0..Cardinality(Readers) /\ obj.valid[s] \in 0..NSubs
    /\ Len(obj.wr) <= WriteBuffers

\* What was written last is never lost: it is in the cache, valid, or on its
\* way to the disk, or there.
LastWriteKept ==
    \A i \in Subs :
        \/ Cached(obj, Watched) /\ obj.valid[obj.map[Watched]] \in {All, i} /\ i \in obj.cur
        \/ (Cached(obj, Watched) => obj.valid[obj.map[Watched]] \notin {All, i})
           /\ LET mine == {j \in DOMAIN obj.wr : obj.wr[j].bid = Watched}
              IN  i \in IF mine = {} THEN obj.disk ELSE obj.wr[Max(mine)].cur

\* The subblock a reader points to is that of its block, and holds it:
\* other readers and lookups do not take it away.
ReaderCurrent ==
    \A r \in Readers :
        Live(r) => LET q == obj.rd[r]
                   IN  /\ Cached(obj, q.bid) /\ obj.map[q.bid] = q.slot
                       /\ obj.valid[q.slot] = All \/ q.slot \notin obj.dirty

\* A block is retained as often as readers are at it, so that a block nobody
\* reads can be kicked.
RetainExact ==
    \A b \in DOMAIN obj.map :
        obj.retain[obj.map[b]] = Cardinality({r \in Readers : Live(r) /\ obj.rd[r].bid = b})

\* A slot that is free, or that is loaded by subblocks, has no read under way
\* that could still write to it.
NoReadInFlight ==
    \A s \in obj.reads : obj.valid[s] = All /\ \E b \in DOMAIN obj.map : obj.map[b] = s

=============================================================================
