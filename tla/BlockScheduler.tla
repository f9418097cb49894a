--------------------------- MODULE BlockScheduler ---------------------------
(* block_scheduler with the algorithms that serve every request before they *)
(* return: online_lru, simulation, which only records what is asked, and    *)
(* offline_lfd, which evicts the block whose recorded next use is furthest. *)
(* A client runs a program: it switches between the algorithms and calls    *)
(* the scheduler, in the order of its acquires and releases.                *)
EXTENDS Integers, Sequences, FiniteSetsExt, SequencesExt

CONSTANTS Programs,  \* sequences of calls [op, h], h a variable of the client
          Sizes,     \* values of max_internal_blocks
          AtOnce,    \* max_internal_blocks_alloc_at_once
          Handles    \* the variables of the client

VARIABLES obj, ref

-----------------------------------------------------------------------------
(* swappable_block: a block of data that is in internal memory, on disk or  *)
(* in both places.  A scheduler s has the fields blk, its swappable blocks  *)
(* [ext, int, dirty, rc]; ram and disk, what internal and external blocks   *)
(* hold; out, the external block last handed out; and err, the assertions   *)
(* that have failed.  0 is no block.                                        *)

Junk == -1
NewBlock == [ext |-> 0, int |-> 0, dirty |-> FALSE, rc |-> 0]

Expect(s, holds, what) == IF holds THEN s ELSE [s EXCEPT !.err = @ \cup {what}]

is_internal(s, i) == s.blk[i].int # 0
has_external_block(s, i) == s.blk[i].ext # 0
is_external(s, i) == has_external_block(s, i) /\ ~s.blk[i].dirty
is_acquired(s, i) == s.blk[i].rc > 0
is_evictable(s, i) == ~is_acquired(s, i) /\ is_internal(s, i)
is_initialized(s, i) == is_internal(s, i) \/ is_external(s, i)

get_external_block(s, i) ==
    LET b == Min(1..(Cardinality(DOMAIN s.disk) + 1) \ DOMAIN s.disk)
    IN  [s EXCEPT !.blk[i].ext = b,
                  !.disk = [c \in DOMAIN @ \cup {b} |-> IF c = b THEN Junk ELSE @[c]]]

free_external_block(s, i) ==
    [s EXCEPT !.blk[i].ext = 0,
              !.disk = [c \in DOMAIN @ \ {s.blk[i].ext} |-> @[c]]]

make_dirty_if(s, i, d) ==
    [Expect(s, is_acquired(s, i), "make_dirty_if") EXCEPT !.blk[i].dirty = d \/ @]

acquire_block(s, i) ==
    [Expect(s, is_internal(s, i), "acquire") EXCEPT !.blk[i].rc = @ + 1]

release_block(s, i) ==
    [Expect(s, is_acquired(s, i), "release") EXCEPT !.blk[i].rc = @ - 1]

(* matrix_swappable_block: a new block is all zero.                         *)
fill_default(s, i) == [s EXCEPT !.ram[s.blk[i].int] = 0]

(* The start of read_async and of clean_async, up to the request.           *)
start_read(s, i) ==
    [Expect(s, is_internal(s, i) /\ has_external_block(s, i), "read")
        EXCEPT !.blk[i].dirty = FALSE]

start_clean(s, i) ==
    LET e == IF has_external_block(s, i) THEN s ELSE get_external_block(s, i)
    IN  [e EXCEPT !.blk[i].dirty = FALSE]

(* Internal block m is read from, or written to, external block b.          *)
Transfer_read(s, m, b) == [s EXCEPT !.ram[m] = s.disk[b]]
Transfer_write(s, m, b) ==
    IF b \in DOMAIN s.disk THEN [s EXCEPT !.disk[b] = s.ram[m]]
    ELSE [s EXCEPT !.err = @ \cup {"write to a freed block"}]

read_sync(s, i) ==
    LET t == start_read(s, i) IN Transfer_read(t, t.blk[i].int, t.blk[i].ext)

clean_sync(s, i) ==
    LET t == start_clean(s, i)
    IN  IF s.blk[i].dirty THEN Transfer_write(t, t.blk[i].int, t.blk[i].ext) ELSE s

attach_internal_block(s, i, m) ==
    [Expect(s, ~is_internal(s, i), "attach") EXCEPT !.blk[i].int = m]

(* The internal block that is detached is the former blk[i].int.            *)
DetachUnsaved(s, i) ==
    [Expect(s, is_evictable(s, i), "detach") EXCEPT !.blk[i].int = 0]

detach_internal_block(s, i) ==
    [clean_sync(Expect(s, is_evictable(s, i), "detach"), i) EXCEPT !.blk[i].int = 0]

deinitialize_block(s, i) ==
    LET t == [Expect(s, ~is_acquired(s, i), "deinitialize")
                EXCEPT !.blk[i].dirty = FALSE, !.blk[i].int = 0]
    IN  IF has_external_block(s, i) THEN free_external_block(t, i) ELSE t

initialize_block(s, i, b) ==
    [Expect(s, ~is_initialized(s, i), "initialize") EXCEPT !.blk[i].ext = b]

extract_block(s, i) ==
    [Expect(s, ~is_internal(s, i), "extract")
        EXCEPT !.blk[i].ext = 0, !.out = s.blk[i].ext]

(* block_scheduler: internal blocks come from the stack of free ones, or a  *)
(* few at a time from memory; m is 0 when there is none.                    *)
get_free_internal_block(s) ==
    LET n == Min({AtOnce, s.remaining})
        first == Len(s.ram) + 1
    IN  IF s.free # <<>> THEN [m |-> Head(s.free), s |-> [s EXCEPT !.free = Tail(@)]]
        ELSE IF s.remaining > 0
        THEN [m |-> first,
              s |-> [s EXCEPT !.remaining = @ - n, !.ram = @ \o [k \in 1..n |-> Junk],
                              !.free = [k \in 1..(n - 1) |-> first + k] \o <<>>]]
        ELSE [m |-> 0, s |-> s]

ReturnNothing(s, m) == s

return_free_internal_block(s, m) == IF m = 0 THEN s ELSE [s EXCEPT !.free = <<m>> \o @]

(* The identifiers of freed swappable blocks are used again, the smallest   *)
(* first.                                                                   *)
allocate_swappable_block(s) ==
    IF s.freeIds = {}
    THEN [id |-> Len(s.blk) + 1, s |-> [s EXCEPT !.blk = Append(@, NewBlock)]]
    ELSE [id |-> Min(s.freeIds), s |-> [s EXCEPT !.freeIds = @ \ {Min(@)}]]

-----------------------------------------------------------------------------
(* What every scheduler must keep.                                          *)

AttachedTo(s, m) == {i \in DOMAIN s.blk : s.blk[i].int = m}

(* Each internal block is free once or belongs to exactly one owner; extra  *)
(* are the owners that are no swappable block.                              *)
InternalOwnedOnce(s, extra(_)) ==
    \A m \in DOMAIN s.ram :
        Cardinality({k \in DOMAIN s.free : s.free[k] = m})
          + Cardinality(AttachedTo(s, m)) + extra(m) = 1

(* The disk blocks allocated are those of the swappable blocks and those    *)
(* the client holds, with no block in two places.                           *)
DiskOwnedOnce(s, held) ==
    /\ DOMAIN s.disk = ({s.blk[i].ext : i \in DOMAIN s.blk} \ {0}) \cup held
    /\ \A i, j \in DOMAIN s.blk : i # j /\ has_external_block(s, i)
                                     => s.blk[i].ext # s.blk[j].ext
    /\ \A i \in DOMAIN s.blk : s.blk[i].ext \notin held

-----------------------------------------------------------------------------
Infinity == 1000    \* numeric_limits::max() << 2

(* The evictable blocks ev, the next one to go first: a FIFO for lru, a     *)
(* stack for simulation, a queue by priority for lfd.                       *)

EraseNothing(s, i) == s
EraseEvictable(s, i) == [s EXCEPT !.ev = SelectSeq(@, LAMBDA e : e.id # i)]

fifo_insert(ev, i) == Append(SelectSeq(ev, LAMBDA e : e.id # i), [id |-> i, p |-> 0])

(* priority: the time of the next acquire; among equals a clean block and   *)
(* one with a place on disk is cheaper to evict.                            *)
priority(s, i, use) ==
    IF use[1] THEN 4 * use[2] + 2 * (IF s.blk[i].dirty THEN 0 ELSE 1)
                              + (IF has_external_block(s, i) THEN 1 ELSE 0)
    ELSE Infinity + use[2]

BeforeNearest(e, f) == e.p < f.p \/ (e.p = f.p /\ e.id < f.id)
Before(e, f) == e.p > f.p \/ (e.p = f.p /\ e.id < f.id)

priority_insert(ev, i, p) ==
    LET e == [id |-> i, p |-> p]
        others == SelectSeq(ev, LAMBDA f : f.id # i)
        ahead == SelectSeq(others, LAMBDA f : Before(f, e))
    IN  ahead \o <<e>> \o SubSeq(others, Len(ahead) + 1, Len(others))

(* What happens next to block i after place k of a recorded sequence: it is *)
(* acquired at a time, deinitialized (0), nothing (1), extracted (2) or     *)
(* initialized (3).                                                         *)
NextUse(ps, k, i) ==
    LET uses == {j \in (k + 1)..Len(ps) : ps[j].id = i /\ ps[j].op \notin {"rel", "relD"}}
        op == ps[Min(uses)].op
    IN  IF uses = {} THEN <<FALSE, 1>>
        ELSE CASE op \in {"acq", "acqU"} -> <<TRUE, ps[Min(uses)].time>>
               [] op = "deinit" -> <<FALSE, 0>>
               [] op = "extract" -> <<FALSE, 2>>
               [] OTHER -> <<FALSE, 3>>

-----------------------------------------------------------------------------
(* The algorithms are made from the one that is in use, whose evictable     *)
(* blocks they take over.                                                   *)

init_lru(s) ==
    [s EXCEPT !.algo = "lru", !.ps = <<>>, !.ev = [k \in DOMAIN @ |-> [@[k] EXCEPT !.p = 0]] \o <<>>]

init_simulation(s) ==
    [s EXCEPT !.algo = "sim", !.ps = <<>>, !.ev = Reverse(@), !.time = 0, !.last_op_release = FALSE,
              !.refs = [i \in DOMAIN s.blk |-> IF is_initialized(s, i) THEN 1 ELSE 0] \o <<>>]

ReleaseUses(ps) ==
    LET n == Len(ps)
        rel == SelectSeq([k \in 1..n |-> k], LAMBDA k : ps[k].op \in {"rel", "relD"})
    IN  [k \in DOMAIN rel |-> NextUse(ps, rel[k], ps[rel[k]].id)] \o <<>>

init_lfd(s) ==
    LET insert[k \in 0..Len(s.ev)] ==
            IF k = 0 THEN <<>>
            ELSE LET i == s.ev[k].id
                 IN  priority_insert(insert[k - 1], i, priority(s, i, NextUse(s.ps, 0, i)))
    IN  [s EXCEPT !.algo = "lfd", !.next_use = ReleaseUses(s.ps), !.ev = insert[Len(s.ev)], !.ps = <<>>]

-----------------------------------------------------------------------------
(* online_lru and offline_lfd, which differ in where a block is inserted.   *)

(* An internal block, if need be the one of the first evictable block.      *)
FreeOrEvict(s) ==
    LET f == get_free_internal_block(s)
        victim == Head(s.ev).id
    IN  IF f.m # 0 THEN f
        ELSE [m |-> s.blk[victim].int,
              s |-> [detach_internal_block([s EXCEPT !.ev = Tail(@)], victim)
                        EXCEPT !.victims = Append(@, victim)]]

acquire_served(s, i, uninitialized) ==
    LET f == FreeOrEvict(Expect(s, s.free # <<>> \/ s.remaining > 0 \/ s.ev # <<>>, "no memory"))
        a == attach_internal_block(f.s, i, f.m)
    IN  IF is_internal(s, i)
        THEN acquire_block(IF is_acquired(s, i) THEN s ELSE EraseEvictable(s, i), i)
        ELSE IF is_initialized(s, i)
        THEN acquire_block(IF uninitialized THEN a ELSE read_sync(a, i), i)
        ELSE IF uninitialized THEN acquire_block(a, i)
        ELSE fill_default(acquire_block(a, i), i)

lru_acquire(s, i, uninitialized) == acquire_served(s, i, uninitialized)
lfd_acquire(s, i, uninitialized) == acquire_served(s, i, uninitialized)

(* A block that is not acquired any more is evictable if it holds anything. *)
ReleaseTo(s, i, dirty, insert(_, _)) ==
    LET r == release_block(make_dirty_if(s, i, dirty), i)
    IN  IF is_acquired(r, i) THEN r
        ELSE IF r.blk[i].dirty \/ is_external(r, i) THEN [r EXCEPT !.ev = insert(r, i)]
        ELSE return_free_internal_block(detach_internal_block(r, i), r.blk[i].int)

lru_release(s, i, dirty) == ReleaseTo(s, i, dirty, LAMBDA r, j : fifo_insert(r.ev, j))

PopUse(s) == [s EXCEPT !.next_use = Tail(@)]

(* When more is released than was recorded the scheduler goes online.       *)
lfd_release(s, i, dirty) ==
    IF s.next_use = <<>> THEN lru_release(init_lru(s), i, dirty)
    ELSE PopUse(ReleaseTo(s, i, dirty, LAMBDA r, j :
                    priority_insert(r.ev, j, priority(r, j, Head(r.next_use)))))

deinitialize_served(s, i) ==
    LET e == IF is_evictable(s, i) THEN EraseEvictable(s, i) ELSE s
    IN  return_free_internal_block(deinitialize_block(e, i), s.blk[i].int)

lru_deinitialize(s, i) == deinitialize_served(s, i)
lfd_deinitialize(s, i) == deinitialize_served(s, i)

(* The block given out is the former blk[i].ext, after its last write.      *)
extract_served(s, i) ==
    LET e == IF is_evictable(s, i) THEN EraseEvictable(s, i) ELSE s
    IN  IF is_internal(s, i)
        THEN return_free_internal_block(detach_internal_block(e, i), s.blk[i].int)
        ELSE e

lru_extract_external_block(s, i) == extract_served(s, i)
lfd_extract_external_block(s, i) == extract_served(s, i)

-----------------------------------------------------------------------------
(* simulation: nothing is served; the calls are recorded with a time that   *)
(* goes on at the first release after an acquire.                           *)

Record(s, op, i) == [s EXCEPT !.ps = Append(@, [op |-> op, id |-> i, time |-> s.time])]

simulation_acquire(s, i, uninitialized) ==
    Record([s EXCEPT !.refs[i] = @ + 1, !.last_op_release = FALSE],
           IF uninitialized THEN "acqU" ELSE "acq", i)

simulation_release_clean(s, i, dirty) ==
    Record([s EXCEPT !.refs[i] = @ - 1, !.last_op_release = TRUE,
                     !.time = IF s.last_op_release THEN @ ELSE @ + 1],
           IF dirty THEN "relD" ELSE "rel", i)

simulation_release(s, i, dirty) ==
    Record([s EXCEPT !.refs[i] = @ - 1 + (IF dirty THEN 1 ELSE 0), !.last_op_release = TRUE,
                     !.time = IF s.last_op_release THEN @ ELSE @ + 1],
           IF dirty THEN "relD" ELSE "rel", i)

simulation_deinitialize(s, i) == Record([s EXCEPT !.refs[i] = 0], "deinit", i)
simulation_initialize(s, i) == Record([s EXCEPT !.refs[i] = 1], "init", i)
simulation_extract_external_block(s, i) == Record([s EXCEPT !.refs[i] = 0], "extract", i)
simulation_is_initialized(s, i) == s.refs[i] > 0
simulation_resize(s) == [s EXCEPT !.refs = @ \o [k \in 1..(Len(s.blk) - Len(@)) |-> 0]]

-----------------------------------------------------------------------------
(* The client.  Its accesses are short sequences of calls: a block is read, *)
(* written, written as a whole, or read while another one is written.       *)

Calls(a) ==
    LET c(op, h) == [op |-> op, h |-> h]
    IN  CASE a[1] = "read" -> <<c("acq", a[2]), c("rel", a[2])>>
          [] a[1] = "write" -> <<c("acq", a[2]), c("relD", a[2])>>
          [] a[1] = "fill" -> <<c("acqU", a[2]), c("relD", a[2])>>
          [] a[1] = "skip" -> <<c("acqU", a[2]), c("rel", a[2])>>
          [] a[1] = "twice" -> <<c("acq", a[2]), c("acq", a[2]), c("relD", a[2]), c("rel", a[2])>>
          [] a[1] = "both" -> <<c("acq", a[2]), c("acq", a[3]), c("rel", a[2]), c("relD", a[3])>>
          [] OTHER -> <<c(a[1], a[2])>>

Expand(accesses) == FlattenSeq([k \in DOMAIN accesses |-> Calls(accesses[k])])

(* A program records its body, and then runs it with algorithm alg.         *)
Program(p) ==
    LET switch(to) == <<[op |-> to, h |-> 0]>>
    IN  Expand(p.pre) \o switch("sim") \o Expand(p.body) \o switch(p.alg) \o Expand(p.body)
          \o Expand(p.post) \o switch("destroy")

NewScheduler(size) ==
    [blk |-> <<>>, freeIds |-> {}, ram |-> <<>>, disk |-> <<>>, free |-> <<>>, remaining |-> size,
     err |-> {}, algo |-> "lru", ev |-> <<>>, ps |-> <<>>, time |-> 0, last_op_release |-> FALSE,
     refs |-> <<>>, next_use |-> <<>>, victims |-> <<>>, out |-> 0]

(* A block has no value, an unknown value (Junk) or the last one written.   *)
NoValue == -2
NewClient(p) ==
    [todo |-> Program(p), id |-> [h \in Handles |-> 0], acq |-> [h \in Handles |-> 0],
     val |-> [h \in Handles |-> NoValue], whole |-> [h \in Handles |-> FALSE],
     held |-> [h \in Handles |-> 0], log |-> <<>>, k |-> 0, ids |-> [h \in Handles |-> 0]]

(* The client writes before it releases a block as dirty.                   *)
NewValue(r, h) == 10 * h + ((r.val[h] + 1) % 3)
Write(s, r, h) == [s EXCEPT !.ram[s.blk[r.id[h]].int] = NewValue(r, h)]

Dead(i, s) == [s EXCEPT !.freeIds = @ \cup {i}]

flush(s) ==
    LET out[k \in 0..Len(s.ev)] ==
            IF k = 0 THEN [s EXCEPT !.ev = <<>>]
            ELSE return_free_internal_block(detach_internal_block(out[k - 1], s.ev[k].id),
                                            s.blk[s.ev[k].id].int)
    IN  out[Len(s.ev)]

(* The destructor: what is not acquired is deinitialized.                   *)
destroy(s) ==
    LET ids == {i \in DOMAIN s.blk : ~is_acquired(s, i)}
        f[k \in 0..Len(s.blk)] ==
            IF k = 0 THEN [s EXCEPT !.ev = <<>>]
            ELSE IF k \notin ids THEN f[k - 1]
            ELSE return_free_internal_block(deinitialize_block(f[k - 1], k), s.blk[k].int)
    IN  [f[Len(s.blk)] EXCEPT !.algo = "gone"]

(* What the scheduler does when it is called, i the block named.            *)
lru_call(s, c, i, bid) ==
    CASE c.op \in {"acq", "acqU"} -> lru_acquire(s, i, c.op = "acqU")
      [] c.op \in {"rel", "relD"} -> lru_release(s, i, c.op = "relD")
      [] c.op = "deinit" -> lru_deinitialize(s, i)
      [] c.op = "free" -> Dead(i, lru_deinitialize(s, i))
      [] c.op = "init" -> initialize_block(s, i, bid)
      [] c.op = "extract" -> extract_block(lru_extract_external_block(s, i), i)
      [] c.op = "flush" -> flush(s)
      [] OTHER -> s

lfd_call(s, c, i, bid) ==
    CASE c.op \in {"acq", "acqU"} -> lfd_acquire(s, i, c.op = "acqU")
      [] c.op \in {"rel", "relD"} -> lfd_release(s, i, c.op = "relD")
      [] c.op = "deinit" -> lfd_deinitialize(s, i)
      [] c.op = "free" -> Dead(i, lfd_deinitialize(s, i))
      [] c.op = "init" -> initialize_block(s, i, bid)
      [] c.op = "extract" -> extract_block(lfd_extract_external_block(s, i), i)
      [] OTHER -> s

simulation_call(s, c, i) ==
    CASE c.op \in {"acq", "acqU"} -> simulation_acquire(s, i, c.op = "acqU")
      [] c.op \in {"rel", "relD"} -> simulation_release(s, i, c.op = "relD")
      [] c.op = "deinit" -> simulation_deinitialize(s, i)
      [] c.op = "free" -> Dead(i, simulation_deinitialize(s, i))
      [] c.op = "init" -> simulation_initialize(s, i)
      [] c.op = "extract" -> simulation_extract_external_block(s, i)
      [] c.op = "tick" -> [s EXCEPT !.time = @ + 1]
      [] OTHER -> s

(* What the client knows after call c, which led from state s to t.         *)
Known(s, t, r, c) ==
    LET h == c.h
    IN  CASE s.algo = "sim" -> r
          [] c.op = "acq" -> [r EXCEPT !.acq[h] = @ + 1]
          [] c.op = "acqU" -> [r EXCEPT !.acq[h] = @ + 1, !.whole[h] = TRUE,
                                        !.val[h] = IF @ = NoValue THEN @ ELSE Junk]
          [] c.op = "rel" -> [r EXCEPT !.acq[h] = @ - 1, !.whole[h] = @ /\ r.acq[h] > 1]
          [] c.op = "relD" -> [r EXCEPT !.acq[h] = @ - 1, !.whole[h] = FALSE, !.val[h] = NewValue(r, h)]
          [] c.op \in {"deinit", "free"} -> [r EXCEPT !.val[h] = NoValue]
          [] c.op = "extract" -> [r EXCEPT !.held[h] = t.out]
          [] c.op = "init" -> [r EXCEPT !.held[h] = 0]
          [] OTHER -> r

Initialized(s, r) ==
    {h \in Handles : r.id[h] # 0 /\ (IF s.algo = "sim" THEN simulation_is_initialized(s, r.id[h])
                                    ELSE is_initialized(s, r.id[h]))}

(* The client's notes: what simulation answers, and how far the replay is.  *)
Noted(s, t, r) ==
    CASE s.algo = "sim" -> [r EXCEPT !.log = Append(@, Initialized(t, r))]
      [] t.algo = s.algo -> [r EXCEPT !.k = @ + 1]
      [] OTHER -> r

Init ==
    \E p \in Programs, n \in Sizes :
        /\ obj = NewScheduler(n)
        /\ ref = NewClient(p)

Switched(s, op) ==
    CASE op = "lru" -> init_lru(s)
      [] op = "sim" -> init_simulation(s)
      [] op = "lfd" -> init_lfd(s)
      [] OTHER -> destroy(s)

Served(s, c, i, bid) ==
    CASE s.algo = "sim" -> simulation_call(s, c, i)
      [] s.algo = "lfd" -> lfd_call(s, c, i, bid)
      [] OTHER -> lru_call(s, c, i, bid)

Allocate(c) ==
    LET a == allocate_swappable_block(obj)
        t == IF obj.algo = "sim" THEN simulation_resize(a.s) ELSE a.s
        r == [ref EXCEPT !.todo = Tail(@), !.id[c.h] = a.id,
                         !.ids[c.h] = IF obj.algo = "sim" THEN a.id ELSE @]
    IN  /\ obj' = t
        /\ ref' = Noted(obj, t, r)

Switch(c, switched(_, _)) ==
    /\ obj' = switched(obj, c.op)
    /\ ref' = [ref EXCEPT !.todo = Tail(@), !.k = 0, !.log = IF c.op = "sim" THEN <<>> ELSE @]

Call(c, served(_, _, _, _)) ==
    LET o == [obj EXCEPT !.victims = <<>>]
        w == IF c.op = "relD" /\ o.algo # "sim" THEN Write(o, ref, c.h) ELSE o
        i == IF c.h = 0 THEN 0 ELSE ref.id[c.h]
    IN  \E t \in {served(w, c, i, IF c.h = 0 THEN 0 ELSE ref.held[c.h])} :
          LET r == Known(obj, t, [ref EXCEPT !.todo = Tail(@)], c)
          IN  /\ obj' = t
              /\ ref' = Noted(obj, t, IF c.op = "free" THEN [r EXCEPT !.id[c.h] = 0] ELSE r)

ClientStep(switched(_, _), served(_, _, _, _)) ==
    /\ ref.todo # <<>>
    /\ obj.err = {}
    /\ LET c == Head(ref.todo)
       IN  IF c.op = "alloc" THEN Allocate(c)
           ELSE IF c.op \in {"lru", "sim", "lfd", "pre", "destroy"} THEN Switch(c, switched)
           ELSE Call(c, served)

Next == ClientStep(Switched, Served)

-----------------------------------------------------------------------------
TypeOK ==
    /\ \A i \in DOMAIN obj.blk : obj.blk[i].rc \in Nat /\ obj.blk[i].int \in 0..Len(obj.ram)
    /\ obj.algo \in {"lru", "sim", "lfd", "pre", "gone"}
    /\ Range(obj.free) \subseteq DOMAIN obj.ram

(* A client that holds a block sees what it last wrote there, or zeros in a *)
(* block that was never written; a disk block it has taken out holds the    *)
(* last value; and no assertion fails on the way.                           *)
BlockContents ==
    /\ obj.err = {}
    /\ \A h \in Handles :
          /\ ref.acq[h] > 0 /\ ~ref.whole[h] /\ ref.val[h] # Junk
                => obj.ram[obj.blk[ref.id[h]].int] = (IF ref.val[h] = NoValue THEN 0 ELSE ref.val[h])
          /\ ref.held[h] # 0 => obj.disk[ref.held[h]] = ref.val[h]

(* Internal and external blocks are neither lost nor shared, there are no   *)
(* more of them than the scheduler may use, and after its destruction all   *)
(* of them are back.                                                        *)
MemoryExact ==
    /\ InternalOwnedOnce(obj, LAMBDA m : 0)
    /\ DiskOwnedOnce(obj, {ref.held[h] : h \in Handles} \ {0})
    /\ obj.algo = "gone" /\ (\A h \in Handles : ref.acq[h] = 0)
          => Len(obj.free) = Len(obj.ram) /\ DOMAIN obj.disk = {ref.held[h] : h \in Handles} \ {0}

(* Exactly the blocks that are in memory and not acquired can be evicted,   *)
(* whichever algorithms have been in charge.                                *)
EvictableExact ==
    /\ {e.id : e \in Range(obj.ev)} = {i \in DOMAIN obj.blk : is_evictable(obj, i)}
    /\ Cardinality({e.id : e \in Range(obj.ev)}) = Len(obj.ev)

(* Replaying a program, the scheduler answers is_initialized as simulation  *)
(* has, and hands out the same identifiers.                                 *)
SimulationAgrees ==
    /\ obj.algo = "lfd" /\ ref.k \in DOMAIN ref.log => Initialized(obj, ref) = ref.log[ref.k]
    /\ obj.algo = "lfd" => \A h \in Handles : ref.ids[h] # 0 => ref.id[h] \in {0, ref.ids[h]}

(* The place in the rest of the replay where block i is used next: 0 if it  *)
(* is not, or not by an acquire.                                            *)
NextAcquire(rest, i) ==
    LET uses == {k \in DOMAIN rest : rest[k].h # 0 /\ ref.id[rest[k].h] = i
                                       /\ rest[k].op \notin {"rel", "relD", "tick"}}
    IN  IF uses # {} /\ rest[Min(uses)].op \in {"acq", "acqU"} THEN Min(uses) ELSE 0

(* offline_lfd evicts a block that is needed last: no other evictable block *)
(* is needed in a later step of time, a release later.                      *)
LongestForward ==
    obj.algo = "lfd" /\ ref.k \in DOMAIN ref.log =>
        LET rest == SubSeq(ref.todo, 1, Len(ref.log) - ref.k)
        IN  \A v \in Range(obj.victims), e \in Range(obj.ev) :
                LET a == NextAcquire(rest, v)
                    b == NextAcquire(rest, e.id)
                IN  a # 0 => /\ b # 0
                             /\ \A k \in a..b : rest[k].op \notin {"rel", "relD"}

=============================================================================
