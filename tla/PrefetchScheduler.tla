-------------------------- MODULE PrefetchScheduler --------------------------
(* block_scheduler_algorithm_offline_lru_prefetching: the recorded calls    *)
(* are scheduled ahead of time.  A block that will be acquired gets its     *)
(* internal block early, taken if need be from an evictable block whose     *)
(* write is still under way, and its read starts when that write is over.   *)
(* The disks serve requests in any order, and the end of a write runs the   *)
(* handler read_after_write on their thread, in two steps.                  *)
EXTENDS BlockScheduler

CONSTANT Reorder    \* whether the processor may delay the store of shall_read
                    \* until after the load of write_done_soon

(* The fields of the algorithm, beside those of the scheduler: ps, what is  *)
(* left of the recorded sequence; ahead, the part of it from                *)
(* next_op_to_schedule on; meta, scheduled_blocks; writes,                  *)
(* write_scheduled_blocks; freeEv and schedEv, the evictable blocks; reads, *)
(* the reads under way.  Operations of a block stand upcoming one first.    *)
NoRead == [m |-> 0, b |-> 0]
NewMeta(op) == [reserved |-> 0, giver |-> 0, read |-> NoRead, ops |-> <<op>>]

Without(f, x) == [y \in DOMAIN f \ {x} |-> f[y]]
With(f, x, v) == [y \in DOMAIN f \cup {x} |-> IF y = x THEN v ELSE f[y]]

-----------------------------------------------------------------------------
(* Requests.  A write is "busy", then "done" when the data is out and       *)
(* write_done_soon is set, then "over" when its handler has returned.       *)

start_request(s, i) ==
    LET t == start_read(s, i)
    IN  [t EXCEPT !.reads = @ \cup {[m |-> t.blk[i].int, b |-> t.blk[i].ext]}]

Request(s, i) == [m |-> s.blk[i].int, b |-> s.blk[i].ext]

write_arrives(s, g) ==
    [Transfer_write(s, s.writes[g].m, s.writes[g].b) EXCEPT !.writes[g].phase = "done"]

(* The handler and schedule_read have missed each other's flags.            *)
write_misses(s, g) == [write_arrives(s, g) EXCEPT !.writes[g].phase = "over"]

(* read_after_write: the reader named by schedule_read is started.          *)
read_after_write(s, g) ==
    LET w == s.writes[g]
        t == [s EXCEPT !.writes[g].phase = "over"]
    IN  IF w.shall_read
        THEN [start_request(t, w.start) EXCEPT !.meta[w.taker].read = Request(s, w.start)]
        ELSE t

read_arrives(s, q) == [Transfer_read(s, q.m, q.b) EXCEPT !.reads = @ \ {q}]

(* schedule_write: on is whether there was anything to write.               *)
schedule_write(s, g) ==
    LET t == start_clean(s, g)
        w == [phase |-> "busy", shall_read |-> FALSE, start |-> 0, taker |-> 0,
              m |-> t.blk[g].int, b |-> t.blk[g].ext]
    IN  IF s.blk[g].dirty
        THEN [on |-> TRUE, s |-> [Expect(t, g \notin DOMAIN s.writes, "second write")
                                    EXCEPT !.writes = With(@, g, w)]]
        ELSE [on |-> FALSE, s |-> s]

(* wait_on_write: the request is waited for, its handler included.          *)
Completed(s, g) ==
    LET t == IF s.writes[g].phase = "busy" THEN write_arrives(s, g) ELSE s
    IN  IF s.writes[g].phase = "over" THEN s ELSE read_after_write(t, g)

WaitOnWrite(s, g) ==
    IF g \notin DOMAIN s.writes THEN s
    ELSE [Completed(s, g) EXCEPT !.writes = Without(@, g)]

WaitOnGiverNever(s, i) == [s EXCEPT !.meta[i].giver = 0]

WaitOnGiver(s, i) ==
    IF s.meta[i].giver = 0 THEN s
    ELSE [WaitOnWrite(s, s.meta[i].giver) EXCEPT !.meta[i].giver = 0]

wait_on_read(s, i) ==
    LET t == WaitOnGiver(s, i)
        q == t.meta[i].read
        u == IF q \in t.reads THEN read_arrives(t, q) ELSE t
    IN  [u EXCEPT !.meta[i].read = NoRead]

(* The reserved internal block, once its giver has been written.            *)
get_ready_block(s, i) ==
    LET t == WaitOnGiver(s, i)
    IN  [m |-> t.meta[i].reserved, s |-> [t EXCEPT !.meta[i].reserved = 0]]

-----------------------------------------------------------------------------
(* schedule_read                                                            *)

(* The giver of i, and the taker of its write, after they were exchanged.   *)
Renamed(s, i, g) ==
    IF g \in DOMAIN s.writes THEN [s EXCEPT !.meta[i].giver = g, !.writes[g].taker = i]
    ELSE [s EXCEPT !.meta[i].giver = 0]

SwapGivers(s, i, j) ==
    Renamed(Renamed(s, j, s.meta[i].giver), i, s.meta[j].giver)

(* try_interrupt_read: whether the read that should follow the write of g   *)
(* has not been started.                                                    *)
try_interrupt_read(s, g) ==
    LET t == [s EXCEPT !.writes[g].shall_read = FALSE]
        u == WaitOnWrite(t, g)
    IN  IF s.writes[g].phase = "busy" THEN [ok |-> TRUE, s |-> t]
        ELSE [ok |-> u.meta[s.writes[g].taker].read = NoRead, s |-> u]

Detached(s, i) == detach_internal_block(s, i)

(* Blocks i and j exchange their internal blocks.                           *)
SwapInternal(s, i, j) ==
    LET d == Detached(Detached(s, i), j)
    IN  attach_internal_block(attach_internal_block(d, i, s.blk[j].int), j, s.blk[i].int)

SwapReservedOnly(s, i, j) == attach_internal_block(Detached(s, i), i, s.meta[j].reserved)

(* Block i exchanges its internal block with the one reserved for j.        *)
SwapReserved(s, i, j) ==
    [attach_internal_block(Detached(s, i), i, s.meta[j].reserved)
        EXCEPT !.meta[j].reserved = s.blk[i].int]

ReadNow(s, i) == [start_request(s, i) EXCEPT !.meta[i].read = Request(s, i)]

(* The read of i waits for the write of its giver, if that is under way.    *)
read_when_free(s, i) ==
    LET g == s.meta[i].giver
        none == [s EXCEPT !.meta[i].giver = 0]
        t == [s EXCEPT !.writes[g].start = i, !.writes[g].taker = i, !.writes[g].shall_read = TRUE]
        u == [WaitOnWrite(t, g) EXCEPT !.meta[i].giver = 0]
    IN  IF g = 0 THEN ReadNow(s, i)
        ELSE IF g \notin DOMAIN s.writes THEN ReadNow(none, i)
        ELSE IF t.writes[g].phase = "busy" THEN t
        ELSE IF u.meta[i].read # NoRead THEN u ELSE ReadNow(u, i)

(* A block whose own write is under way need not be read: it takes back the *)
(* internal block that is being written, and who was to get that one gets   *)
(* the one of i instead, for which the read of j is scheduled anew; j, whose *)
(* read had been scheduled, is not being written itself.                    *)
schedule_read_anyway(s, i) == read_when_free(s, i)

schedule_read(s, i) ==
    IF i \notin DOMAIN s.writes THEN read_when_free(s, i)
    ELSE LET j == s.writes[i].taker
             q == try_interrupt_read(s, i)
         IN  IF ~s.writes[i].shall_read THEN SwapReserved(SwapGivers(s, i, j), i, j)
             ELSE IF q.ok
             THEN LET t == SwapInternal(SwapGivers(q.s, i, j), i, j)
                  IN  read_when_free(Expect(t, j \notin DOMAIN t.writes, "one level"), j)
             ELSE read_when_free(q.s, i)

-----------------------------------------------------------------------------
(* schedule_next_operations                                                 *)

shall_keep_internal_block(s, i, ignore) ==
    \E k \in DOMAIN s.meta[i].ops :
        /\ k > ignore
        /\ \/ s.meta[i].ops[k] \in {"acq", "acqU"}
           \/ s.meta[i].ops[k] = "deinit" /\ s.blk[i].dirty

shall_be_cleaned(s, i) ==
    LET ends == SelectSeq(Tail(s.meta[i].ops), LAMBDA op : op \notin {"acq", "acqU", "rel"})
    IN  ends # <<>> /\ Head(ends) = "extract"

shall_be_read(s, i, ignore) ==
    /\ is_initialized(s, i)
    /\ Len(s.meta[i].ops) > ignore
    /\ s.meta[i].ops[ignore + 1] = "acq"

operation_done(s, i) ==
    LET ops == Tail(s.meta[i].ops)
    IN  IF ops # <<>> THEN [s EXCEPT !.meta[i].ops = ops]
        ELSE [Expect(s, s.meta[i].giver = 0, "giver left") EXCEPT !.meta = Without(@, i)]

Listed(s, c) ==
    IF c.id \in DOMAIN s.meta THEN [s EXCEPT !.meta[c.id].ops = Append(@, c.op)]
    ELSE [s EXCEPT !.meta = With(@, c.id, NewMeta(c.op))]

(* Block i will be used again: it is not free to be evicted.                *)
Keep(s, i) ==
    IF i \in s.freeEv THEN [s EXCEPT !.freeEv = @ \ {i}, !.schedEv = @ \cup {i}] ELSE s

(* An evictable block gives its internal block to i, and is written.        *)
HandOver(w, i, g) ==
    LET t == [detach_internal_block(w.s, g)
                EXCEPT !.meta[i].giver = IF w.on THEN g ELSE 0, !.meta[i].reserved = w.s.blk[g].int]
    IN  IF w.on THEN [t EXCEPT !.writes[g].taker = i] ELSE t
TakeFrom(s, i, g) ==
    LET unused == g \notin DOMAIN s.meta \/ ~shall_keep_internal_block(s, g, 0)
    IN  HandOver(schedule_write([Expect(s, unused, "giver is used") EXCEPT !.freeEv = @ \ {g}], g), i, g)

(* The read of an initialized block starts with its scheduling.             *)
prefetch(s, i) ==
    LET a == [attach_internal_block(s, i, s.meta[i].reserved)
                EXCEPT !.meta[i].reserved = 0, !.schedEv = @ \cup {i}]
    IN  schedule_read(a, i)

(* One recorded call is scheduled; ok is FALSE when there is no memory for  *)
(* it yet.                                                                  *)
PrefetchIf(s, i) == IF shall_be_read(s, i, 0) THEN prefetch(s, i) ELSE s

(* l is s with the call listed, f what it has for a free internal block.    *)
Reserve(s, l, i, f) ==
    IF f.m = 0 /\ l.freeEv = {} THEN [ok |-> FALSE, s |-> s]
    ELSE [ok |-> TRUE, s |-> PrefetchIf(IF f.m # 0 THEN [f.s EXCEPT !.meta[i].reserved = f.m]
                                        ELSE TakeFrom(l, i, Min(l.freeEv)), i)]

ScheduleListed(s, l, c) ==
    IF c.op \in {"acq", "acqU"} /\ ~is_internal(s, c.id)
    THEN IF l.meta[c.id].reserved # 0 THEN [ok |-> TRUE, s |-> l]
         ELSE Reserve(s, l, c.id, get_free_internal_block(l))
    ELSE LET used == c.op \in {"acq", "acqU"} \/ (c.op = "deinit" /\ s.blk[c.id].dirty)
         IN  [ok |-> TRUE, s |-> IF used THEN Keep(l, c.id) ELSE l]

ScheduleOne(s) == ScheduleListed(s, [Listed(s, Head(s.ahead)) EXCEPT !.ahead = Tail(@)], Head(s.ahead))

(* When all is scheduled the blocks that may go are cleaned.                *)
CleanEvictable(s) ==
    LET ids == SetToSortSeq(s.freeEv, <)
        f[k \in 0..Len(ids)] ==
            IF k = 0 THEN s
            ELSE LET t == f[k - 1]
                 IN  IF ids[k] \in DOMAIN t.writes THEN t ELSE schedule_write(t, ids[k]).s
    IN  f[Len(ids)]

ScheduleNext(t) == IF t.ok THEN ScheduleOne(t.s) ELSE t
CleanIfAll(t) == IF t.ok THEN CleanEvictable(t.s) ELSE t.s
schedule_next_operations(s) ==
    LET f[k \in 0..Len(s.ahead)] ==
            IF k = 0 THEN [ok |-> TRUE, s |-> s]
            ELSE ScheduleNext(f[k - 1])
    IN  CleanIfAll(f[Len(s.ahead)])

ScheduleMore(s) == IF s.ahead = <<>> THEN s ELSE schedule_next_operations(s)

init_prefetching(s) ==
    schedule_next_operations(
        [s EXCEPT !.algo = "pre", !.ahead = s.ps, !.ev = <<>>, !.freeEv = {e.id : e \in Range(s.ev)},
                  !.schedEv = {}])

deinit_writing(s) ==
    LET ids == SetToSortSeq(DOMAIN s.meta, <)
        f[k \in 0..Len(ids)] ==
            IF k = 0 THEN [s EXCEPT !.freeEv = @ \cup s.schedEv, !.schedEv = {}]
            ELSE LET t == wait_on_read(f[k - 1], ids[k])
                 IN  [return_free_internal_block(t, t.meta[ids[k]].reserved)
                         EXCEPT !.meta = Without(@, ids[k])]
    IN  f[Len(ids)]

(* deinit waits for all that is under way; its blocks can then be taken     *)
(* over by the next algorithm.                                              *)
deinit(s) ==
    LET ids == SetToSortSeq(DOMAIN s.meta, <)
        f[k \in 0..Len(ids)] ==
            IF k = 0 THEN [s EXCEPT !.freeEv = @ \cup s.schedEv, !.schedEv = {}]
            ELSE LET t == wait_on_read(f[k - 1], ids[k])
                 IN  [return_free_internal_block(t, t.meta[ids[k]].reserved)
                         EXCEPT !.meta = Without(@, ids[k])]
        t == f[Len(ids)]
        gs == SetToSortSeq(DOMAIN t.writes, <)
        w[k \in 0..Len(gs)] == IF k = 0 THEN t ELSE WaitOnWrite(w[k - 1], gs[k])
    IN  w[Len(gs)]

HandEvictable(t) ==
    [t EXCEPT !.ev = [k \in 1..Cardinality(t.freeEv) |->
                         [id |-> SetToSortSeq(t.freeEv, <)[k], p |-> 0]],
              !.freeEv = {}, !.ahead = <<>>]
leave_prefetching(s) == HandEvictable(deinit(s))

-----------------------------------------------------------------------------
(* The calls of the client, each as it was recorded.                        *)

Upcoming(s, op, i) ==
    LET is == s.ps # <<>> /\ s.ps[1].op = op /\ s.ps[1].id = i /\ i \in DOMAIN s.meta
    IN  [Expect(s, is, "not as recorded") EXCEPT !.ps = IF @ = <<>> THEN @ ELSE Tail(@)]

AcquireReady(r, i, uninitialized) ==
    LET a == acquire_block(attach_internal_block(r.s, i, r.m), i)
    IN  IF uninitialized THEN a ELSE fill_default(a, i)

prefetching_acquire(s, i, uninitialized) ==
    LET first == [Expect(s, i \in s.schedEv, "not evictable") EXCEPT !.schedEv = @ \ {i}]
        read == Expect(s, uninitialized \/ ~is_initialized(s, i), "not read")
    IN  operation_done(IF is_internal(s, i)
                       THEN acquire_block(IF is_acquired(s, i) THEN s ELSE wait_on_read(first, i), i)
                       ELSE AcquireReady(get_ready_block(read, i), i, uninitialized), i)

ReleaseLast(r, i) ==
    LET keep == shall_keep_internal_block(r, i, 1)
        sched == [r EXCEPT !.schedEv = @ \cup {i}]
        free == [r EXCEPT !.freeEv = @ \cup {i}]
        d == detach_internal_block(r, i)
        m == r.blk[i].int
    IN  IF r.blk[i].dirty \/ is_external(r, i)
        THEN IF keep THEN IF shall_be_cleaned(r, i) THEN schedule_write(sched, i).s ELSE sched
             ELSE IF r.ahead # <<>> THEN schedule_next_operations(free)
             ELSE IF i \in DOMAIN r.writes THEN free ELSE schedule_write(free, i).s
        ELSE IF keep THEN [d EXCEPT !.meta[i].reserved = m]
             ELSE ScheduleMore(return_free_internal_block(d, m))

prefetching_release(s, i, dirty) ==
    LET r == release_block(make_dirty_if(s, i, dirty), i)
    IN  operation_done(IF is_acquired(r, i) THEN r ELSE ReleaseLast(r, i), i)

GiveBack(d, i, m) ==
    IF m = 0 THEN d
    ELSE IF shall_keep_internal_block(d, i, 1) THEN [d EXCEPT !.meta[i].reserved = m]
    ELSE ScheduleMore(return_free_internal_block(d, m))

prefetching_deinitialize(s, i) ==
    LET held == IF shall_keep_internal_block(s, i, 0) THEN s.freeEv \cup s.schedEv ELSE s.freeEv
        e == [Expect(s, i \in held, "not evictable")
                EXCEPT !.freeEv = @ \ {i}, !.schedEv = @ \ {i}]
    IN  operation_done(GiveBack(deinitialize_block(IF is_evictable(s, i) THEN e ELSE s, i), i,
                                s.blk[i].int), i)

prefetching_initialize(s, i, bid) ==
    LET t == initialize_block(s, i, bid)
    IN  operation_done(IF shall_be_read(t, i, 1) THEN prefetch(t, i) ELSE t, i)

prefetching_extract_external_block(s, i) ==
    extract_block(operation_done(WaitOnWrite(s, i), i), i)

DeadIf(op, i, s) == IF op = "free" THEN Dead(i, s) ELSE s
UpcomingCall(u, op, i, bid) ==
    IF u.err # {} THEN u
    ELSE CASE op \in {"acq", "acqU"} -> prefetching_acquire(u, i, op = "acqU")
           [] op \in {"rel", "relD"} -> prefetching_release(u, i, op = "relD")
           [] op \in {"deinit", "free"} -> DeadIf(op, i, prefetching_deinitialize(u, i))
           [] op = "init" -> prefetching_initialize(u, i, bid)
           [] OTHER -> prefetching_extract_external_block(u, i)
prefetching_call(s, c, i, bid) ==
    IF c.op \in {"tick", "flush"} THEN s
    ELSE UpcomingCall(Upcoming(s, IF c.op = "free" THEN "deinit" ELSE c.op, i), c.op, i, bid)

PrefetchSwitched(s, op) ==
    LET t == IF s.algo = "pre" THEN leave_prefetching(s) ELSE s
    IN  IF op = "pre" THEN init_prefetching(t) ELSE Switched(t, op)

PrefetchServed(s, c, i, bid) ==
    IF s.algo = "pre" THEN prefetching_call(s, c, i, bid) ELSE Served(s, c, i, bid)

PrefetchInit ==
    \E p \in Programs, n \in Sizes :
        /\ obj = NewScheduler(n) @@ [ahead |-> <<>>, meta |-> <<>>, writes |-> <<>>, freeEv |-> {},
                                     schedEv |-> {}, reads |-> {}]
        /\ ref = NewClient(p)

DiskStep ==
    /\ obj.err = {}
    /\ \/ \E g \in DOMAIN obj.writes, missed \in {FALSE, Reorder} :
            /\ obj.writes[g].phase = "busy"
            /\ obj' = IF missed THEN write_misses(obj, g) ELSE write_arrives(obj, g)
       \/ \E g \in DOMAIN obj.writes : obj.writes[g].phase = "done" /\ obj' = read_after_write(obj, g)
       \/ \E q \in obj.reads : obj' = read_arrives(obj, q)
    /\ UNCHANGED ref

PrefetchNext == ClientStep(PrefetchSwitched, PrefetchServed) \/ DiskStep

-----------------------------------------------------------------------------
(* Prefetching changes nothing for the client, in whatever order the disks  *)
(* serve: it sees what it last wrote, and no assertion fails.               *)
PrefetchContents == BlockContents

(* Every internal block is free, attached or reserved for an acquire, never *)
(* two of these; and the blocks in memory that nobody holds are evictable,  *)
(* either now or after their scheduled use.                                 *)
PrefetchMemory ==
    /\ InternalOwnedOnce(obj, LAMBDA m : Cardinality({i \in DOMAIN obj.meta : obj.meta[i].reserved = m}))
    /\ DiskOwnedOnce(obj, {ref.held[h] : h \in Handles} \ {0})
    /\ obj.algo = "pre" => /\ obj.freeEv \cap obj.schedEv = {}
                           /\ obj.freeEv \cup obj.schedEv = {i \in DOMAIN obj.blk : is_evictable(obj, i)}

(* A block is not read while it is being written, an internal block is not  *)
(* filled while its old contents are on their way out, and nothing is under *)
(* way on the memory of a block that the client holds.                      *)
TransfersOrdered ==
    LET busy == {g \in DOMAIN obj.writes : obj.writes[g].phase = "busy"}
    IN  /\ \A q \in obj.reads, g \in busy : q.b # obj.writes[g].b /\ q.m # obj.writes[g].m
        /\ \A h \in Handles : ref.acq[h] > 0 =>
              LET m == obj.blk[ref.id[h]].int
              IN  /\ \A q \in obj.reads : q.m # m
                  /\ \A g \in busy : obj.writes[g].m # m

(* After prefetching nothing is left under way, and what had been reserved  *)
(* is returned.                                                             *)
AllWaitedFor ==
    obj.algo # "pre" => /\ obj.reads = {}
                        /\ DOMAIN obj.writes = {}
                        /\ DOMAIN obj.meta = {}

=============================================================================
