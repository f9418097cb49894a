--------------------------- MODULE BlockStreams -----------------------------
(* Streams of blocks: the buffered writer, which writes blocks behind its   *)
(* client (WriterInit, WriterNext), and the prefetcher, which reads them    *)
(* ahead of its clients (Init, Next).                                       *)
EXTENDS Integers, Sequences, FiniteSets, FiniteSetsExt, SequencesExt

CONSTANTS Pools,     \* <<buffers, batch size, buffers the client holds>>
          Places,    \* offsets on disk the client writes to, each once
          Junk,      \* what a client leaves in a buffer it is filling
          Layouts,   \* sequences of disks: where the blocks are
          Buffers,   \* numbers m of buffers the schedule counts on
          Cursors,   \* numbers of buffers the cursors of a merge hold
          MaxDevice, \* the largest device id
          NoDevice,  \* file::DEFAULT_DEVICE_ID
          BlockSize  \* records per block

VARIABLES obj, ref

vars == <<obj, ref>>

-----------------------------------------------------------------------------
(* buffered_writer: a pool of write buffers.  The client fills a buffer it  *)
(* holds and hands it in with the place it goes to; the writer collects a   *)
(* batch, starts the writes of the batch by ascending offset, and gives the *)
(* client a buffer whose write is over.  Writes complete in any order, and  *)
(* what a write puts on disk is what its buffer contains when it completes. *)

WriteBuffers == 1..obj.nwriteblocks

WriterInit ==
    \E p \in Pools :
        LET n == Max({p[1], 2})
        IN  /\ obj = [nwriteblocks |-> n, writebatchsize |-> Max({p[2], 1}), wants |-> p[3],
                      buffer |-> [b \in 1..n |-> Junk], bid |-> [b \in 1..n |-> 0],
                      free |-> [b \in 1..n |-> b], busy |-> <<>>, batch |-> {},
                      flight |-> {}, held |-> {}, pc |-> "ready", disk |-> <<>>]
            /\ ref = <<>>

-----------------------------------------------------------------------------
(* The entry of the batch with the lowest offset.                           *)
top(o) == CHOOSE b \in o.batch : \A c \in o.batch : o.bid[b] <= o.bid[c]

StartWrite(o) ==
    [o EXCEPT !.batch = @ \ {top(o)}, !.busy = Append(@, top(o)), !.flight = @ \cup {top(o)}]

FlushBatch(o) ==
    LET f[i \in 0..Cardinality(o.batch)] == IF i = 0 THEN o ELSE StartWrite(f[i - 1])
    IN  f[Cardinality(o.batch)]

(* The first busy buffer whose write is over becomes free.                  *)
Without(s, i) == SubSeq(s, 1, i - 1) \o SubSeq(s, i + 1, Len(s))

PollKeepsBusy(o) ==
    LET done == {i \in DOMAIN o.busy : o.busy[i] \notin o.flight}
    IN  IF done = {} THEN o ELSE [o EXCEPT !.free = Append(@, o.busy[Min(done)])]

Poll(o) ==
    LET done == {i \in DOMAIN o.busy : o.busy[i] \notin o.flight}
    IN  IF done = {} THEN o
        ELSE [o EXCEPT !.busy = Without(@, Min(done)), !.free = Append(@, o.busy[Min(done)])]

Give(o, b) == [o EXCEPT !.held = @ \cup {b}, !.pc = "ready"]

GetFreeBlock(o) ==
    LET p == Poll(o)
        n == Len(p.free)
    IN  IF n = 0 THEN [p EXCEPT !.pc = "wait_any"]
        ELSE Give([p EXCEPT !.free = SubSeq(@, 1, n - 1)], p.free[n])

get_free_block ==
    /\ obj.pc = "ready" /\ Cardinality(obj.held) < obj.wants
    /\ obj' = GetFreeBlock(obj)
    /\ UNCHANGED ref

(* wait_any returns a busy buffer whose write is over.                      *)
AnyBusy(o, i) == TRUE
AnyDone(o, i) == o.busy[i] \notin o.flight

wait_any ==
    /\ obj.pc = "wait_any"
    /\ \E i \in DOMAIN obj.busy :
        /\ AnyDone(obj, i)
        /\ obj' = Give([obj EXCEPT !.busy = Without(@, i)], obj.busy[i])
    /\ UNCHANGED ref

(* The client is at work on the buffers it holds.                           *)
Fill ==
    /\ obj.pc = "ready"
    /\ \E b \in obj.held : obj' = [obj EXCEPT !.buffer[b] = Junk]
    /\ UNCHANGED ref

BatchNever(o) == Cardinality(o.batch) >= o.nwriteblocks
BatchFull(o) == Cardinality(o.batch) >= o.writebatchsize

write ==
    /\ obj.pc = "ready"
    /\ \E b \in obj.held, at \in Places \ DOMAIN ref :
        LET content == Cardinality(DOMAIN ref) + 1
            o == IF BatchFull(obj) THEN FlushBatch(obj) ELSE obj
            p == [o EXCEPT !.buffer[b] = content, !.bid[b] = at, !.batch = @ \cup {b},
                           !.held = @ \ {b}]
        IN  /\ obj' = GetFreeBlock(p)
            /\ ref' = [x \in DOMAIN ref \cup {at} |-> IF x = at THEN content ELSE ref[x]]

Put(disk, at, content) ==
    [x \in DOMAIN disk \cup {at} |-> IF x = at THEN content ELSE disk[x]]

WriteDone ==
    /\ \E b \in obj.flight :
        obj' = [obj EXCEPT !.flight = @ \ {b}, !.disk = Put(@, obj.bid[b], obj.buffer[b])]
    /\ UNCHANGED ref

-----------------------------------------------------------------------------
(* flush() and the destructor start the rest of the writes and wait for all *)
(* busy buffers; after flush() every buffer is free.                        *)
flush ==
    /\ obj.pc = "ready" /\ obj.batch \cup {obj.busy[i] : i \in DOMAIN obj.busy} # {}
    /\ obj' = [FlushBatch(obj) EXCEPT !.pc = "flush"]
    /\ UNCHANGED ref

DestroyWriter ==
    /\ obj.pc = "ready"
    /\ obj' = [FlushBatch(obj) EXCEPT !.pc = "destroy"]
    /\ UNCHANGED ref

FirstDone(o) == o.busy # <<>> => o.busy[1] \notin o.flight
AllDone(o) == \A i \in DOMAIN o.busy : o.busy[i] \notin o.flight

(* A client does not go on with the buffers it held before flush().         *)
FlushWaited ==
    /\ obj.pc = "flush" /\ AllDone(obj)
    /\ obj' = [obj EXCEPT !.pc = "ready", !.busy = <<>>, !.held = {},
                          !.free = [b \in WriteBuffers |-> b]]
    /\ UNCHANGED ref

DestroyWaited ==
    /\ obj.pc = "destroy" /\ AllDone(obj)
    /\ obj' = [obj EXCEPT !.pc = "gone", !.busy = <<>>, !.held = {}, !.free = <<>>]
    /\ UNCHANGED ref

WriterNext ==
    \/ get_free_block \/ wait_any \/ Fill \/ write \/ WriteDone
    \/ flush \/ DestroyWriter \/ FlushWaited \/ DestroyWaited

-----------------------------------------------------------------------------
WriterTypeOK ==
    /\ obj.pc \in {"ready", "wait_any", "flush", "destroy", "gone"}
    /\ obj.batch \cup obj.flight \cup obj.held \subseteq WriteBuffers
    /\ DOMAIN obj.disk \subseteq Places

(* What arrives on disk is what the client had put into the buffer when it  *)
(* handed it in: no buffer in the batch or in flight is given out again.    *)
WrittenAsGiven == \A at \in DOMAIN obj.disk : obj.disk[at] = ref[at]

(* When no buffer is free there is a write whose end frees one: the writer  *)
(* does not wait for writes that are still in the batch.                    *)
WriterNeverStuck == obj.pc = "wait_any" => obj.busy # <<>>

(* After flush(), and when the writer is gone, all that was handed in is on *)
(* disk.                                                                    *)
AllWritten ==
    (obj.pc = "gone" \/ (obj.pc = "ready" /\ Len(obj.free) = obj.nwriteblocks))
        => DOMAIN obj.disk = DOMAIN ref

(* Every buffer is in one place.                                            *)
BuffersApart ==
    obj.pc # "gone" =>
        \A b \in WriteBuffers :
            Cardinality({i \in DOMAIN obj.free : obj.free[i] = b})
              + Cardinality({i \in DOMAIN obj.busy : obj.busy[i] = b})
              + Cardinality({b} \cap obj.batch) + Cardinality({b} \cap obj.held) = 1

-----------------------------------------------------------------------------
(* The order in which the blocks of a sequence are read ahead               *)
(* (compute_prefetch_schedule), the prefetcher that reads them in this      *)
(* order into a few buffers while they are consumed in the order of the     *)
(* sequence, and its three clients: the cursors of a merge, which hold      *)
(* several buffers and return any of them, and the forward and the reverse  *)
(* record streams, which hold one.  Reads complete in any order.            *)

L == Len(obj.disks)
D == MaxDevice

-----------------------------------------------------------------------------
(* compute_prefetch_schedule: simulate writing the blocks backwards, then   *)
(* read them in the reverse order of their writing.                         *)

get_disk(disks, b) == IF disks[b] = NoDevice THEN D ELSE disks[b]

(* The first m blocks from the end go to the queues of their disks, and the *)
(* first of every queue is being written.                                   *)
StartSimulation(disks, m) ==
    LET n == Len(disks)
        first == (IF m < n THEN n - m ELSE 0) + 1
        of(d) == SelectSeq([j \in 1..(n - first + 1) |-> n + 1 - j],
                           LAMBDA b : get_disk(disks, b) = d)
    IN  [queues |-> [d \in 0..D |-> IF of(d) = <<>> THEN <<>> ELSE Tail(of(d))],
         events |-> {<<1, of(d)[1]>> : d \in {e \in 0..D : of(e) # <<>>}},
         i |-> first - 1, oldtime |-> 0, busy |-> {}, time |-> [b \in 1..n |-> 0]]

Schedule(s, ts, d) ==
    [s EXCEPT !.events = @ \cup {<<ts, s.queues[d][1]>>}, !.queues[d] = Tail(@),
              !.busy = @ \cup {d}]

(* A place is free: the next block enters a queue or is written at once.    *)
AdmitDropped(s, ts, disks) ==
    LET d == get_disk(disks, s.i)
    IN  IF s.i = 0 THEN s
        ELSE IF d \in s.busy THEN [s EXCEPT !.i = @ - 1]
        ELSE IF s.queues[d] # <<>> THEN Schedule(s, ts, d)
        ELSE [s EXCEPT !.events = @ \cup {<<ts, s.i>>}, !.i = @ - 1, !.busy = @ \cup {d}]

Admit(s, ts, disks) ==
    LET d == get_disk(disks, s.i)
    IN  IF s.i = 0 THEN s
        ELSE IF d \in s.busy THEN [s EXCEPT !.queues[d] = Append(@, s.i), !.i = @ - 1]
        ELSE IF s.queues[d] # <<>> THEN Schedule(s, ts, d)
        ELSE [s EXCEPT !.events = @ \cup {<<ts, s.i>>}, !.i = @ - 1, !.busy = @ \cup {d}]

Successor(s, ts, d) ==
    IF d \notin s.busy /\ s.queues[d] # <<>> THEN Schedule(s, ts, d) ELSE s

Simulated(s, e, disks) ==
    LET s1 == [s EXCEPT !.events = @ \ {e}, !.oldtime = e[1], !.time[e[2]] = e[1],
                        !.busy = IF s.oldtime # e[1] THEN {} ELSE @]
    IN  Successor(Admit(s1, e[1] + 1, disks), e[1] + 1, get_disk(disks, e[2]))

Backwards(time) ==
    SortSeq([b \in DOMAIN time |-> b],
            LAMBDA a, b : time[a] > time[b] \/ (time[a] = time[b] /\ a < b))

Forwards(time) ==
    SortSeq([b \in DOMAIN time |-> b],
            LAMBDA a, b : time[a] < time[b] \/ (time[a] = time[b] /\ a < b))

ReadOrder(time) == Backwards(time)

-----------------------------------------------------------------------------
(* block_prefetcher.  buf holds the block a buffer contains (0: none),      *)
(* pref the buffer of a block, reading the reads in flight.                 *)

Bid(i) == IF obj.client = "reverse" THEN L + 1 - i ELSE i

Fetch(o, b, i) ==
    [o EXCEPT !.pref[i] = b, !.reading = @ \cup {<<b, i>>}, !.buf[b] = 0]

Prefetching(o, seq) ==
    LET n == Min({o.nbuf, Len(seq)})
        f[i \in 0..n] == IF i = 0 THEN [o EXCEPT !.seq = seq, !.phase = "fetch", !.nextread = n]
                         ELSE Fetch(f[i - 1], i, seq[i])
    IN  f[n]

Init ==
    \E disks \in Layouts, m \in Buffers, client \in {"cursors", "forward", "reverse"} :
    \E n \in IF client = "cursors" THEN Cursors ELSE {1} :
        /\ obj = [phase |-> "simulate", disks |-> disks, client |-> client, nheld |-> n,
                  nbuf |-> IF client = "cursors" THEN n + m ELSE m,
                  sim |-> StartSimulation(disks, m),
                  seq |-> <<>>, nextread |-> 0, nextconsume |-> 0,
                  pref |-> [b \in DOMAIN disks |-> 0],
                  buf |-> [b \in 1..(n + m) |-> 0], reading |-> {}, completed |-> {},
                  held |-> {}, waiting |-> 0, elem |-> 0]
        /\ n <= Len(disks)
        /\ ref = <<>>

(* A short sequence is read as it is.                                       *)
compute_prefetch_schedule ==
    /\ obj.phase = "simulate"
    /\ IF L <= D THEN obj' = Prefetching(obj, [b \in 1..L |-> b])
       ELSE /\ obj.sim.events = {}
            /\ obj' = Prefetching(obj, ReadOrder(obj.sim.time))
    /\ UNCHANGED ref

(* The next event is any of the earliest ones.                              *)
simulate_async_write ==
    /\ obj.phase = "simulate" /\ L > D
    /\ \E e \in obj.sim.events :
        /\ \A f \in obj.sim.events : e[1] <= f[1]
        /\ obj' = [obj EXCEPT !.sim = Simulated(@, e, obj.disks)]
    /\ UNCHANGED ref

(* A read completes: set_switch_handler turns on the switch of the block.   *)
ReadDone ==
    /\ obj.phase = "fetch"
    /\ \E r \in obj.reading :
        obj' = [obj EXCEPT !.reading = @ \ {r}, !.buf[r[1]] = Bid(r[2]),
                           !.completed = @ \cup {r[2]}]
    /\ UNCHANGED ref

Consume(o) == [o EXCEPT !.nextconsume = @ + 1, !.waiting = o.nextconsume + 1]

(* The cursors pull one block each, a stream pulls one when it is made.     *)
pull_block ==
    /\ obj.phase = "fetch" /\ obj.waiting = 0
    /\ obj.nextconsume < obj.nheld
    /\ obj' = Consume(obj)
    /\ UNCHANGED ref

(* wait() returns once the switch of the block is on.                       *)
WaitEarly == obj.waiting # 0 /\ obj.pref[obj.waiting] # 0
WaitOver == obj.waiting \in obj.completed

wait ==
    /\ WaitOver
    /\ LET b == obj.pref[obj.waiting]
       IN  /\ obj' = [obj EXCEPT !.waiting = 0, !.held = @ \cup {<<b, obj.buf[b]>>},
                                 !.elem = IF obj.client = "reverse" THEN BlockSize ELSE 1]
           /\ ref' = IF obj.client = "cursors" THEN Append(ref, obj.buf[b]) ELSE ref

(* The client returns buffer b: the next block of the schedule is read into *)
(* it, and the next block of the sequence is waited for, if there is one.   *)
RefillSkips(o, b) ==
    IF o.nextread < Len(o.disks)
    THEN Fetch([o EXCEPT !.nextread = @ + 1], b, o.seq[o.nextread]) ELSE o

Refill(o, b) ==
    IF o.nextread < Len(o.disks)
    THEN Fetch([o EXCEPT !.nextread = @ + 1], b, o.seq[o.nextread + 1]) ELSE o

block_consumed(o, h) ==
    LET p == Refill([o EXCEPT !.held = @ \ {h}], h[1])
    IN  IF o.nextconsume < L THEN Consume(p) ELSE p

CursorEmpty ==
    /\ obj.client = "cursors" /\ obj.phase = "fetch"
    /\ obj.waiting = 0 /\ obj.nextconsume >= obj.nheld
    /\ \E h \in obj.held : obj' = block_consumed(obj, h)
    /\ UNCHANGED ref

(* operator>> of the streams: the record at the current place, then on.     *)
ReadForward ==
    /\ obj.client = "forward" /\ obj.waiting = 0 /\ obj.held # {}
    /\ LET h == CHOOSE x \in obj.held : TRUE
       IN  /\ ref' = Append(ref, <<obj.buf[h[1]], obj.elem>>)
           /\ obj' = IF obj.elem < BlockSize THEN [obj EXCEPT !.elem = @ + 1]
                     ELSE block_consumed([obj EXCEPT !.elem = 1], h)

ReadReverse ==
    /\ obj.client = "reverse" /\ obj.waiting = 0 /\ obj.held # {}
    /\ LET h == CHOOSE x \in obj.held : TRUE
       IN  /\ ref' = Append(ref, <<obj.buf[h[1]], obj.elem>>)
           /\ obj' = IF obj.elem > 1 THEN [obj EXCEPT !.elem = @ - 1]
                     ELSE block_consumed([obj EXCEPT !.elem = BlockSize], h)

(* The destructor waits for the reads in flight; then the buffers are gone. *)
Destroy ==
    /\ obj.phase = "fetch" /\ obj.waiting = 0 /\ obj.nextconsume >= obj.nheld
    /\ obj.reading = {}
    /\ obj' = [obj EXCEPT !.phase = "gone", !.held = {}]
    /\ UNCHANGED ref

Next ==
    \/ simulate_async_write \/ compute_prefetch_schedule
    \/ ReadDone \/ pull_block \/ wait
    \/ CursorEmpty \/ ReadForward \/ ReadReverse \/ Destroy

-----------------------------------------------------------------------------
TypeOK ==
    /\ obj.phase \in {"simulate", "fetch", "gone"} /\ obj.waiting \in 0..L
    /\ obj.nextread \in 0..L /\ obj.nextconsume \in 0..L

(* The simulation ends with every block written, so that the schedule names *)
(* every block of the sequence once.                                        *)
ScheduleComplete ==
    obj.phase # "simulate" => ToSet(obj.seq) = 1..L /\ \A b \in 1..L : L <= D \/ obj.sim.time[b] > 0

(* Whatever the layout, and whichever buffers the client returns first, a   *)
(* block that is waited for is already being read: the schedule cannot make *)
(* the prefetcher wait for a buffer that nobody will return.                *)
NeverStalls == (obj.phase = "fetch" /\ obj.waiting # 0) => obj.pref[obj.waiting] # 0

(* A buffer in a client's hands keeps its block until the client returns    *)
(* it.                                                                      *)
HeldStable == \A h \in obj.held : obj.buf[h[1]] = h[2] /\ \A r \in obj.reading : r[1] # h[1]

(* The clients see the blocks, or the records, in the order of the          *)
(* sequence, though they are read in another order.                         *)
ConsumedInOrder ==
    \A k \in DOMAIN ref :
        ref[k] = CASE obj.client = "cursors" -> k
                   [] obj.client = "forward" -> <<((k - 1) \div BlockSize) + 1, ((k - 1) % BlockSize) + 1>>
                   [] OTHER -> <<L - ((k - 1) \div BlockSize), BlockSize - ((k - 1) % BlockSize)>>
=============================================================================
