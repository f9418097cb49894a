---------------------------- MODULE RunFormation ----------------------------
(* create_runs of sort.h and of ksort.h: two groups of m2 buffers, one      *)
(* being filled with the next run while the other is written; the read of   *)
(* a block of a later run is started by the completion handler of the write *)
(* that frees its buffer, in the thread that served the write.  Input block *)
(* n and the i-th block of run k stand for their contents: In(n), Out(k, i).*)
(* A request is named by the block it moves, 0 is no request.  Then the     *)
(* runs creators of the stream layer (CreatorInit, CreatorNext).            *)
EXTENDS SortKernels

CONSTANTS Shapes,   \* sequences of run sizes, all but the last equal
          Inputs,   \* records [B, m2, keys] of basic_runs_creator
          Sequences \* records [B, seqs] of runs_creator<from_sorted_sequences>

VARIABLES obj, ref

m2 == obj.sizes[1]
nruns == Len(obj.sizes)
Unread == <<"unread">>
In(n) == <<"in", n>>
Out(k, i) == <<"out", k, i>>
Total == MapThenSumSet(LAMBDA k : obj.sizes[k], DOMAIN obj.sizes)
FirstOf(k) == MapThenSumSet(LAMBDA j : obj.sizes[j], 1..(k - 1))
SizeOf(k) == IF k \in 1..nruns THEN obj.sizes[k] ELSE 0
Other(g) == 3 - g

-----------------------------------------------------------------------------
(* Both sorters read the first run; sort.h reads the second one as well.    *)

StartRead(o, g, i, n) ==
    [o EXCEPT !.reads = @ \cup {[group |-> g, i |-> i, bid |-> n]}, !.read_reqs[g][i] = n,
              !.blocks[g][i] = Unread]

ReadRun(o, g, k) ==
    LET f[i \in 0..o.sizes[k]] ==
            IF i = 0 THEN [o EXCEPT !.next = @ + o.sizes[k]]
            ELSE [StartRead(f[i - 1], g, i, o.next + i) EXCEPT !.bids[g][i] = o.next + i]
    IN  f[o.sizes[k]]

Fresh(alg, sizes) ==
    LET n == sizes[1]
    IN  [alg |-> alg, sizes |-> sizes, pc |-> "start", k |-> 1, i |-> 1, cur |-> 1, next |-> 0,
         blocks |-> [g \in 1..2 |-> [i \in 1..n |-> Unread]],
         bids |-> [g \in 1..2 |-> [i \in 1..n |-> 0]],
         read_reqs |-> [g \in 1..2 |-> [i \in 1..n |-> 0]],
         write_reqs |-> [i \in 1..n |-> <<>>],
         reads |-> {}, writes |-> {}, deleted |-> {}, disk |-> {}]

Init ==
    /\ \E sizes \in Shapes, alg \in {"sort", "ksort"} : obj = Fresh(alg, sizes)
    /\ ref = <<>>

Start ==
    /\ obj.pc = "start"
    /\ obj' = IF obj.alg = "sort"
              THEN [ReadRun(ReadRun(obj, 1, 1), 2, 2) EXCEPT !.pc = "wait_reads"]
              ELSE [ReadRun(obj, 1, 1) EXCEPT !.pc = "wait"]
    /\ UNCHANGED ref

-----------------------------------------------------------------------------
(* I/O threads.  A request is over once its handler has run.                *)

ReadDone ==
    /\ \E r \in obj.reads :
        obj' = [obj EXCEPT !.reads = @ \ {r}, !.blocks[r.group][r.i] = In(r.bid)]
    /\ UNCHANGED ref

(* *req = block->read(bid)                                                  *)
Stored(w) == obj.blocks[w.group][w.i]

read_next_after_write_completed(o, w) ==
    IF w.then = 0 THEN o
    ELSE [o EXCEPT !.reads = @ \cup {[group |-> w.group, i |-> w.i, bid |-> w.then]},
                   !.read_reqs[IF o.alg = "sort" THEN w.group ELSE 1][w.i] = w.then,
                   !.blocks[w.group][w.i] = Unread]

write_completion_handler(o, w) == read_next_after_write_completed(o, w)

WriteDone ==
    /\ \E w \in obj.writes :
        LET o == [obj EXCEPT !.writes = @ \ {w}, !.disk = @ \cup {<<w.k, w.i, Stored(w)>>}]
        IN  obj' = IF o.alg = "sort" THEN read_next_after_write_completed(o, w)
                   ELSE write_completion_handler(o, w)
    /\ UNCHANGED ref

ReadStarted(n) == n # 0
ReadOver(n) == n # 0 /\ \A r \in obj.reads : r.bid # n
WriteOver(w) == \A x \in obj.writes : <<x.k, x.i>> # w

-----------------------------------------------------------------------------
(* sort.h                                                                   *)

(* A sort of the run's buffers needs all of its blocks in them.             *)
Sorted(o, g, k) ==
    LET whole == \A i \in 1..o.sizes[k] : o.blocks[g][i] = In(FirstOf(k) + i)
    IN  [i \in 1..m2 |-> IF i <= o.sizes[k]
                         THEN (IF whole THEN Out(k, i) ELSE Unread) ELSE o.blocks[g][i]]

WaitReads ==
    /\ obj.pc = "wait_reads"
    /\ \A i \in 1..obj.sizes[obj.k] : ReadOver(obj.read_reqs[obj.cur][i])
    /\ obj' = [obj EXCEPT !.pc = "wait_writes", !.blocks[obj.cur] = Sorted(obj, obj.cur, obj.k),
                          !.deleted = @ \cup {obj.bids[obj.cur][i] : i \in 1..obj.sizes[obj.k]}]
    /\ UNCHANGED ref

NoWait(i) == TRUE
WriteWaited(i) == obj.k = 1 \/ WriteOver(obj.write_reqs[i])

WaitWrites ==
    /\ obj.pc = "wait_writes"
    /\ \A i \in 1..m2 : WriteWaited(i)
    /\ obj' = [obj EXCEPT !.pc = "write", !.i = 1]
    /\ UNCHANGED ref

(* Block i of the run is written; its buffer is then read into for the run  *)
(* after the next.                                                          *)
RunPlus2Size == SizeOf(obj.k + 2)

StartWrite(o, g, then) ==
    [o EXCEPT !.writes = @ \cup {[group |-> g, i |-> o.i, k |-> o.k, then |-> then]},
              !.write_reqs[o.i] = <<o.k, o.i>>, !.i = @ + 1]

WriteNext ==
    /\ obj.pc = "write" /\ obj.i <= SizeOf(obj.k)
    /\ LET o == IF obj.i > RunPlus2Size THEN StartWrite(obj, obj.cur, 0)
                ELSE [StartWrite(obj, obj.cur, obj.next + 1) EXCEPT
                        !.next = @ + 1, !.bids[obj.cur][obj.i] = obj.next + 1]
       IN  obj' = IF o.i <= SizeOf(o.k) THEN o
                  ELSE IF o.k = nruns THEN [o EXCEPT !.pc = "wait_last"]
                  ELSE [o EXCEPT !.pc = "wait_reads", !.k = @ + 1, !.cur = Other(@)]
    /\ UNCHANGED ref

LastWaited(i) == WriteOver(obj.write_reqs[i])

WaitLast ==
    /\ obj.pc = "wait_last"
    /\ \A i \in 1..SizeOf(nruns) : LastWaited(i)
    /\ obj' = [obj EXCEPT !.pc = "gone"]
    /\ UNCHANGED ref

-----------------------------------------------------------------------------
(* ksort.h: one array of read requests; blocks are classified one by one as *)
(* they arrive, and the sorted run goes to the other group of buffers.      *)

WaitBlockWrite ==
    /\ obj.pc = "wait"
    /\ obj.k > 1 => WriteOver(obj.write_reqs[obj.i])
    /\ obj' = [obj EXCEPT !.pc = "wait_read"]
    /\ UNCHANGED ref

WaitBlockRead ==
    /\ obj.pc = "wait_read" /\ ReadOver(obj.read_reqs[1][obj.i])
    /\ LET o == [obj EXCEPT !.deleted = @ \cup {obj.bids[1][obj.i]}, !.i = @ + 1]
       IN  obj' = IF o.i <= o.sizes[o.k] THEN [o EXCEPT !.pc = "wait"]
                  ELSE [o EXCEPT !.pc = "write_out", !.i = 1]
    /\ UNCHANGED ref

(* The sorted references point into the buffers of the current group.       *)
write_out ==
    /\ obj.pc = "write_out"
    /\ LET g == Other(obj.cur)
           o == [obj EXCEPT !.blocks[g][obj.i] = Sorted(obj, obj.cur, obj.k)[obj.i]]
           w == IF obj.i > SizeOf(obj.k + 1) THEN StartWrite(o, g, 0)
                ELSE [StartWrite([o EXCEPT !.read_reqs[1][obj.i] = 0], g, obj.next + 1) EXCEPT
                        !.next = @ + 1, !.bids[1][obj.i] = obj.next + 1]
       IN  obj' = IF w.i <= w.sizes[w.k] THEN w
                  ELSE IF w.k = nruns THEN [w EXCEPT !.pc = "wait_all"]
                  ELSE [w EXCEPT !.pc = "wait", !.k = @ + 1, !.i = 1, !.cur = g]
    /\ UNCHANGED ref

WaitAll ==
    /\ obj.pc = "wait_all"
    /\ \A i \in 1..m2 : obj.write_reqs[i] # <<>> /\ WriteOver(obj.write_reqs[i])
    /\ obj' = [obj EXCEPT !.pc = "gone"]
    /\ UNCHANGED ref

Next ==
    \/ Start \/ ReadDone \/ WriteDone
    \/ WaitReads \/ WaitWrites \/ WriteNext \/ WaitLast
    \/ WaitBlockWrite \/ WaitBlockRead \/ write_out \/ WaitAll

vars == <<obj, ref>>
Spec == Init /\ [][Next]_vars

-----------------------------------------------------------------------------
TypeOK ==
    /\ obj.cur \in 1..2 /\ obj.k \in 1..nruns /\ obj.next \in 0..Total
    /\ obj.deleted \subseteq 1..Total

(* Every block of every run arrives on disk with the sorted contents: no    *)
(* buffer is read into, sorted or refilled before its write is over.        *)
RunsWritten ==
    /\ \A d \in obj.disk : d[3] = Out(d[1], d[2])
    /\ obj.pc = "gone" => {<<d[1], d[2]>> : d \in obj.disk}
                            = {<<k, i>> \in (1..nruns) \X (1..m2) : i <= obj.sizes[k]}

(* A thread that waits for a read that the handler of a write starts finds  *)
(* this read, neither no request nor that of an earlier block: the writes   *)
(* that start the reads are waited for before.                              *)
NoNullWait ==
    /\ obj.pc = "wait_reads" => \A i \in 1..obj.sizes[obj.k] :
                                   obj.read_reqs[obj.cur][i] = FirstOf(obj.k) + i
    /\ obj.pc = "wait_read" => obj.read_reqs[1][obj.i] = FirstOf(obj.k) + obj.i
    /\ obj.pc = "wait_all" => \A i \in 1..m2 : obj.write_reqs[i] # <<>>

(* A block of the input is given back after it has been read, not before.   *)
NoReadOfDeleted == \A r \in obj.reads : r.bid \notin obj.deleted

(* The buffers are freed when no request uses them any more, and all of the *)
(* input has been read and given back.                                      *)
BuffersIdle ==
    obj.pc = "gone" => obj.reads = {} /\ obj.writes = {} /\ obj.deleted = 1..Total

-----------------------------------------------------------------------------
(* The runs creators that take their elements from a stream and from        *)
(* sequences that are sorted already.  The first fills one half of its      *)
(* memory while the writes of the other are under way.                      *)

-----------------------------------------------------------------------------
(* basic_runs_creator: blk holds both halves, h is the half that is Blocks1.*)

ElInRun(o) == o.cfg.m2 * o.cfg.B
HalfStart(o, h) == (h - 1) * ElInRun(o)
BlockAt(o, j) == SubSeq(o.blk, ((j - 1) * o.cfg.B) + 1, j * o.cfg.B)
InputEmpty(o) == o.pos = Len(o.cfg.keys)

Element(o, k) == <<o.cfg.keys[k], k>>

(* len elements into the half h.                                            *)
fetch(o, h) ==
    LET n == Min({ElInRun(o), Len(o.cfg.keys) - o.pos})
        at == HalfStart(o, h)
    IN  [o EXCEPT !.blk = [j \in DOMAIN @ |-> IF j \in (at + 1)..(at + n) THEN Element(o, o.pos + j - at)
                                               ELSE @[j]] \o <<>>,
                  !.pos = @ + n, !.len = n]

sort_run(o, h, n) ==
    LET at == HalfStart(o, h)
    IN  [o EXCEPT !.blk = SubSeq(@, 1, at) \o Sort(SubSeq(@, at + 1, at + n))
                            \o SubSeq(@, at + n + 1, Len(@))]

FillNothing(o, h, blocks, n) == o
fill_with_max_value(o, h, blocks, n) ==
    LET at == HalfStart(o, h)
    IN  [o EXCEPT !.blk = [j \in DOMAIN @ |-> IF j \in (at + n + 1)..(at + blocks * o.cfg.B) THEN Pad
                                               ELSE @[j]] \o <<>>]

(* New blocks for the n elements that start at the half h.                  *)
StartRun(o, h, n, then) ==
    LET blocks == div_ceil(n, o.cfg.B)
        bids == new_blocks(o.live, blocks)
    IN  [fill_with_max_value(o, h, blocks, n)
            EXCEPT !.live = @ \cup Range(bids), !.run = bids, !.from = h, !.size = n, !.i = 1,
                   !.pc = "write", !.then = then]

fetch_first ==
    /\ obj.pc = "first"
    /\ LET f == fetch(obj, 1)
           s == sort_run(f, 1, f.len)
       IN  obj' = IF s.len <= s.cfg.B /\ InputEmpty(s)
                  THEN [s EXCEPT !.res.small = SubSeq(s.blk, 1, s.len), !.res.elements = s.len, !.pc = "done"]
                  ELSE StartRun(s, 1, s.len, "second")

write ==
    /\ obj.pc = "write" /\ obj.i <= Len(obj.run)
    /\ WaitOver(obj, obj.i)
    /\ obj' = [obj EXCEPT !.flight = Append(@, [bid |-> obj.run[obj.i], i |-> obj.i,
                                                j |-> ((obj.from - 1) * obj.cfg.m2) + obj.i]),
                          !.i = @ + 1]

(* The run is added when its writes have been started.                      *)
Entries(o) ==
    [i \in DOMAIN o.run |-> [bid |-> o.run[i],
                             value |-> BlockAt(o, ((o.from - 1) * o.cfg.m2) + i)[1]]] \o <<>>
written ==
    /\ obj.pc = "write" /\ obj.i > Len(obj.run)
    /\ obj' = [obj EXCEPT !.res = add_run(@, Entries(obj), obj.size), !.run = <<>>,
                          !.pc = IF InputEmpty(obj) THEN "wait" ELSE obj.then,
                          !.h = IF obj.then = "loop" THEN 3 - @ ELSE @]

SecondPart(o) == fetch(o, 2)

(* All that there is fits into both halves: it is sorted once more, while   *)
(* the writes of the first run, which is given up, are still under way.     *)
fetch_second ==
    /\ obj.pc = "second"
    /\ LET f == SecondPart(obj)
       IN  obj' = IF InputEmpty(f)
                  THEN [sort_run(f, 1, ElInRun(f) + f.len) EXCEPT !.pc = "resorted"]
                  ELSE [StartRun(sort_run(f, 2, f.len), 2, f.len, "loop") EXCEPT !.h = 2]

KeepFirst(o) == [o EXCEPT !.res = NoRuns]
DropFirst(o) == [delete_blocks(o, SetOfBids(o.res.runs)) EXCEPT !.res = NoRuns]

resorted ==
    /\ obj.pc = "resorted"
    /\ \A i \in 1..Len(obj.res.runs[1]) : WaitOver(obj, i)
    /\ obj' = StartRun(DropFirst(obj), 1, ElInRun(obj) + obj.len, "wait")

fetch_next ==
    /\ obj.pc = "loop"
    /\ LET f == fetch(obj, obj.h)
       IN  obj' = StartRun(sort_run(f, f.h, f.len), f.h, f.len, "loop")

LastWait(o) == \A i \in 1..(2 * o.cfg.m2) : WaitOver(o, i)
wait_all ==
    /\ obj.pc = "wait" /\ LastWait(obj)
    /\ obj' = [obj EXCEPT !.pc = "done", !.blk = <<>>]

served ==
    /\ obj.flight # <<>>
    /\ LET f == Head(obj.flight)
       IN  obj' = [obj EXCEPT !.disk[f.bid] = BlockAt(obj, f.j), !.flight = Tail(@)]

-----------------------------------------------------------------------------
(* runs_creator<from_sorted_sequences>: a block is written when it is full  *)
(* and when its run is finished.  seq and pos tell what was pushed.         *)

WriteCurrent(o) ==
    LET bid == new_blocks(o.live, 1)[1]
        block == o.cur
        run == Append(IF Len(o.res.runs) = o.irun THEN <<>> ELSE o.res.runs[o.irun + 1],
                      [bid |-> bid, value |-> block[1]])
    IN  [o EXCEPT !.live = @ \cup {bid}, !.disk[bid] = block, !.cur = <<>>, !.iblock = @ + 1,
                  !.res.runs = SubSeq(@, 1, o.irun) \o <<run>>]

push(e) ==
    LET o == [obj EXCEPT !.cur = Append(@, e), !.res.elements = @ + 1, !.pos = @ + 1]
    IN  obj' = IF Len(o.cur) = o.cfg.B THEN WriteCurrent(o) ELSE o

FinishSize(o) == (o.iblock * o.cfg.B) + Len(o.cur)

finish(o) ==
    LET sized == [o EXCEPT !.res.sizes = Append(@, FinishSize(o))]
        padded == [sized EXCEPT !.cur = @ \o [k \in 1..(o.cfg.B - Len(@)) |-> Pad]]
    IN  IF o.cur = <<>> /\ o.iblock = 0 THEN o
        ELSE [(IF o.cur = <<>> THEN sized ELSE WriteCurrent(padded))
                EXCEPT !.iblock = 0, !.irun = @ + 1]

Given == obj.cfg.seqs
push_sorted ==
    /\ obj.pc = "push" /\ obj.seq <= Len(Given) /\ obj.pos < Len(Given[obj.seq])
    /\ push(<<Given[obj.seq][obj.pos + 1], 10 * obj.seq + obj.pos + 1>>)

finish_sorted ==
    /\ obj.pc = "push" /\ obj.seq <= Len(Given) /\ obj.pos = Len(Given[obj.seq])
    /\ obj' = [finish(obj) EXCEPT !.seq = @ + 1, !.pos = 0]

(* result() finishes what was not.                                          *)
result ==
    /\ obj.pc = "push"
    /\ obj.seq = Len(Given) => obj.pos = Len(Given[obj.seq])
    /\ obj.seq >= Len(Given)
    /\ obj' = [finish(obj) EXCEPT !.pc = "done"]

Common == [res |-> NoRuns, live |-> {}, flight |-> <<>>, pos |-> 0]
CreatorInit ==
    /\ \/ \E c \in Inputs :
            obj = [cfg |-> c, pc |-> "first", blk |-> [j \in 1..(2 * c.m2 * c.B) |-> Junk], h |-> 1,
                   len |-> 0, run |-> <<>>, from |-> 1, size |-> 0, i |-> 0, then |-> "none",
                   disk |-> [b \in 1..(Len(c.keys) + 3) |-> <<>>]] @@ Common
       \/ \E c \in Sequences :
            obj = [cfg |-> c, pc |-> "push", cur |-> <<>>, iblock |-> 0, irun |-> 0, seq |-> 1,
                   disk |-> [b \in 1..9 |-> <<>>]] @@ Common
    /\ ref = <<>>

CreatorNext ==
    /\ \/ fetch_first \/ write \/ written \/ fetch_second \/ resorted \/ fetch_next \/ wait_all
       \/ served \/ push_sorted \/ finish_sorted \/ result
    /\ UNCHANGED ref

-----------------------------------------------------------------------------
(* The variables have the shape of their types.                             *)
CreatorTypeOK ==
    /\ obj.pc \in {"first", "write", "second", "resorted", "loop", "wait", "done", "push"}
    /\ obj.pos \in Nat /\ obj.live \subseteq DOMAIN obj.disk /\ obj.res.elements \in Nat

Content(o, r) == Flat([i \in DOMAIN o.res.runs[r] |-> o.disk[o.res.runs[r][i].bid]])
Wanted(o) ==
    IF "m2" \in DOMAIN o.cfg THEN {Element(o, k) : k \in DOMAIN o.cfg.keys}
    ELSE UNION {{<<o.cfg.seqs[q][k], 10 * q + k>> : k \in DOMAIN o.cfg.seqs[q]} : q \in DOMAIN o.cfg.seqs}

(* When result() returns, every run is on disk, sorted, padded behind its   *)
(* size with max_value, each block entered with its first element, and the  *)
(* runs hold all of the input (compute_result, push, finish).               *)
RunsComplete ==
    obj.pc = "done" =>
        LET runs == obj.res.runs
            part(r) == SubSeq(Content(obj, r), 1, obj.res.sizes[r])
            all == UNION {Range(part(r)) : r \in DOMAIN runs} \cup Range(obj.res.small)
        IN  /\ Len(obj.res.sizes) = Len(runs)
            /\ all = Wanted(obj) /\ obj.res.elements = Cardinality(all)
            /\ \A r \in DOMAIN runs :
                  /\ \A j \in 2..Len(Content(obj, r)) : ~Less(Content(obj, r)[j], Content(obj, r)[j - 1])
                  /\ \A j \in DOMAIN Content(obj, r) : j > obj.res.sizes[r] => Content(obj, r)[j] = Pad
                  /\ \A i \in DOMAIN runs[r] : runs[r][i].value = obj.disk[runs[r][i].bid][1]

(* Only what is no longer needed changes under a write: fetch() fills a     *)
(* half of which nothing is being written, and the memory is freed when     *)
(* no write uses it.                                                        *)
HalfIdle ==
    LET busy == {obj.flight[k].j : k \in DOMAIN obj.flight}
    IN  /\ obj.pc = "loop" => \A j \in busy : ((j - 1) \div obj.cfg.m2) + 1 # obj.h
        /\ obj.pc = "done" => busy = {}

(* The blocks allocated are those of the runs, each once: the run that is   *)
(* sorted again gives its blocks back.                                      *)
RunBlocksExact ==
    "run" \in DOMAIN obj =>
        /\ obj.live = SetOfBids(obj.res.runs) \cup Range(obj.run)
        /\ Cardinality(obj.live) = FoldLeft(LAMBDA a, r : a + Len(r), Len(obj.run), obj.res.runs)
=============================================================================
