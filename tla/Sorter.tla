------------------------------- MODULE Sorter -------------------------------
(* sorter: elements are pushed into a runs_creator, which sorts them a      *)
(* buffer at a time and writes runs while the other buffer fills, and are   *)
(* read back from a runs_merger.  A call that waits for writes takes        *)
(* several steps (pc), everything else is one; the writes of the requests   *)
(* happen in between.  An element is <<key, identity>>, and memory is       *)
(* counted in blocks.                                                       *)
EXTENDS SortKernels

CONSTANTS Cases,    \* records [B, m2, mem, par, keys]
          Disks, Unrolled,
          May       \* calls the code does not stand

VARIABLES obj, ref  \* ref: what was pushed since the last clear()

ElInRun(o) == o.cfg.m2 * o.cfg.B

-----------------------------------------------------------------------------
(* runs_creator: blk[g] is the buffer that fills, the other one may be on   *)
(* its way to the disk.  flight holds the writes under way, oldest first,   *)
(* each from block i of a buffer, as m_write_reqs[i].                       *)

BlockOf(o, g, i) == SubSeq(o.blk[g], ((i - 1) * o.cfg.B) + 1, i * o.cfg.B)

sort_run(o) ==
    [o EXCEPT !.blk[o.g] = Sort(SubSeq(@, 1, o.cur)) \o SubSeq(@, o.cur + 1, Len(@))]

fill_with_max_value(o, blocks) ==
    [o EXCEPT !.blk[o.g] = [j \in DOMAIN @ |-> IF j > o.cur /\ j <= blocks * o.cfg.B
                                               THEN Pad ELSE @[j]] \o <<>>]

Store(o, e) == [o EXCEPT !.blk[o.g][o.cur + 1] = e, !.cur = @ + 1]

(* A run of the n elements of blk[g] is to be written, call goes on then.   *)
StartRun(o, n, call) ==
    LET blocks == div_ceil(n, o.cfg.B)
        bids == new_blocks(o.live, blocks)
    IN  [o EXCEPT !.live = @ \cup Range(bids), !.run = bids, !.size = n, !.i = 1,
                  !.pc = "writing", !.call = call]

SwapLate(o) == o
Swap(o) == [o EXCEPT !.g = 3 - @]

push(o, e) ==
    IF o.cur < ElInRun(o) THEN Store(o, e)
    ELSE [StartRun(sort_run(o), ElInRun(o), [op |-> "push", arg |-> e]) EXCEPT !.cur = 0]

WriteBlock(o) ==
    [o EXCEPT !.flight = Append(@, [bid |-> o.run[o.i], g |-> o.g, i |-> o.i]), !.i = @ + 1]

(* The triggers are taken in the loop, after the buffer was sorted.         *)
AddRun(o) ==
    LET entries == [i \in DOMAIN o.run |-> [bid |-> o.run[i], value |-> BlockOf(o, o.g, i)[1]]]
    IN  [o EXCEPT !.res = add_run(@, entries \o <<>>, o.size), !.run = <<>>]

NoCall == [op |-> "none", arg |-> Pad]
Return(o) == [o EXCEPT !.pc = "idle", !.call = NoCall, !.i = 0, !.size = 0]
EndPush(o) == Return(Store(Swap(AddRun(o)), o.call.arg))

(* What nothing reads before it is set again is forgotten.                  *)
clear(o) ==
    [sorted_runs_clear(o) EXCEPT !.computed = FALSE, !.cur = 0, !.rem = 0, !.win = <<>>, !.out = <<>>]

allocate(o) ==
    clear(IF o.alloc THEN o
          ELSE [o EXCEPT !.alloc = TRUE, !.g = 1,
                         !.blk = [g \in 1..2 |-> [j \in 1..ElInRun(o) |-> Junk] \o <<>>] \o <<>>])

free_buffers(o) == [o EXCEPT !.alloc = FALSE, !.blk = <<>>]

-----------------------------------------------------------------------------
(* runs_merger                                                              *)

Read(o, run) == [i \in DOMAIN run |-> [value |-> run[i].value, elem |-> o.disk[run[i].bid]]]
Consume(o, runs) == ConsumeSequence(FoldLeft(LAMBDA acc, r : acc \o Read(o, r), <<>>, runs))

KeepCount(t, mergeable) == [t EXCEPT !.mergeable = mergeable]

NewTree(o, runs, mergeable) ==
    IF o.cfg.par THEN KeepCount(pull_blocks(Consume(o, runs), Len(runs)), mergeable)
    ELSE loser_tree(Consume(o, runs), Len(runs))

(* Up to a block of what remains.                                           *)
fill_buffer_block(t, par, B, left) ==
    IF par THEN LET goal == Len(t.out) + B
                IN  Iterate(LAMBDA q : MergeRound(q, goal, left), B, t)
    ELSE multi_merge(t, Min({B, left}), Unrolled)

Filled(o, t) ==
    [o EXCEPT !.tree = t, !.win = SubSeq(t.out, 1, Min({o.cfg.B, o.rem})),
              !.mergeable = IF o.cfg.par THEN t.mergeable ELSE 0]
Fill(o) == Filled(o, fill_buffer_block([o.tree EXCEPT !.out = <<>>], o.cfg.par, o.cfg.B, o.rem))

min_prefetch == 2 * Disks
input_buffers(mem) == IF mem > 1 THEN mem - 1 ELSE 0
MaxArityHigh(mem) == IF mem > 2 * Disks + 1 THEN mem - 2 * Disks ELSE 0
MaxArity(mem) == IF mem > 4 * Disks + 1 THEN mem - (4 * Disks + 1) ELSE 0

(* Runs a..b become one, written to new blocks; their own are freed when    *)
(* the merger is gone.                                                      *)
PadTail(s, B) == s \o [j \in 1..((B - (Len(s) % B)) % B) |-> Pad]

KeepMerged(o, old) == o
DropMerged(o, old) == delete_blocks(o, SetOfBids(old))

MergedData(o, runs, n, blocks) ==
    PadTail(SubSeq(Iterate(LAMBDA q : fill_buffer_block(q, o.cfg.par, o.cfg.B, n - Len(q.out)),
                           blocks, NewTree(o, runs, 0)).out, 1, n), o.cfg.B)
WriteRun(o, bids, data) ==
    [o |-> [o EXCEPT !.live = @ \cup Range(bids),
                     !.disk = [b \in DOMAIN @ |-> IF b \in Range(bids)
                                                  THEN data[CHOOSE i \in DOMAIN bids : bids[i] = b]
                                                  ELSE @[b]] \o <<>>],
     run |-> [i \in DOMAIN bids |-> [bid |-> bids[i], value |-> data[i][1]]] \o <<>>]
MergeGroup(o, runs, n) ==
    LET blocks == div_ceil(n, o.cfg.B)
        w == WriteRun(o, new_blocks(o.live, blocks), Cut(MergedData(o, runs, n, blocks), o.cfg.B))
    IN  [w EXCEPT !.o = DropMerged(@, runs)]

(* p is the phase up to a group, m the merged group of size n.              *)
AddGroup(p, m, n) == [o |-> m.o, runs |-> Append(p.runs, m.run), sizes |-> Append(p.sizes, n)]
NextGroup(p, old, n) ==
    AddGroup(p, IF Len(old) > 1 THEN MergeGroup(p.o, old, n) ELSE [o |-> p.o, run |-> old[1]], n)
Replaced(p) == [p.o EXCEPT !.res.runs = p.runs, !.res.sizes = p.sizes]
MergePhase(o, factor) ==
    LET n == Len(o.res.runs)
        first(k) == ((k - 1) * factor) + 1
        last(k) == Min({k * factor, n})
        size(k) == FoldLeft(LAMBDA a, b : a + b, 0, SubSeq(o.res.sizes, first(k), last(k)))
        f[k \in 0..div_ceil(n, factor)] ==
            IF k = 0 THEN [o |-> o, runs |-> <<>>, sizes |-> <<>>]
            ELSE NextGroup(f[k - 1], SubSeq(o.res.runs, first(k), last(k)), size(k))
    IN  Replaced(f[div_ceil(n, factor)])

merge_recursively(o) ==
    LET factor == optimal_merge_factor(Len(o.res.runs), MaxArity(o.cfg.mem))
        fits == /\ factor > 1 /\ factor <= MaxArity(o.cfg.mem)
                /\ factor + min_prefetch <= input_buffers(o.cfg.mem - 2 * Disks)
    IN  IF ~fits THEN [o EXCEPT !.failed = TRUE]
        ELSE Iterate(LAMBDA x : IF Len(x.res.runs) > MaxArity(x.cfg.mem) THEN MergePhase(x, factor) ELSE x,
                     Len(o.res.runs), o)

Recursive(o) == input_buffers(o.cfg.mem) < Len(o.res.runs) + min_prefetch
TooLittle(o) == Recursive(o) /\ o.cfg.mem < 2 * min_prefetch + 3

FillFirst(o) ==
    Fill([o EXCEPT !.failed = @ \/ Len(o.res.runs) + min_prefetch > input_buffers(o.cfg.mem),
                   !.tree = NewTree(o, o.res.runs, o.mergeable)])
StartMerger(o) ==
    IF o.rem = 0 THEN [o EXCEPT !.win = <<>>]
    ELSE IF o.res.small # <<>> THEN [o EXCEPT !.win = o.res.small]
    ELSE IF TooLittle(o) THEN [o EXCEPT !.pc = "thrown"]
    ELSE FillFirst(IF Recursive(o) THEN merge_recursively(o) ELSE o)
initialize(o) ==
    StartMerger([o EXCEPT !.sruns = TRUE, !.rem = o.res.elements, !.st = "out", !.out = <<>>, !.pc = "idle"])

NextKeepsSize(o) ==
    LET a == [o EXCEPT !.out = Append(@, o.win[1]), !.win = Tail(@)]
    IN  IF a.win = <<>> /\ a.rem > o.cfg.B THEN Fill([a EXCEPT !.rem = @ - o.cfg.B]) ELSE a

Next1(o) ==
    LET a == [o EXCEPT !.out = Append(@, o.win[1]), !.win = Tail(@), !.rem = @ - 1]
    IN  IF a.win = <<>> /\ a.rem # 0 THEN Fill(a) ELSE a

merger_deallocate(o) == [o EXCEPT !.sruns = FALSE, !.tree = <<>>]

-----------------------------------------------------------------------------
(* The calls of sorter.  finish(), finish_clear(), sort() and sort_reuse()  *)
(* want the result of the creator, and go on when it is there.              *)

After(o, op) ==
    LET r == [Return(o) EXCEPT !.computed = TRUE]
        freed == IF op = "sort_reuse" THEN r ELSE free_buffers(r)
    IN  IF op \in {"finish", "finish_clear"} THEN freed ELSE initialize(freed)

SmallAnyTime(o) == o.cur <= o.cfg.B
Small(o) == o.cur <= o.cfg.B /\ o.res.elements = 0

(* m_cur_el keeps its value.                                                *)
KeepSmall(s) == [s EXCEPT !.res.small = SubSeq(s.blk[s.g], 1, s.cur), !.res.elements = s.cur]
compute_result(o, op) ==
    LET there == o.computed \/ o.cur = 0
    IN  IF there \/ Small(o) THEN After(IF there THEN o ELSE KeepSmall(sort_run(o)), op)
        ELSE StartRun(fill_with_max_value(sort_run(o), div_ceil(o.cur, o.cfg.B)), o.cur,
                      [op |-> op, arg |-> Pad])

Idle == obj.pc = "idle"
Writing == obj.pc = "writing"

Push(e) ==
    /\ Idle /\ obj.st = "in" /\ ~obj.computed
    /\ obj' = push(obj, e)
    /\ ref' = Append(ref, e)

write(f) ==
    /\ Writing /\ obj.i <= Len(obj.run) /\ WaitOver(obj, obj.i)
    /\ obj' = WriteBlock(obj)
    /\ UNCHANGED ref

pushed ==
    /\ Writing /\ obj.i > Len(obj.run) /\ obj.call.op = "push"
    /\ obj' = EndPush(obj)
    /\ UNCHANGED ref

LastWaitNone(o) == TRUE
LastWait(o) == \A i \in 1..o.cfg.m2 : WaitOver(o, i)

computed ==
    /\ Writing /\ obj.i > Len(obj.run) /\ obj.call.op # "push" /\ LastWait(obj)
    /\ obj' = After(AddRun(obj), obj.call.op)
    /\ UNCHANGED ref

finish ==
    /\ Idle
    /\ obj' = compute_result(IF obj.st = "out" THEN merger_deallocate(obj) ELSE obj, "finish")
    /\ UNCHANGED ref

(* The result is given up only by a sorter that was sorted.                 *)
finish_clear ==
    /\ Idle /\ (obj.st = "in" => "finish_clear" \in May)
    /\ obj' = compute_result(IF obj.st = "out" THEN sorted_runs_clear(merger_deallocate(obj))
                             ELSE obj, "finish_clear")
    /\ ref' = <<>>

(* A merger that is started again keeps the count of elements it may merge. *)
CountHarmless == obj.mergeable < obj.cfg.B

sort ==
    /\ Idle /\ (~CountHarmless => "again" \in May)
    /\ obj' = compute_result(IF obj.st = "out" THEN merger_deallocate(obj) ELSE obj, "sort")
    /\ UNCHANGED ref

sort_reuse ==
    /\ Idle /\ obj.st = "in" /\ (~CountHarmless => "again" \in May)
    /\ obj' = compute_result(obj, "sort_reuse")
    /\ UNCHANGED ref

rewind ==
    /\ Idle /\ obj.st = "out" /\ (~CountHarmless => "again" \in May)
    /\ obj' = compute_result([merger_deallocate(obj) EXCEPT !.st = "in"], "sort")
    /\ UNCHANGED ref

next ==
    /\ Idle /\ obj.st = "out" /\ obj.sruns /\ obj.rem > 0
    /\ obj' = Next1(obj)
    /\ UNCHANGED ref

(* request::cancel removes what waits in the queue, not what is served.     *)
Canceled(flight) == {<<>>} \cup {<<flight[k]>> : k \in DOMAIN flight \cap {1}}

clear_sorter ==
    /\ Idle /\ (obj.flight # <<>> => "clear" \in May)
    /\ \E left \in Canceled(obj.flight) :
          obj' = [allocate(IF obj.st = "out" THEN merger_deallocate(obj) ELSE obj)
                    EXCEPT !.st = "in", !.flight = left]
    /\ ref' = <<>>

destroy ==
    /\ Idle /\ (obj.flight # <<>> => "destroy" \in May)
    /\ obj' = [free_buffers(sorted_runs_clear(merger_deallocate(obj))) EXCEPT !.pc = "dead"]
    /\ UNCHANGED ref

(* The oldest write reaches the disk.                                       *)
served ==
    /\ obj.flight # <<>>
    /\ LET f == Head(obj.flight)
       IN  obj' = [obj EXCEPT !.disk[f.bid] = BlockOf(obj, f.g, f.i), !.flight = Tail(@)]
    /\ UNCHANGED ref

Init ==
    /\ \E c \in Cases :
          LET n == Len(c.keys)
              blank == [cfg |-> c, st |-> "in", pc |-> "idle", cur |-> 0, g |-> 1, alloc |-> FALSE,
                        blk |-> <<>>, computed |-> FALSE, res |-> NoRuns, live |-> {},
                        disk |-> [b \in 1..(3 * (n + 1)) |-> <<>>], flight |-> <<>>,
                        run |-> <<>>, size |-> 0, i |-> 0, call |-> NoCall,
                        sruns |-> FALSE, rem |-> 0, win |-> <<>>, tree |-> <<>>, mergeable |-> 0,
                        out |-> <<>>, failed |-> FALSE]
          IN  obj = allocate(blank)
    /\ ref = <<>>

Next ==
    \/ (Len(ref) < Len(obj.cfg.keys) /\ Push(<<obj.cfg.keys[Len(ref) + 1], Len(ref) + 1>>))
    \/ write(obj.i) \/ pushed \/ computed \/ finish \/ finish_clear \/ sort \/ sort_reuse
    \/ rewind \/ next \/ clear_sorter \/ destroy \/ served

Spec == Init /\ [][Next]_<<obj, ref>>
-----------------------------------------------------------------------------
(* The variables have the shape of their types.                             *)
TypeOK ==
    /\ obj.st \in {"in", "out"} /\ obj.pc \in {"idle", "writing", "thrown", "dead"}
    /\ obj.cur \in 0..ElInRun(obj) /\ obj.rem \in 0..Len(obj.cfg.keys)
    /\ ref \in Seq(Nat \X Nat)

(* What operator ++ has passed is the beginning of what was pushed since    *)
(* the last clear(), in sorted order, and all of it at the end, however     *)
(* often the sorter was sorted and rewound (sorter.h sort, rewind).         *)
Keys(s) == [i \in DOMAIN s |-> s[i][1]]
ReadsSorted ==
    (obj.st = "out" /\ obj.sruns /\ obj.pc = "idle") =>
        /\ Keys(obj.out \o obj.win) = Keys(SubSeq(Sort(ref), 1, Len(obj.out) + Len(obj.win)))
        /\ obj.rem + Len(obj.out) = Len(ref)
        /\ obj.rem = 0 => Range(obj.out) = Range(ref)

(* The blocks that are allocated are those of the runs and of the run being *)
(* written, each once: recursive merging, finish_clear() and clear() leak   *)
(* none and free none twice (sort_stream.h 1449, sorted_runs.h 110).        *)
BlocksExact ==
    /\ obj.live = SetOfBids(obj.res.runs) \cup Range(obj.run)
    /\ Cardinality(obj.live) = FoldLeft(LAMBDA a, r : a + Len(r), Len(obj.run), obj.res.runs)

(* A write under way has its buffer and its block until it is served        *)
(* (runs_creator::deallocate, clear).                                       *)
WritesHaveHome == \A k \in DOMAIN obj.flight : obj.alloc /\ obj.flight[k].bid \in obj.live

(* push() stores into a buffer of which nothing is being written.           *)
FillsIdleBuffer ==
    (obj.pc = "idle" /\ ~obj.computed) => \A k \in DOMAIN obj.flight : obj.flight[k].g # obj.g

(* The assertions of the merger about its memory hold (sort_stream.h 1188,  *)
(* 1355, 1356), also in the mergers that merge_recursively() constructs.    *)
MergerFits == ~obj.failed

(* size() is what was pushed or what is left to read, while elements can be *)
(* pushed or read (sorter.h 233).                                           *)
size == IF obj.st = "in" THEN obj.res.elements + obj.cur ELSE obj.rem
SizeExact ==
    /\ (obj.pc = "idle" /\ obj.st = "in" /\ ~obj.computed) => size = Len(ref)
    /\ (obj.pc = "idle" /\ obj.st = "out" /\ obj.sruns) => size = Len(ref) - Len(obj.out)

(* The same in every state in which size() may be called.                   *)
SizeAlways ==
    obj.pc = "idle" => size = Len(ref) - (IF obj.st = "out" THEN Len(obj.out) ELSE 0)
=============================================================================
