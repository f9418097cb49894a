------------------------------ MODULE Streams ------------------------------
(* The stream combinators: transform, make_tuple, choose and unique over    *)
(* iterator2stream and generator2stream, and the consumers materialize and  *)
(* discard.  A combinator holds the current element, computed when it is    *)
(* constructed and by operator ++.  Also who owns the stream object behind  *)
(* the copies of a stream over a vector.  Then the algorithms that scan an  *)
(* external vector around its page cache (ScanInit, ScanNext).              *)
EXTENDS Integers, Sequences, FiniteSets, SequencesExt, TLC

CONSTANTS Pipelines,  \* [class, top, consumer, in, limit]
          Copies,     \* bound: copies made of a stream over a vector
          Calls,      \* [op, B, ps, init, uninit, first, last, in]
          Ahead,      \* blocks read ahead by a scan
          Wanted,     \* the value find() looks for
          May

VARIABLES obj, ref

-----------------------------------------------------------------------------
(* iterator2stream and generator2stream                                     *)

Ended(s) == ~s.gen /\ s.pos > Len(s.data)
Star(s) == s.data[((s.pos - 1) % Len(s.data)) + 1]
Inc(s) == [s EXCEPT !.pos = @ + 1, !.past = @ \/ Ended(s)]
IncAll(in) == [i \in DOMAIN in |-> Inc(in[i])] \o <<>>

Some(in) == \E i \in DOMAIN in : Ended(in[i])
Vals(in) == [i \in DOMAIN in |-> Star(in[i])] \o <<>>

(* The operation: any that tells its arguments apart.                       *)
Op(args) == FoldLeft(LAMBDA acc, x : 10 * acc + x, 0, args)

(* The current element after the inputs have moved: none is read when one   *)
(* of them has ended.                                                       *)
Apply(o) ==
    [o EXCEPT !.cur = Op(Vals(o.in)), !.calls = Append(@, Vals(o.in))]

transform_1(o) == IF Ended(o.in[1]) THEN o ELSE Apply(o)
transform_2(o) == IF Ended(o.in[1]) \/ Ended(o.in[2]) THEN o ELSE Apply(o)
transform_3_first(o) == IF Ended(o.in[1]) THEN o ELSE Apply(o)
transform_3(o) == IF \E i \in 1..3 : Ended(o.in[i]) THEN o ELSE Apply(o)
transform_4(o) == IF \E i \in 1..4 : Ended(o.in[i]) THEN o ELSE Apply(o)
transform_5(o) == IF \E i \in 1..5 : Ended(o.in[i]) THEN o ELSE Apply(o)
transform_6(o) == IF \E i \in 1..6 : Ended(o.in[i]) THEN o ELSE Apply(o)

Together(o) == [o EXCEPT !.cur = Vals(o.in)]

make_tuple_2(o) == IF Ended(o.in[1]) \/ Ended(o.in[2]) THEN o ELSE Together(o)
make_tuple_3(o) == IF \E i \in 1..3 : Ended(o.in[i]) THEN o ELSE Together(o)
make_tuple_4(o) == IF \E i \in 1..4 : Ended(o.in[i]) THEN o ELSE Together(o)
make_tuple_5(o) == IF \E i \in 1..5 : Ended(o.in[i]) THEN o ELSE Together(o)
make_tuple_6(o) == IF \E i \in 1..6 : Ended(o.in[i]) THEN o ELSE Together(o)

iterator2stream(o) == IF Ended(o.in[1]) THEN o ELSE [o EXCEPT !.cur = Star(o.in[1])]

Refresh(o) ==
    LET k == Len(o.in)
    IN  CASE o.p.class = "iterator" -> iterator2stream(o)
          [] o.p.class = "transform" /\ k = 1 -> transform_1(o)
          [] o.p.class = "transform" /\ k = 2 -> transform_2(o)
          [] o.p.class = "transform" /\ k = 3 -> transform_3(o)
          [] o.p.class = "transform" /\ k = 4 -> transform_4(o)
          [] o.p.class = "transform" /\ k = 5 -> transform_5(o)
          [] o.p.class = "transform" /\ k = 6 -> transform_6(o)
          [] o.p.class = "tuple" /\ k = 2 -> make_tuple_2(o)
          [] o.p.class = "tuple" /\ k = 3 -> make_tuple_3(o)
          [] o.p.class = "tuple" /\ k = 4 -> make_tuple_4(o)
          [] o.p.class = "tuple" /\ k = 5 -> make_tuple_5(o)
          [] o.p.class = "tuple" /\ k = 6 -> make_tuple_6(o)

Move(o) == Refresh([o EXCEPT !.in = IncAll(@)])

-----------------------------------------------------------------------------
(* choose and unique on top of it; top is 0, the component to choose, or    *)
(* "unique" or "unique_pred".                                               *)

choose(tuple, Which) == tuple[Which]

(* last is the current element of unique, which skips equal ones.           *)
Iterate(op(_), n, x) == LET f[i \in 0..n] == IF i = 0 THEN x ELSE op(f[i - 1]) IN f[n]
SkipEqual(o, same(_, _)) ==
    LET m == Iterate(LAMBDA x : IF Some(x.in) \/ ~same(x.cur, o.last) THEN x ELSE Move(x),
                     Len(o.in[1].data), Move(o))
    IN  [m EXCEPT !.last = m.cur]

unique_never(o) == SkipEqual(o, LAMBDA a, b : FALSE)
unique(o) == SkipEqual(o, LAMBDA a, b : a = b)
Binary(a, b) == a \div 2 = b \div 2
unique_pred(o) == SkipEqual(o, Binary)

TopStar(o) == CASE o.p.top \in 1..6 -> choose(o.cur, o.p.top)
                [] o.p.top \in {7, 8} -> o.last
                [] OTHER -> o.cur
TopInc(o) == CASE o.p.top = 7 -> unique(o) [] o.p.top = 8 -> unique_pred(o) [] OTHER -> Move(o)

-----------------------------------------------------------------------------
(* The consumers.                                                           *)

construct ==
    /\ obj.pc = "new"
    /\ LET o == Refresh(obj) IN obj' = [o EXCEPT !.last = o.cur, !.pc = "consume"]

materialize ==
    /\ obj.pc = "consume" /\ obj.p.consumer = "materialize" /\ ~Some(obj.in)
    /\ obj' = [TopInc(obj) EXCEPT !.out = Append(@, TopStar(obj))]

materialize_bounded ==
    /\ obj.pc = "consume" /\ obj.p.consumer = "bounded" /\ ~Some(obj.in) /\ Len(obj.out) # obj.p.limit
    /\ obj' = [TopInc(obj) EXCEPT !.out = Append(@, TopStar(obj))]

discard ==
    /\ obj.pc = "consume" /\ obj.p.consumer = "discard" /\ ~Some(obj.in)
    /\ obj' = TopInc(obj)

finished ==
    /\ obj.pc = "consume"
    /\ Some(obj.in) \/ (obj.p.consumer = "bounded" /\ Len(obj.out) = obj.p.limit)
    /\ obj' = [obj EXCEPT !.pc = "done"]

-----------------------------------------------------------------------------
(* vector_iterator2stream gives its buf_istream to its copy;                *)
(* vector_iterator2stream_sr, which holds one of two streams by pointer,    *)
(* shares it.  holders: the copies alive; has: those with the pointer.      *)

Share(has, from, new) == has \cup {new}
GiveAway(has, from, new) == (has \ {from}) \cup {new}

copy_stream ==
    /\ obj.pc = "handles" /\ obj.made < Copies
    /\ obj.sr => "copy_sr" \in May
    /\ \E h \in obj.holders :
          /\ h \in obj.has
          /\ obj' = [obj EXCEPT !.made = @ + 1, !.holders = @ \cup {obj.made + 1},
                        !.has = IF obj.sr THEN Share(@, h, obj.made + 1)
                                ELSE GiveAway(@, h, obj.made + 1)]

destroy_stream ==
    /\ obj.pc = "handles"
    /\ \E h \in obj.holders :
          obj' = [obj EXCEPT !.holders = @ \ {h}, !.deletes = @ + (IF h \in obj.has THEN 1 ELSE 0),
                             !.has = @ \ {h}]

Init ==
    /\ \/ \E p \in Pipelines :
            obj = [p |-> p, in |-> [i \in DOMAIN p.in |-> [data |-> p.in[i], gen |-> i \in p.gens, pos |-> 1,
                                                           past |-> FALSE]],
                   cur |-> <<>>, last |-> <<>>, calls |-> <<>>, out |-> <<>>, pc |-> "new"]
       \/ \E sr \in BOOLEAN :
            obj = [pc |-> "handles", sr |-> sr, made |-> 1, holders |-> {1}, has |-> {1}, deletes |-> 0]
    /\ ref = <<>>

Next ==
    /\ \/ construct \/ materialize \/ materialize_bounded \/ discard \/ finished
       \/ copy_stream \/ destroy_stream
    /\ UNCHANGED ref

Spec == Init /\ [][Next]_<<obj, ref>>
-----------------------------------------------------------------------------
(* The variables have the shape of their types.                             *)
TypeOK == obj.pc \in {"new", "consume", "done", "handles"}

(* What the combinators stand for.                                          *)
Length(p) == CHOOSE n \in 0..20 : \A i \in DOMAIN p.in \ p.gens :
                 n <= Len(p.in[i]) /\ (\E j \in DOMAIN p.in \ p.gens : n = Len(p.in[j]))
At(p, k) == [i \in DOMAIN p.in |-> p.in[i][((k - 1) % Len(p.in[i])) + 1]]
Mapped(p) ==
    [k \in 1..Length(p) |-> CASE p.class = "iterator" -> At(p, k)[1]
                              [] p.class = "transform" -> Op(At(p, k))
                              [] p.class = "tuple" -> At(p, k)]
Meaning(p) ==
    LET m == Mapped(p)
        fresh(k, same(_, _)) == k = 1 \/ ~same(m[k], m[k - 1])
        eq(a, b) == a = b
    IN  CASE p.top \in 1..6 -> [k \in DOMAIN m |-> m[k][p.top]]
          [] p.top = 7 -> SelectSeq([k \in DOMAIN m |-> k], LAMBDA k : fresh(k, eq))
          [] p.top = 8 -> SelectSeq([k \in DOMAIN m |-> k], LAMBDA k : fresh(k, Binary))
          [] OTHER -> m
Elements(p) == IF p.top \in {7, 8} THEN [k \in DOMAIN Meaning(p) |-> Mapped(p)[Meaning(p)[k]]]
               ELSE Meaning(p)

(* A consumer gets the elements the combinators stand for: as many as the   *)
(* shortest input has, or as fit into the output.                           *)
PipelineMeaning ==
    obj.pc = "done" =>
        LET all == Elements(obj.p)
        IN  obj.out = CASE obj.p.consumer = "discard" -> <<>>
                        [] obj.p.consumer = "bounded" -> SubSeq(all, 1, IF Len(all) < obj.p.limit THEN Len(all)
                                                                        ELSE obj.p.limit)
                        [] OTHER -> all

(* The operation is applied to each tuple of inputs once, in order, and no  *)
(* iterator is advanced beyond its end (the assertion of iterator2stream).  *)
AppliedOnce ==
    obj.pc \in {"consume", "done"} =>
        /\ \A i \in DOMAIN obj.in : ~obj.in[i].past
        /\ obj.p.class = "transform" =>
              \A k \in DOMAIN obj.calls : obj.calls[k] = At(obj.p, k) /\ k <= Length(obj.p)

(* The stream object behind the copies is deleted once, with the last copy  *)
(* that holds it.                                                           *)
DeletedOnce ==
    obj.pc = "handles" => obj.deletes <= 1 /\ (obj.holders = {} => obj.deletes = 1)
                          /\ (obj.deletes = 1 => obj.has = {})

-----------------------------------------------------------------------------
(* The algorithms that scan an external vector around its page cache:       *)
(* for_each, for_each_m, generate, find, the stream over a vector           *)
(* (vector_iterator2stream) and materialize.  They read blocks ahead with a *)
(* buf_istream, write them behind with a buf_ostream, and have to leave the *)
(* vector with what they wrote.                                             *)

Junk == 99
Mutate(x) == x + 10

-----------------------------------------------------------------------------
(* The vector: its blocks on disk, the pages in its cache, which of them    *)
(* are dirty, and the pages that were never written.                        *)

PageOf(v, i) == i \div (v.B * v.ps)
PageCells(v, p) == {i \in 0..(v.n - 1) : PageOf(v, i) = p}

Load(v, p) ==
    IF p \in DOMAIN v.cache THEN v
    ELSE [v EXCEPT !.cache = @ @@ (p :> [i \in PageCells(v, p) |->
                                            IF p \in v.uninit THEN Junk ELSE v.disk[i]])]

Value(v, i) == Load(v, PageOf(v, i)).cache[PageOf(v, i)][i]

Assign(v, i, x) ==
    [Load(v, PageOf(v, i)) EXCEPT !.cache[PageOf(v, i)][i] = x, !.dirty = @ \cup {PageOf(v, i)},
                                  !.uninit = @ \ {PageOf(v, i)}]

flush(v) ==
    [v EXCEPT !.disk = [i \in DOMAIN @ |-> IF PageOf(v, i) \in v.dirty THEN v.cache[PageOf(v, i)][i]
                                           ELSE @[i]],
              !.dirty = {}, !.cache = <<>>]

block_externally_updated(v, i) ==
    LET p == PageOf(v, i)
    IN  [v EXCEPT !.cache = [q \in DOMAIN @ \ {p} |-> @[q]], !.uninit = @ \ {p},
                  !.bad = @ \/ p \in v.dirty]

-----------------------------------------------------------------------------
(* buf_ostream and buf_istream; write-behind and read-ahead in any order.   *)

NoOut == [on |-> FALSE, at |-> 0, buf |-> <<>>]
NoIn == [on |-> FALSE, next |-> 0, end |-> 0, win |-> <<>>]

Put(o, x) ==
    LET buf == Append(o.w.buf, x)
    IN  IF Len(buf) < o.v.B THEN [o EXCEPT !.w.buf = buf]
        ELSE [o EXCEPT !.w.buf = <<>>, !.w.at = @ + o.v.B,
                       !.flight = @ \cup {[at |-> o.w.at, data |-> buf]}]

OpenOut(o, at) == [o EXCEPT !.v = flush(@), !.w = [on |-> TRUE, at |-> at, buf |-> <<>>]]

InEnd(o) == o.c.last + (IF o.c.last % o.v.B # 0 THEN o.v.B - (o.c.last % o.v.B) ELSE 0)
OpenIn(o) ==
    [o EXCEPT !.v = flush(@), !.cur = o.c.first - (o.c.first % o.v.B),
              !.r = [on |-> TRUE, next |-> o.c.first - (o.c.first % o.v.B), end |-> InEnd(o),
                     win |-> <<>>]]

prefetch ==
    /\ obj.r.on /\ obj.r.next < obj.r.end /\ Len(obj.r.win) < Ahead * obj.v.B
    /\ obj' = [obj EXCEPT !.r.next = @ + obj.v.B,
                          !.r.win = @ \o [k \in 1..obj.v.B |-> obj.v.disk[obj.r.next + k - 1]]]

served ==
    \E f \in obj.flight :
        obj' = [obj EXCEPT !.flight = @ \ {f},
                    !.v.disk = [i \in DOMAIN @ |-> IF i \in f.at..(f.at + obj.v.B - 1)
                                                   THEN f.data[i - f.at + 1] ELSE @[i]]]

Take(o) == [o EXCEPT !.r.win = Tail(@), !.cur = @ + 1]
HasNext(o) == o.r.win # <<>>

-----------------------------------------------------------------------------
(* for_each, for_each_m, find: from the beginning of the first block to the *)
(* end of the last.                                                         *)

Done(o) == [o EXCEPT !.pc = "done"]
InRangeClosed(o) == o.cur >= o.c.first /\ o.cur <= o.c.last
InRange(o) == o.cur >= o.c.first /\ o.cur < o.c.last

start_scan ==
    /\ obj.pc = "start" /\ obj.c.op \in {"for_each", "for_each_m", "find"}
    /\ obj' = IF obj.c.first = obj.c.last THEN [Done(obj) EXCEPT !.cur = obj.c.last]
              ELSE LET o == [OpenIn(obj) EXCEPT !.pc = "scan"]
                   IN  IF o.c.op = "for_each_m" THEN [OpenOut(o, o.cur) EXCEPT !.pc = "scan"] ELSE o

for_each ==
    /\ obj.pc = "scan" /\ obj.c.op = "for_each" /\ obj.cur < obj.r.end /\ HasNext(obj)
    /\ obj' = [Take(obj) EXCEPT !.seen = IF InRange(obj) THEN Append(@, obj.r.win[1]) ELSE @]

for_each_m ==
    /\ obj.pc = "scan" /\ obj.c.op = "for_each_m" /\ obj.cur < obj.r.end /\ HasNext(obj)
    /\ LET x == obj.r.win[1]
       IN  obj' = Put(Take(obj), IF InRange(obj) THEN Mutate(x) ELSE x)

find ==
    /\ obj.pc = "scan" /\ obj.c.op = "find" /\ obj.cur < obj.c.last /\ HasNext(obj)
    /\ obj' = IF InRange(obj) /\ obj.r.win[1] = Wanted THEN [obj EXCEPT !.pc = "close"]
              ELSE Take(obj)

scanned ==
    /\ obj.pc = "scan" /\ obj.cur = (IF obj.c.op = "find" THEN obj.c.last ELSE obj.r.end)
    /\ obj' = [obj EXCEPT !.pc = "close"]

-----------------------------------------------------------------------------
(* generate and materialize.  out is the iterator, prev the block written.  *)

Streams == obj.c.op = "copy"
InEmpty(o) == IF o.r.on THEN o.cur = o.c.last ELSE o.c.op # "generate" /\ o.given = Len(o.c.in)
Ready(o) == o.r.on /\ o.cur < o.c.last => HasNext(o)
InHead(o) == IF o.r.on THEN o.r.win[1] ELSE o.c.in[o.given + 1]
InNext(o) == IF o.r.on THEN Take(o) ELSE [o EXCEPT !.given = @ + 1]

AtEnd(o) == InEmpty(o) \/ (o.c.op \in {"generate", "materialize"} /\ o.out = o.c.last)

(* vector_iterator2stream: the elements before the first are skipped.       *)
vector_iterator2stream ==
    /\ obj.pc = "start" /\ Streams
    /\ obj' = IF obj.c.first = obj.c.last THEN Done(obj) ELSE [OpenIn(obj) EXCEPT !.pc = "skip"]

skip ==
    /\ obj.pc = "skip" /\ HasNext(obj) /\ obj.cur < obj.c.first
    /\ obj' = Take(obj)

start_output ==
    /\ \/ obj.pc = "start" /\ obj.c.op \in {"generate", "materialize", "materialize_all"}
       \/ obj.pc = "skip" /\ obj.cur = obj.c.first
    /\ obj' = [obj EXCEPT !.pc = "head"]

(* Up to the first block boundary by the cache.                             *)
head ==
    /\ obj.pc = "head" /\ obj.out % obj.v.B # 0 /\ Ready(obj)
    /\ obj' = IF AtEnd(obj) THEN [obj EXCEPT !.pc = "close"]
              ELSE [InNext(obj) EXCEPT !.v = Assign(@, obj.out, InHead(obj)), !.out = @ + 1]

open ==
    /\ obj.pc = "head" /\ obj.out % obj.v.B = 0
    /\ obj' = [OpenOut(obj, obj.out) EXCEPT !.pc = "body", !.prev = obj.out]

Announce(o) ==
    IF o.out % o.v.B = 0 /\ o.prev # o.out
    THEN [o EXCEPT !.v = block_externally_updated(@, o.prev), !.prev = o.out] ELSE o

body ==
    /\ obj.pc = "body" /\ Ready(obj) /\ ~AtEnd(obj)
    /\ obj' = [Put(InNext(Announce(obj)), InHead(obj)) EXCEPT !.out = @ + 1]

(* The rest of the last block is what the vector has, its page is read.     *)
FillRest(o) ==
    LET v == Load(o.v, PageOf(o.v, o.fill))
    IN  [Put([o EXCEPT !.v = v], Value(v, o.fill)) EXCEPT !.fill = @ + 1]

end_body ==
    /\ obj.pc = "body" /\ Ready(obj) /\ AtEnd(obj)
    /\ obj' = [obj EXCEPT !.pc = "tail", !.fill = obj.out]

tail ==
    /\ obj.pc = "tail" /\ obj.fill % obj.v.B # 0
    /\ obj' = FillRest(obj)

LastUpdateNone(o) == o.v
LastUpdate(o) == IF o.prev # o.out THEN block_externally_updated(o.v, o.prev) ELSE o.v
end_tail ==
    /\ obj.pc = "tail" /\ obj.fill % obj.v.B = 0
    /\ obj' = [obj EXCEPT !.v = flush(LastUpdate(obj)), !.pc = "close"]

(* The destructors wait for reads and writes.                               *)
WaitForNothing(o) == TRUE
WaitForWrites(o) == o.flight = {}
close ==
    /\ obj.pc = "close" /\ WaitForWrites(obj)
    /\ obj' = [Done(obj) EXCEPT !.r = NoIn, !.w = NoOut]

-----------------------------------------------------------------------------
(* The elements of the result: what the C++ algorithm of that name leaves.  *)
Expected(c) ==
    LET n == Len(c.in)
        count == IF c.op = "copy" THEN c.last - c.first
                 ELSE IF c.op = "materialize_all" THEN n
                 ELSE IF n < c.last - c.out THEN n ELSE c.last - c.out
    IN  [i \in 0..(Len(c.init) - 1) |->
            CASE c.op = "for_each_m" /\ i >= c.first /\ i < c.last -> Mutate(c.init[i + 1])
              [] c.op = "copy" /\ i >= c.out /\ i < c.out + count -> c.init[c.first + i - c.out + 1]
              [] c.op \in {"generate", "materialize", "materialize_all"} /\ i >= c.out /\ i < c.out + count
                   -> c.in[i - c.out + 1]
              [] OTHER -> c.init[i + 1]]

(* A vector with elements in its cache, written since it was last flushed.  *)
ScanInit ==
    \E c \in Calls :
        LET v0 == [B |-> c.B, ps |-> c.ps, n |-> Len(c.init), disk |-> [i \in 0..(Len(c.init) - 1) |-> 0],
                   cache |-> <<>>, dirty |-> {}, uninit |-> {}, bad |-> FALSE]
            pages == {PageOf(v0, i) : i \in 0..(Len(c.init) - 1)}
            v1 == [v0 EXCEPT !.uninit = pages]
            written == {i \in 0..(Len(c.init) - 1) : PageOf(v0, i) \notin c.uninit}
            v2 == [v1 EXCEPT !.cache = [p \in pages \ c.uninit |-> [i \in PageCells(v0, p) |-> c.init[i + 1]]],
                             !.dirty = pages \ c.uninit, !.uninit = c.uninit]
        IN  /\ c.op = "for_each_m" => (c.uninit # {} => "uninit" \in May)
            /\ obj = [c |-> c, v |-> v2, r |-> NoIn, w |-> NoOut, flight |-> {}, cur |-> 0, given |-> 0,
                      out |-> c.out, prev |-> 0, fill |-> 0, seen |-> <<>>, pc |-> "start"]
            /\ ref = Expected(c)

ScanNext ==
    /\ \/ prefetch \/ served \/ start_scan \/ for_each \/ for_each_m \/ find \/ scanned
       \/ vector_iterator2stream \/ skip \/ start_output \/ head \/ open \/ body \/ end_body
       \/ tail \/ end_tail \/ close
    /\ UNCHANGED ref

-----------------------------------------------------------------------------
(* The variables have the shape of their types.                             *)
ScanTypeOK ==
    /\ obj.pc \in {"start", "scan", "skip", "head", "body", "tail", "close", "done"}
    /\ obj.v.dirty \subseteq DOMAIN obj.v.cache /\ Len(obj.w.buf) < obj.c.B

(* After the call the vector, read through its cache, has the elements that *)
(* the algorithm leaves, in the range and around it (scan.h, materialize).  *)
Unset(c, i) == i \div (c.B * c.ps) \in c.uninit /\ ref[i] = c.init[i + 1]
VectorHasResult ==
    obj.pc = "done" => \A i \in DOMAIN ref : Unset(obj.c, i) \/ Value(obj.v, i) = ref[i]

(* for_each applies its functor to the elements of the range in order, and  *)
(* find returns the first element that is equal, or the end.                *)
ScanResult ==
    obj.pc = "done" =>
        /\ obj.c.op = "for_each" => obj.seen = SubSeq(obj.c.init, obj.c.first + 1, obj.c.last)
        /\ obj.c.op = "find" =>
              LET hits == {i \in obj.c.first..(obj.c.last - 1) : obj.c.init[i + 1] = Wanted}
              IN  obj.cur = IF hits = {} THEN obj.c.last ELSE CHOOSE i \in hits : \A j \in hits : i <= j

(* A page that is announced as updated has nothing unsaved in the cache     *)
(* (the assertion of vector::page_externally_updated), and no write is left *)
(* when the call returns.                                                   *)
AnnouncedClean == ~obj.v.bad /\ (obj.pc = "done" => obj.flight = {})
=============================================================================
