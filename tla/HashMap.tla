------------------------------ MODULE HashMap ------------------------------
(***************************************************************************)
(* stxxl::hash_map (unordered_map): buckets of values sorted by hash and   *)
(* key in external memory, an internal buffer of newer or deleted values   *)
(* per bucket, and the iterators that the map keeps up to date.            *)
(*                                                                         *)
(* External memory is one sequence of cells, numbered from the first cell  *)
(* of the first block; that the cache returns what was stored there is the *)
(* subject of HashBlockCache.  Values are told apart for one key only.     *)
(***************************************************************************)
EXTENDS Integers, Sequences, SequencesExt, FiniteSets, FiniteSetsExt

CONSTANTS
    Hash,         \* hash_, a sequence: the hash value of each key
    HashMax,      \* numeric_limits<internal_size_type>::max()
    SubblockSize, \* values of a subblock
    SubblocksPerBlock,
    MaxBuffers,   \* the values for max_buffer_size_
    FirstBuckets, \* 128, the buckets of the first insert
    Watched,      \* the key whose values are told apart
    MaxOps,       \* bound: rebuilds of a behaviour
    MaxTotal,     \* bound: num_total_, which the oblivious calls only estimate
    May,          \* calls the map does not stand: operator [] and erase_oblivious of an
                  \* "unknown" key, operator [] that will "overwrite" the value an iterator
                  \* is at, "begin" where the first value is external and a node follows
    Null

VARIABLES
    obj,  \* the map and an iterator
    ref   \* the values it should hold, the key the iterator should be at

vars == <<obj, ref>>

Keys == DOMAIN Hash
Values(k) == IF k = Watched THEN {0, 1} ELSE {0}
MappedType == 0   \* mapped_type()
AtEnd == 0        \* where an iterator equal to end() is

\* The order of all values: by hash value, then by key.
_lt(a, b) == Hash[a] < Hash[b] \/ (Hash[a] = Hash[b] /\ a < b)
_leq(a, b) == ~_lt(b, a)

_bkt_num(k, n) == (n * Hash[k]) \div HashMax

\* ceil(total / (subblock_size * 0.875)), or what the user wants
BucketsFor(total, desired) ==
    Max({desired, ((total * 8) + (SubblockSize * 7) - 1) \div (SubblockSize * 7)})

\* bucket(): list_ are the nodes of the buffer, in order
NewBucket == [list |-> <<>>, n |-> 0, block |-> 0, sub |-> 0]

\* The first cell of a bucket, and the values it has in external memory.
First(b) == ((b.block * SubblocksPerBlock) + b.sub) * SubblockSize
External(o, b) == [i \in 1..b.n |-> o.mem[First(b) + i]]

NewMap(n, buffer) ==
    [bkt |-> [i \in 1..n |-> NewBucket], mem |-> <<>>, bufsize |-> 0, maxbuf |-> buffer,
     oblivious |-> FALSE, total |-> 0, it |-> Null]

---------------------------------------------------------------------------
(* HashedValuesStream: what a bucket holds, buffer and external memory     *)
(* merged.                                                                 *)

\* A mutant: an overwritten external value is returned as well.
SkipNone(node, ext) == FALSE

\* The node replaces the external value.
Overwrites(node, ext) == node.k = ext.k

RECURSIVE Merged(_, _)
Merged(nodes, ext) ==
    LET Node(n) == IF n.del THEN <<>> ELSE <<[k |-> n.k, v |-> n.v]>>
    IN  CASE nodes # <<>> /\ ext # <<>> /\ _leq(Head(nodes).k, Head(ext).k) ->
               Node(Head(nodes)) \o
               Merged(Tail(nodes), IF Overwrites(Head(nodes), Head(ext)) THEN Tail(ext) ELSE ext)
          [] nodes # <<>> /\ ext # <<>> /\ ~_leq(Head(nodes).k, Head(ext).k) ->
               <<Head(ext)>> \o Merged(nodes, Tail(ext))
          [] nodes # <<>> /\ ext = <<>> -> Node(Head(nodes)) \o Merged(Tail(nodes), <<>>)
          [] OTHER -> ext

Stored(o) == FlattenSeq([i \in 1..Len(o.bkt) |-> Merged(o.bkt[i].list, External(o, o.bkt[i]))])

\* HashingStream: the values at the front of the stream that belong to bucket i.
InBucket(vals, i, n) ==
    SubSeq(vals, 1, Max({j \in 0..Len(vals) : \A l \in 1..j : _bkt_num(vals[l].k, n) = i}))

---------------------------------------------------------------------------
(* buffered_writer: the cells written so far.                              *)

append(mem, vals) == mem \o vals

finish_subblock(mem) == mem \o [i \in 1..(SubblockSize - (Len(mem) % SubblockSize)) |-> Null]

\* fix_iterators_2ext: an iterator at a value that is written to its new place
fix_iterators_2ext(it, k, i, iext) ==
    IF it = Null \/ it.end \/ it.key # k THEN it
    ELSE [it EXCEPT !.bkt = i, !.node = Null, !.iext = iext, !.src = "ext", !.valid = TRUE,
                    !.rd = Null]

\* The loop over the new buckets; b, mem and it are the new state.
RECURSIVE Distribute(_, _, _, _, _, _)
Distribute(vals, i, n, bs, mem, it) ==
    LET run == InBucket(vals, i, n)
        hit == {j \in DOMAIN run : it # Null /\ run[j].k = it.key}
        here == [list |-> <<>>, n |-> Len(run),
                 block |-> (Len(mem) \div SubblockSize) \div SubblocksPerBlock,
                 sub |-> (Len(mem) \div SubblockSize) % SubblocksPerBlock]
    IN  IF i = n THEN [bkt |-> bs, mem |-> mem, it |-> it]
        ELSE Distribute(SubSeq(vals, Len(run) + 1, Len(vals)), i + 1, n, Append(bs, here),
                        finish_subblock(append(mem, run)),
                        IF hit = {} THEN it
                        ELSE fix_iterators_2ext(it, it.key, i, Min(hit) - 1))

\* The new buckets and blocks replace the old ones, which are freed.
Replace(o, vals, n) ==
    LET d == Distribute(vals, 0, n, <<>>, <<>>, o.it)
    IN  [o EXCEPT !.bkt = d.bkt, !.mem = d.mem, !.it = d.it, !.bufsize = 0,
                  !.oblivious = FALSE, !.total = FoldFunction(+, 0, [i \in 1..n |-> d.bkt[i].n])]

_rebuild_buckets(o, desired) == Replace(o, Stored(o), BucketsFor(o.total, desired))

\* size(), when the number of values is only estimated
_make_conscious(o) == [o EXCEPT !.total = Len(Stored(o)), !.oblivious = FALSE]

---------------------------------------------------------------------------
(* The buffer of a bucket.                                                 *)

Bkt(o, k) == _bkt_num(k, Len(o.bkt)) + 1

\* The last node that is not behind k, or Null.
_find_key_internal(b, k) ==
    LET before == {i \in DOMAIN b.list : _leq(b.list[i].k, k)}
    IN  IF before = {} THEN Null ELSE b.list[Max(before)]

Internal(o, k) ==
    LET node == _find_key_internal(o.bkt[Bkt(o, k)], k)
    IN  node # Null /\ node.k = k

NodeOf(o, k) == _find_key_internal(o.bkt[Bkt(o, k)], k)

\* The binary search of a subblock, which holds the values cell + lo .. cell + hi - 1.
RECURSIVE Bisect(_, _, _, _, _)
Bisect(o, cell, lo, hi, k) ==
    LET mid == (lo + hi) \div 2
    IN  IF lo + 1 = hi THEN lo
        ELSE IF _leq(o.mem[cell + mid + 1].k, k) THEN Bisect(o, cell, mid, hi, k)
        ELSE Bisect(o, cell, lo, mid, k)

\* The values of subblock s of a bucket.
SubblockLen(b, s) == Min({SubblockSize, b.n - (s * SubblockSize)})

\* The position of k in external memory, or the number of values.
_find_key_external(o, k) ==
    LET b == o.bkt[Bkt(o, k)]
        Cell(s) == First(b) + (s * SubblockSize)
        subs == {s \in 0..((b.n + SubblockSize - 1) \div SubblockSize) - 1 :
                   ~_lt(o.mem[Cell(s) + SubblockLen(b, s)].k, k)}
        s == Min(subs)
        i == Bisect(o, Cell(s), 0, SubblockLen(b, s), k)
    IN  IF subs # {} /\ o.mem[Cell(s) + i + 1].k = k THEN (s * SubblockSize) + i ELSE b.n

InExternal(o, k) == _find_key_external(o, k) < o.bkt[Bkt(o, k)].n
ExternalValue(o, k) == o.mem[First(o.bkt[Bkt(o, k)]) + _find_key_external(o, k) + 1].v

\* A mutant: a new node goes to the end of the list.
NewNodeLast(o, k, v, del) ==
    [o EXCEPT !.bkt[Bkt(o, k)].list = Append(@, [k |-> k, v |-> v, del |-> del]),
              !.bufsize = @ + 1]

\* node->set_next(_new_node(...)), or a new first node
_new_node(o, k, v, del) ==
    LET Less(n) == _lt(n.k, k)
        More(n) == _lt(k, n.k)
    IN  [o EXCEPT !.bkt[Bkt(o, k)].list =
                    SelectSeq(@, Less) \o <<[k |-> k, v |-> v, del |-> del]>> \o SelectSeq(@, More),
                  !.bufsize = @ + 1]

\* The node of k gets a value or the deleted mark.
SetNode(o, k, v, del) ==
    [o EXCEPT !.bkt[Bkt(o, k)].list =
        [i \in DOMAIN @ |-> IF @[i].k = k THEN [k |-> k, v |-> v, del |-> del] ELSE @[i]]]

\* if (buffer_size_ >= max_buffer_size_) _rebuild_buckets()
CheckBuffer(o) == IF o.bufsize >= o.maxbuf THEN _rebuild_buckets(o, 0) ELSE o

\* A mutant: the node to come is not counted.
MakeRoomLate(o) == IF o.bufsize >= o.maxbuf THEN _rebuild_buckets(o, 0) ELSE o

\* find and operator []: room for a node that is not followed by the check
MakeRoom(o) == IF o.bufsize + 1 >= o.maxbuf THEN _rebuild_buckets(o, 0) ELSE o

At(o, k, src, node, iext, valid) ==
    [end |-> FALSE, bkt |-> _bkt_num(k, Len(o.bkt)), src |-> src, node |-> node, iext |-> iext,
     valid |-> valid, key |-> k, rd |-> Null]
End == [end |-> TRUE, bkt |-> 0, src |-> "unknown", node |-> Null, iext |-> 0, valid |-> FALSE,
        key |-> 0, rd |-> Null]
AtNode(o, k) == At(o, k, "int", k, 0, FALSE)
AtExternal(o, k) ==
    At(o, k, "ext", IF NodeOf(o, k) = Null THEN Null ELSE NodeOf(o, k).k,
       _find_key_external(o, k), TRUE)

IsAt(it, o, k) == it # Null /\ ~it.end /\ it.key = k

\* A mutant: the reader of the iterator is left behind.
Fix2IntStays(o, k) ==
    IF IsAt(o.it, o, k) THEN [o EXCEPT !.it.src = "int", !.it.node = k, !.it.iext = @ + 1] ELSE o

\* A new node overwrites the external value an iterator is at.
fix_iterators_2int(o, k) ==
    IF IsAt(o.it, o, k)
    THEN [o EXCEPT !.it.src = "int", !.it.node = k, !.it.iext = @ + 1,
                   !.it.rd = IF @ = Null THEN Null ELSE @ + 1]
    ELSE o

fix_iterators_2end(o, k) == IF IsAt(o.it, o, k) THEN [o EXCEPT !.it = End] ELSE o

Keep(o, it, keep) == IF keep THEN [o EXCEPT !.it = it] ELSE o

---------------------------------------------------------------------------
(* The operations; keep says whether the returned iterator is kept.        *)

insert(o0, k, v, keep) ==
    LET o == IF Len(o0.bkt) = 0 THEN _rebuild_buckets(o0, FirstBuckets) ELSE o0
        n == _new_node([o EXCEPT !.total = @ + 1], k, v, FALSE)
    IN  CASE Internal(o, k) ->
               Keep(IF NodeOf(o, k).del THEN [SetNode(o, k, v, FALSE) EXCEPT !.total = @ + 1] ELSE o,
                    AtNode(o, k), keep)
          [] ~Internal(o, k) /\ InExternal(o, k) -> Keep(o, AtExternal(o, k), keep)
          [] OTHER -> CheckBuffer(Keep(n, AtNode(n, k), keep))

insert_oblivious(o, k, v, keep) ==
    LET n == fix_iterators_2int(_new_node([o EXCEPT !.total = @ + 1, !.oblivious = TRUE], k, v, FALSE), k)
    IN  IF Internal(o, k)
        THEN Keep([SetNode(o, k, v, FALSE) EXCEPT !.total = IF NodeOf(o, k).del THEN @ + 1 ELSE @],
                  AtNode(o, k), keep)
        ELSE CheckBuffer(Keep(n, AtNode(n, k), keep))

\* erase(const_iterator)
erase_it(o) ==
    LET k == o.it.key
        less == [o EXCEPT !.total = @ - 1]
    IN  IF o.it.src = "int"
        THEN fix_iterators_2end(SetNode(less, k, NodeOf(o, k).v, TRUE), k)
        ELSE CheckBuffer(fix_iterators_2end(_new_node(less, k, MappedType, TRUE), k))

erase(o, k) ==
    LET less == [o EXCEPT !.total = @ - 1]
    IN  CASE Internal(o, k) ->
               IF NodeOf(o, k).del THEN o
               ELSE fix_iterators_2end(SetNode(less, k, NodeOf(o, k).v, TRUE), k)
          [] ~Internal(o, k) /\ InExternal(o, k) ->
               CheckBuffer(fix_iterators_2end(_new_node(less, k, MappedType, TRUE), k))
          [] OTHER -> o

erase_oblivious(o, k) ==
    LET less == [o EXCEPT !.total = @ - 1]
    IN  IF Internal(o, k)
        THEN IF NodeOf(o, k).del THEN o
             ELSE fix_iterators_2end(SetNode(less, k, NodeOf(o, k).v, TRUE), k)
        ELSE CheckBuffer(fix_iterators_2end(
                 _new_node([less EXCEPT !.oblivious = TRUE], k, MappedType, TRUE), k))

clear(o) ==
    [o EXCEPT !.bkt = [i \in 1..Len(o.bkt) |-> NewBucket], !.mem = <<>>, !.bufsize = 0,
              !.oblivious = FALSE, !.total = 0, !.it = IF @ = Null THEN Null ELSE End]

\* The buckets are indexed without a check: with none there is nothing to index.
find(o0, k) ==
    LET o == MakeRoom(o0)
        ext == _find_key_external(o, k)
        n == fix_iterators_2int(_new_node(o, k, ExternalValue(o, k), FALSE), k)
    IN  CASE Len(o.bkt) = 0 -> [o EXCEPT !.it = End]
          [] Len(o.bkt) > 0 /\ Internal(o, k) ->
               [o EXCEPT !.it = IF NodeOf(o, k).del THEN End ELSE AtNode(o, k)]
          [] Len(o.bkt) > 0 /\ ~Internal(o, k) /\ InExternal(o, k) ->
               [n EXCEPT !.it = At(n, k, "int", k, ext + 1, TRUE)]
          [] OTHER -> [o EXCEPT !.it = End]

find_const(o, k) ==
    CASE Internal(o, k) -> [o EXCEPT !.it = IF NodeOf(o, k).del THEN End ELSE AtNode(o, k)]
      [] ~Internal(o, k) /\ InExternal(o, k) -> [o EXCEPT !.it = AtExternal(o, k)]
      [] OTHER -> [o EXCEPT !.it = End]

\* operator [] followed by the assignment of v
bracket(o0, k, v) ==
    LET o == MakeRoom(o0)
    IN  IF Len(o.bkt) = 0 THEN o
        ELSE IF Internal(o, k)
        THEN [SetNode(o, k, v, FALSE) EXCEPT !.total = IF NodeOf(o, k).del THEN @ + 1 ELSE @]
        ELSE _new_node(o, k, v, FALSE)

max_buffer_size(o, n) == CheckBuffer([o EXCEPT !.maxbuf = n])
rehash(o, n) == _rebuild_buckets(o, n)

---------------------------------------------------------------------------
(* Bulk insertion of the values new, a function on some keys.              *)

\* A mutant: the value that is stored already is kept.
OldWins(old, new) == old

\* The new value replaces the stored one.
NewWins(old, new) == new

\* new_unique_values: sorted by hash value and key, one value per key
SortedNew(new) == SetToSortSeq({[k |-> k, v |-> new[k]] : k \in DOMAIN new}, LAMBDA a, b : _lt(a.k, b.k))

RECURSIVE MergeNew(_, _)
MergeNew(old, new) ==
    CASE old = <<>> -> new
      [] old # <<>> /\ new = <<>> -> old
      [] old # <<>> /\ new # <<>> /\ _lt(Head(old).k, Head(new).k) ->
           <<Head(old)>> \o MergeNew(Tail(old), new)
      [] old # <<>> /\ new # <<>> /\ Head(old).k = Head(new).k ->
           <<NewWins(Head(old), Head(new))>> \o MergeNew(Tail(old), Tail(new))
      [] OTHER -> <<Head(new)>> \o MergeNew(old, Tail(new))

insert_range(o, new) ==
    Replace(o, MergeNew(Stored(o), SortedNew(new)), BucketsFor(o.total + Cardinality(DOMAIN new), 0))

---------------------------------------------------------------------------
(* The iterator.                                                           *)

\* The external values that are not behind the node.
AfterNode(o, b, node) == Cardinality({i \in 1..b.n : _leq(External(o, b)[i].k, node)})

init_reader(o, it) ==
    LET b == o.bkt[it.bkt + 1]
        i == CASE it.valid -> it.iext
               [] ~it.valid /\ it.node = Null -> 0
               [] OTHER -> AfterNode(o, b, it.node)
    IN  [it EXCEPT !.iext = i, !.valid = TRUE, !.rd = First(b) + i]

\* The search from node tmp and external position on.
RECURSIVE Scan(_, _, _)
Scan(o, it, tmp) ==
    LET b == o.bkt[it.bkt + 1]
        more == it.iext < b.n
        ext == o.mem[it.rd + 1].k
        node == Head(tmp)
        wins == tmp # <<>> /\ (more => _leq(node.k, ext))
        skip == IF more /\ node.k = ext
                THEN [it EXCEPT !.node = node.k, !.iext = @ + 1, !.rd = @ + 1]
                ELSE [it EXCEPT !.node = node.k]
        next == o.bkt[it.bkt + 2]
    IN  CASE wins /\ ~node.del -> [skip EXCEPT !.key = node.k, !.src = "int"]
          [] wins /\ node.del -> Scan(o, skip, Tail(tmp))
          [] ~wins /\ more -> [it EXCEPT !.key = ext, !.src = "ext"]
          [] ~wins /\ ~more /\ it.bkt + 1 = Len(o.bkt) -> End
          [] OTHER -> Scan(o, [it EXCEPT !.bkt = @ + 1, !.iext = 0, !.node = Null, !.rd = First(next)],
                           next.list)

find_next(o, it0) ==
    LET it == IF it0.rd = Null THEN init_reader(o, it0) ELSE it0
        list == o.bkt[it.bkt + 1].list
        FromNode(n) == it.node = Null \/ _leq(it.node, n.k)
        Behind(n) == FromNode(n) /\ _lt(it.key, n.k)
        tmp == IF it.src = "unknown" THEN SelectSeq(list, FromNode) ELSE SelectSeq(list, Behind)
    IN  Scan(o, IF it.src = "ext" THEN [it EXCEPT !.iext = @ + 1, !.rd = @ + 1] ELSE it, tmp)

begin(o) ==
    IF Len(o.bkt) = 0 THEN End
    ELSE find_next(o, [At(o, 1, "unknown", IF o.bkt[1].list = <<>> THEN Null ELSE o.bkt[1].list[1].k, 0, TRUE)
                       EXCEPT !.bkt = 0])

\* *it = v
Assign(o, v) ==
    LET it == IF o.it.rd = Null THEN init_reader(o, o.it) ELSE o.it
    IN  IF o.it.src = "int" THEN SetNode(o, o.it.key, v, FALSE)
        ELSE [o EXCEPT !.it = it, !.mem[it.rd + 1].v = v]

---------------------------------------------------------------------------
Init ==
    \E n \in {0, 1} :
        /\ obj = NewMap(n, Max(MaxBuffers))
        /\ ref = [map |-> [k \in Keys |-> Null], at |-> Null, ops |-> 0]

Present == {k \in Keys : ref.map[k] # Null}
ToEnd(k) == IF ref.at = k THEN AtEnd ELSE ref.at
FirstOf(S) == IF S = {} THEN AtEnd ELSE CHOOSE x \in S : \A y \in S : _leq(x, y)
NextKey(k) == FirstOf({x \in Present : _lt(k, x)})

Usable == Len(obj.bkt) > 0
ItLive == obj.it # Null /\ ~obj.it.end

\* Rebuilds and new limits are counted, and bounded.
Do(o, map, at) ==
    /\ obj' = o
    /\ ref' = [map |-> map, at |-> at,
               ops |-> ref.ops + IF o.bufsize < obj.bufsize \/ o.maxbuf # obj.maxbuf THEN 1 ELSE 0]
    /\ ref'.ops <= MaxOps /\ o.total <= MaxTotal
Put(k, v) == [ref.map EXCEPT ![k] = v]

\* A call brings a value that the key does not have yet, if they are told apart.
NewValues(k) == IF k = Watched THEN Values(k) \ {ref.map[k]} ELSE Values(k)

Insert ==
    \E k \in Keys : \E v \in NewValues(k), keep \in {FALSE, k = Watched} :
        Do(insert(obj, k, v, keep), IF k \in Present THEN ref.map ELSE Put(k, v), IF keep THEN k ELSE ref.at)
InsertOblivious ==
    /\ Usable
    /\ \E k \in Keys : \E v \in NewValues(k), keep \in {FALSE, k = Watched} :
        Do(insert_oblivious(obj, k, v, keep), Put(k, v), IF keep THEN k ELSE ref.at)
EraseIt == ItLive /\ Do(erase_it(obj), Put(ref.at, Null), AtEnd)
Erase == Usable /\ \E k \in Keys : Do(erase(obj, k), Put(k, Null), ToEnd(k))
EraseOblivious ==
    /\ Usable
    /\ \E k \in Keys :
        /\ k \notin Present => "unknown" \in May
        /\ Do(erase_oblivious(obj, k), Put(k, Null), ToEnd(k))
Clear == Do(clear(obj), [k \in Keys |-> Null], IF ref.at = Null THEN Null ELSE AtEnd)
Find ==
    /\ Usable
    /\ \E k \in Keys, const \in BOOLEAN :
        Do(IF const THEN find_const(obj, k) ELSE find(obj, k), ref.map, IF k \in Present THEN k ELSE AtEnd)
Bracket ==
    /\ Usable
    /\ \E k \in Keys : \E v \in NewValues(k) :
        /\ ~(Internal(obj, k) /\ obj.bufsize + 1 < obj.maxbuf)
           => (k \in Present \/ "unknown" \in May) /\ (ref.at # k \/ "overwrite" \in May)
        /\ Do(bracket(obj, k, v), Put(k, v), ref.at)
InsertRange ==
    \E S \in {s \in SUBSET Keys : Cardinality(s) = 2 /\ Watched \in s} :
        /\ ref.ops < MaxOps
        /\ Do(insert_range(obj, [k \in S |-> IF k = Watched THEN 1 ELSE 0]),
              [k \in Keys |-> IF k \in S THEN IF k = Watched THEN 1 ELSE 0 ELSE ref.map[k]], ref.at)
Resize ==
    \/ \E n \in MaxBuffers : ref.ops < MaxOps /\ Do(max_buffer_size(obj, n), ref.map, ref.at)
    \/ ref.ops < MaxOps /\ Do(rehash(obj, 3), ref.map, ref.at)
Size == obj.oblivious /\ Do(_make_conscious(obj), ref.map, ref.at)
Begin ==
    /\ LET it == begin(obj) IN it.node # Null /\ ~it.end => _leq(it.node, it.key) \/ "begin" \in May
    /\ Do([obj EXCEPT !.it = begin(obj)], ref.map, FirstOf(Present))
Increment == ItLive /\ Do([obj EXCEPT !.it = find_next(obj, obj.it)], ref.map, NextKey(ref.at))
AssignIt == ItLive /\ \E v \in NewValues(ref.at) : Do(Assign(obj, v), Put(ref.at, v), ref.at)

Next ==
    \/ Insert \/ InsertOblivious \/ EraseIt \/ Erase \/ EraseOblivious \/ Clear \/ Find
    \/ Bracket \/ InsertRange \/ Resize \/ Size \/ Begin \/ Increment \/ AssignIt

Spec == Init /\ [][Next]_vars

---------------------------------------------------------------------------
\* The state of the map.
TypeOK ==
    /\ \A i \in DOMAIN obj.bkt : obj.bkt[i].n \in 0..Cardinality(Keys)
    /\ obj.maxbuf \in MaxBuffers
    /\ obj.total \in Int /\ obj.oblivious \in BOOLEAN
    /\ obj.it # Null => obj.it.src \in {"int", "ext", "unknown"}

\* The map holds what was stored in it and not erased: a lookup of a key,
\* in the buffer first and then in external memory by the binary search,
\* finds its last value or nothing.
MapHolds ==
    \A k \in Keys :
        ref.map[k] =
            CASE ~Usable -> Null
              [] Usable /\ Internal(obj, k) -> IF NodeOf(obj, k).del THEN Null ELSE NodeOf(obj, k).v
              [] Usable /\ ~Internal(obj, k) /\ InExternal(obj, k) -> ExternalValue(obj, k)
              [] OTHER -> Null

\* A scan over all buckets, which a rebuild and an iteration make, meets every
\* value once, in the order by hash value and key.
ScanInOrder ==
    LET s == Stored(obj)
    IN  /\ {s[i].k : i \in DOMAIN s} = Present
        /\ \A i \in 1..Len(s) - 1 : _lt(s[i].k, s[i + 1].k)

\* The number of values is right unless the map says that it is estimated.
SizeExact == ~obj.oblivious => obj.total = Cardinality(Present)

\* The iterator is where it was put, whatever was stored, erased or rebuilt
\* since: at its key, at the node or the cell that has the current value of
\* it, with the external position behind it.
IteratorFollows ==
    LET it == obj.it
        b == obj.bkt[it.bkt + 1]
    IN  CASE ref.at = Null -> it = Null
          [] ref.at = AtEnd -> it.end
          [] OTHER ->
               /\ ~it.end /\ it.key = ref.at /\ it.bkt = _bkt_num(it.key, Len(obj.bkt))
               /\ it.rd # Null => it.valid /\ it.rd = First(b) + it.iext
               /\ it.src = "int" => Internal(obj, it.key) /\ ~NodeOf(obj, it.key).del /\ it.node = it.key
               /\ it.src = "ext" => ~Internal(obj, it.key) /\ External(obj, b)[it.iext + 1].k = it.key

\* The buffer is counted and keeps its limit, with room for the node that
\* find() adds.
BufferBounded ==
    /\ obj.bufsize = FoldFunction(+, 0, [i \in 1..Len(obj.bkt) |-> Len(obj.bkt[i].list)])
    /\ obj.bufsize < obj.maxbuf

=============================================================================
