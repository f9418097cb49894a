------------------------------- MODULE BTree -------------------------------
(***************************************************************************)
(* stxxl::btree, the tree behind stxxl::map: a root held in memory, inner  *)
(* nodes and leaves; bulk construction, insertion with splits, erasure     *)
(* with fusing and balancing, and the iterators, which the tree keeps      *)
(* registered and repairs whenever their elements move.                    *)
(*                                                                         *)
(* Inner nodes and leaves are records in nodes, found by their BID; the    *)
(* caches they live in are the module NodeCache.  An entry of a node or of *)
(* the root has the largest key of a child; an entry of a leaf a key and   *)
(* its data.  The last entry on every right edge has the key max_value.    *)
(***************************************************************************)
EXTENDS Integers, Sequences, SequencesExt, FiniteSets, FiniteSetsExt

CONSTANTS
    max_size,    \* entries of a node and of a leaf; at least 4, the code asserts
    max_value,   \* key_compare::max_value(), above all keys
    BulkSizes,   \* numbers of elements the tree is built from
    Fills,       \* how many entries bulk construction puts into a leaf or node
    OpKeys,      \* keys of the operations
    MaxOps,      \* bound: operations on a tree
    Null

VARIABLES
    obj,  \* the tree
    ref   \* the map it stands for

vars == <<obj, ref>>

min_size == max_size \div 2
Entry(k, x) == [key |-> k, val |-> x]
EmptyLeaf == [leaf |-> TRUE, ents |-> <<>>, pred |-> Null, succ |-> Null]
EmptyNode == [leaf |-> FALSE, ents |-> <<>>, pred |-> Null, succ |-> Null]

NewBid(t) == Min(1..(Cardinality(DOMAIN t.nodes) + 1) \ DOMAIN t.nodes)
get_new_node(t, node) ==
    [t EXCEPT !.nodes = [b \in DOMAIN @ \cup {NewBid(t)} |-> IF b = NewBid(t) THEN node ELSE @[b]]]
\* A mutant: the node stays allocated.
delete_node_not(t, b) == t

delete_node(t, b) == [t EXCEPT !.nodes = [x \in DOMAIN @ \ {b} |-> @[x]]]
SizeOf(t, b) == Len(t.nodes[b].ents)
underflows(t, b) == SizeOf(t, b) < min_size

\* std::lower_bound and std::upper_bound.
Bound(s, k, upper) == 1 + Cardinality({i \in DOMAIN s : s[i].key < k \/ (upper /\ s[i].key = k)})
LowerBound(s, k) == Bound(s, k, FALSE)

\* iterator_map: the registered iterators of a leaf with positions lo..hi.
\* They are moved to another leaf or position, and registered again there.
MoveIterators(t, b, lo, hi, to, delta) ==
    [t EXCEPT !.its = [i \in DOMAIN @ |->
        IF @[i] # Null /\ @[i].bid = b /\ @[i].pos \in lo..hi
        THEN [bid |-> to, pos |-> @[i].pos + delta] ELSE @[i]]]

SetSucc(t, b, to) == IF b = Null THEN t ELSE [t EXCEPT !.nodes[b].succ = to]

-----------------------------------------------------------------------------
(* Splitting, fusing and balancing. *)

SplitIterators(t, b, new, half) ==
    MoveIterators(MoveIterators(t, b, 0, half - 1, new, 0), b, half, SizeOf(t, b), b, -half)

\* A mutant: the first key of the larger part.
SplitterKeyNext(node, half) == node.ents[half + 1].key

SplitterKey(node, half) == node.ents[half].key

\* The smaller part of an overflowing node goes to a new left neighbour.
split(t, b) ==
    LET node == t.nodes[b]
        new == NewBid(t)
        half == Len(node.ents) \div 2
        left == [node EXCEPT !.ents = SubSeq(@, 1, half), !.succ = IF node.leaf THEN b ELSE Null]
        u == get_new_node(IF node.leaf THEN SetSucc(SplitIterators(t, b, new, half), node.pred, new)
                          ELSE t, left)
    IN  [t |-> [u EXCEPT !.nodes[b].ents = SubSeq(@, half + 1, Len(@)),
                         !.nodes[b].pred = IF node.leaf THEN new ELSE Null],
         splitter |-> Entry(SplitterKey(node, half), new)]

\* The entries of left are put before those of b.
fuse(t, b, left) ==
    LET u == IF ~t.nodes[b].leaf THEN t
             ELSE SetSucc([MoveIterators(MoveIterators(t, b, 0, SizeOf(t, b), b, SizeOf(t, left)),
                                         left, 0, SizeOf(t, left), b, 0)
                              EXCEPT !.nodes[b].pred = t.nodes[left].pred], t.nodes[left].pred, b)
    IN  delete_node([u EXCEPT !.nodes[b].ents = t.nodes[left].ents \o @], left)

balance(t, b, left) ==
    LET all == t.nodes[left].ents \o t.nodes[b].ents
        nl == SizeOf(t, left)
        new == Len(all) \div 2
        u == IF ~t.nodes[b].leaf THEN t
             ELSE IF new < nl
             THEN MoveIterators(MoveIterators(t, b, 0, SizeOf(t, b), b, nl - new),
                                left, new, nl, b, -new)
             ELSE MoveIterators(MoveIterators(t, b, 0, new - nl - 1, left, nl),
                                b, new - nl, SizeOf(t, b), b, nl - new)
    IN  [u EXCEPT !.nodes[left].ents = SubSeq(all, 1, new),
                  !.nodes[b].ents = SubSeq(all, new + 1, Len(all))]

\* For the child at entry i, which underflows, of the root or a node whose
\* entries are given: it is fused or balanced with a neighbour.
fuse_or_balance(t, ents, i) ==
    LET l == IF i = Len(ents) THEN i - 1 ELSE i
        left == ents[l].val
        right == ents[l + 1].val
        u == balance(t, right, left)
    IN  IF SizeOf(t, left) + SizeOf(t, right) <= max_size
        THEN [t |-> fuse(t, right, left), ents |-> RemoveAt(ents, l)]
        ELSE [t |-> u, ents |-> [ents EXCEPT ![l].key = Last(u.nodes[left].ents).key]]

-----------------------------------------------------------------------------
(* Insertion. *)

Overflow(t, b) ==
    IF SizeOf(t, b) <= max_size THEN [t |-> t, splitter |-> Null] ELSE split(t, b)

\* normal_leaf::insert: the iterators behind the new element move up.
LeafInsert(t, b, k, d) ==
    LET i == LowerBound(t.nodes[b].ents, k)
    IN  Overflow([MoveIterators(t, b, i - 1, SizeOf(t, b), b, 1)
                    EXCEPT !.nodes[b].ents = InsertAt(@, i, Entry(k, d))], b)

\* normal_node::insert, down to the leaf at height 1; the new child, if there
\* is one, is left of the one that was split.
RECURSIVE InsertIn(_, _, _, _, _)
InsertIn(t, b, h, k, d) ==
    IF h = 1 THEN LeafInsert(t, b, k, d)
    ELSE LET i == LowerBound(t.nodes[b].ents, k)
             r == InsertIn(t, t.nodes[b].ents[i].val, h - 1, k, d)
         IN  IF r.splitter = Null THEN r
             ELSE Overflow([r.t EXCEPT !.nodes[b].ents = InsertAt(@, i, r.splitter)], b)

insert_into_root(t, splitter) ==
    LET root == InsertAt(t.root, LowerBound(t.root, splitter.key), splitter)
        half == Len(root) \div 2
        u == get_new_node(t, [EmptyNode EXCEPT !.ents = SubSeq(root, 1, half)])
        v == get_new_node(u, [EmptyNode EXCEPT !.ents = SubSeq(root, half + 1, Len(root))])
    IN  IF Len(root) <= max_size THEN [t EXCEPT !.root = root]
        ELSE [v EXCEPT !.height = @ + 1,
                       !.root = <<Entry(root[half].key, NewBid(t)), Entry(Last(root).key, NewBid(u))>>]

-----------------------------------------------------------------------------
(* Lookup: iterators are a leaf and a position in it, from 0. *)

RECURSIVE Descend(_, _, _, _, _)
Descend(t, ents, h, k, upper) ==
    LET b == ents[Bound(ents, k, upper)].val
    IN  IF h = 1 THEN b ELSE Descend(t, t.nodes[b].ents, h - 1, k, upper)

LeafOf(t, k, upper) == Descend(t, t.root, t.height - 1, k, upper)

\* normal_leaf::lower_bound and upper_bound: beyond the last entry is the
\* start of the next leaf.
Bounded(t, k, upper) ==
    LET b == LeafOf(t, k, upper)
        i == Bound(t.nodes[b].ents, k, upper)
    IN  IF i > SizeOf(t, b) /\ t.nodes[b].succ # Null THEN [bid |-> t.nodes[b].succ, pos |-> 0]
        ELSE [bid |-> b, pos |-> i - 1]

lower_bound(t, k) == Bounded(t, k, FALSE)
upper_bound(t, k) == Bounded(t, k, TRUE)

Found(t, k) == LET b == LeafOf(t, k, FALSE)
                   i == LowerBound(t.nodes[b].ents, k)
               IN  i <= SizeOf(t, b) /\ t.nodes[b].ents[i].key = k
find(t, k) == IF Found(t, k) THEN lower_bound(t, k) ELSE t.its["end"]

RECURSIVE FirstLeaf(_, _, _)
FirstLeaf(t, ents, h) == IF h = 1 THEN ents[1].val
                         ELSE FirstLeaf(t, t.nodes[ents[1].val].ents, h - 1)
begin(t) == [bid |-> FirstLeaf(t, t.root, t.height - 1), pos |-> 0]

increment_iterator(t, it) ==
    IF it.pos + 1 = SizeOf(t, it.bid) /\ t.nodes[it.bid].succ # Null
    THEN [bid |-> t.nodes[it.bid].succ, pos |-> 0]
    ELSE [it EXCEPT !.pos = @ + 1]

decrement_iterator(t, it) ==
    IF it.pos = 0 THEN [bid |-> t.nodes[it.bid].pred, pos |-> SizeOf(t, t.nodes[it.bid].pred) - 1]
    ELSE [it EXCEPT !.pos = @ - 1]

-----------------------------------------------------------------------------
(* Erasure. *)

\* A mutant: iterators behind the erased element stay.
LeafEraseStay(t, b, k) ==
    [t EXCEPT !.nodes[b].ents = RemoveAt(@, LowerBound(@, k))]

LeafErase(t, b, k) ==
    LET i == LowerBound(t.nodes[b].ents, k)
    IN  [MoveIterators(t, b, i, SizeOf(t, b), b, -1) EXCEPT !.nodes[b].ents = RemoveAt(@, i)]

\* normal_node::erase of a key that is there.
RECURSIVE EraseIn(_, _, _, _)
EraseIn(t, b, h, k) ==
    IF h = 1 THEN LeafErase(t, b, k)
    ELSE LET i == LowerBound(t.nodes[b].ents, k)
             child == t.nodes[b].ents[i].val
             u == EraseIn(t, child, h - 1, k)
             r == fuse_or_balance(u, u.nodes[b].ents, i)
         IN  IF ~underflows(u, child) THEN u ELSE [r.t EXCEPT !.nodes[b].ents = r.ents]

\* A mutant: the tree keeps a root with a single child.
CollapseNot(t) == t

\* A root with a single inner node as child is replaced by that node.
Collapse(t) ==
    LET b == t.root[1].val
    IN  IF Len(t.root) > 1 THEN t
        ELSE [delete_node(t, b) EXCEPT !.root = t.nodes[b].ents, !.height = @ - 1]

erase(t, k) ==
    LET i == LowerBound(t.root, k)
        child == t.root[i].val
        u == EraseIn(t, child, t.height - 1, k)
        r == fuse_or_balance(u, u.root, i)
        v == [r.t EXCEPT !.root = r.ents]
    IN  [IF ~underflows(u, child) \/ (t.height = 2 /\ Len(t.root) = 1) THEN u
         ELSE IF t.height = 2 THEN v ELSE Collapse(v) EXCEPT !.m_size = @ - 1]

\* A mutant: a key that is there is inserted again.
ExistsNever(t, k) == FALSE

Exists(t, k) == Found(t, k)

insert(t, k, d) ==
    LET i == LowerBound(t.root, k)
        r == InsertIn(t, t.root[i].val, t.height - 1, k, d)
    IN  IF Exists(t, k) THEN t
        ELSE [IF r.splitter = Null THEN r.t ELSE insert_into_root(r.t, r.splitter)
                EXCEPT !.m_size = @ + 1]

-----------------------------------------------------------------------------
(* Construction. *)

\* create_empty_leaf after deallocate_children
Empty == [nodes |-> <<EmptyLeaf>>, root |-> <<Entry(max_value, 1)>>, height |-> 2, m_size |-> 0,
          its |-> [i \in {"end", "user"} |-> IF i = "end" THEN [bid |-> 1, pos |-> 0] ELSE Null],
          ikey |-> Null, ops |-> 0]

\* One element of the sorted range; bids are the leaves before the current.
BulkStep(fill, s, k) ==
    LET new == NewBid(s.t)
        t == get_new_node([s.t EXCEPT !.nodes[s.cur].succ = new], [EmptyLeaf EXCEPT !.pred = s.cur])
        full == SizeOf(s.t, s.cur) = fill
        u == IF full THEN t ELSE s.t
        cur == IF full THEN new ELSE s.cur
    IN  IF k = s.last THEN s
        ELSE [t |-> [u EXCEPT !.nodes[cur].ents = Append(@, Entry(k, 0)), !.m_size = @ + 1],
              cur |-> cur, last |-> k,
              bids |-> IF full THEN Append(s.bids, Entry(Last(s.t.nodes[s.cur].ents).key, s.cur))
                       ELSE s.bids]

\* The last node b is too small: it takes from its left neighbour, or all.
BulkMend(t, bids, b) ==
    LET left == Last(bids).val
        u == balance(t, b, left)
    IN  IF ~underflows(t, b) \/ bids = <<>> THEN [t |-> t, bids |-> bids]
        ELSE IF SizeOf(t, left) + SizeOf(t, b) <= max_size
        THEN [t |-> fuse(t, b, left), bids |-> Front(bids)]
        ELSE [t |-> u, bids |-> [bids EXCEPT ![Len(bids)].key = Last(u.nodes[left].ents).key]]

\* A level of inner nodes over the entries.
RECURSIVE BulkLevel(_, _, _, _)
BulkLevel(t, bids, parents, fill) ==
    LET n == IF Len(bids) < fill THEN Len(bids) ELSE fill
        new == NewBid(t)
        u == get_new_node(t, [EmptyNode EXCEPT !.ents = SubSeq(bids, 1, n)])
        m == BulkMend(u, parents, new)
    IN  IF bids = <<>> THEN [t |-> t, bids |-> parents]
        ELSE BulkLevel(m.t, SubSeq(bids, n + 1, Len(bids)),
                       Append(m.bids, Entry(Last(m.t.nodes[new].ents).key, new)), fill)

RECURSIVE BulkNodes(_, _, _)
BulkNodes(t, bids, fill) ==
    LET r == BulkLevel(t, bids, <<>>, fill)
    IN  IF Len(bids) <= max_size THEN [t EXCEPT !.root = bids]
        ELSE BulkNodes([r.t EXCEPT !.height = @ + 1], r.bids, fill)

bulk_construction(range, node_fill, leaf_fill) ==
    LET s == FoldLeft(LAMBDA x, k : BulkStep(leaf_fill, x, k),
                      [t |-> Empty, cur |-> 1, bids |-> <<>>, last |-> max_value], range)
        m == BulkMend(s.t, s.bids, s.cur)
        t == [m.t EXCEPT !.its["end"] = [bid |-> s.cur, pos |-> SizeOf(m.t, s.cur)]]
    IN  BulkNodes(t, Append(m.bids, Entry(max_value, s.cur)), node_fill)

-----------------------------------------------------------------------------
Leaves(t) == {b \in DOMAIN t.nodes : t.nodes[b].leaf}

TypeOK ==
    /\ obj.height >= 2 /\ obj.ops \in 0..MaxOps
    /\ \A b \in DOMAIN obj.nodes : ToSet(obj.nodes[b].ents) \subseteq
           [key : 0..max_value, val : IF obj.nodes[b].leaf THEN {0, 1} ELSE DOMAIN obj.nodes]
    /\ \A i \in DOMAIN obj.its : obj.its[i] # Null =>
           obj.its[i].bid \in Leaves(obj) /\ obj.its[i].pos \in 0..SizeOf(obj, obj.its[i].bid)

\* The sorted range has the even keys, the first of them twice.
Init ==
    \E n \in BulkSizes, nf \in Fills, lf \in Fills :
        /\ obj = bulk_construction((IF n > 0 THEN <<2>> ELSE <<>>) \o [i \in 1..n |-> 2 * i], nf, lf)
        /\ ref = [k \in {2 * i : i \in 1..n} |-> 0]

Does(t) == obj.ops < MaxOps /\ obj' = [t EXCEPT !.ops = @ + 1]

\* insert, operator []
Insert == \E k \in OpKeys :
    /\ Does(insert(obj, k, 1))
    /\ ref' = IF k \in DOMAIN ref THEN ref
              ELSE [x \in DOMAIN ref \cup {k} |-> IF x = k THEN 1 ELSE ref[x]]

\* An iterator to an erased element is invalid.
Erase == \E k \in OpKeys :
    /\ LET t == IF obj.ikey = k THEN [obj EXCEPT !.its["user"] = Null, !.ikey = Null] ELSE obj
       IN  Does(IF Found(obj, k) THEN erase(t, k) ELSE obj)
    /\ ref' = [x \in DOMAIN ref \ {k} |-> ref[x]]

clear == Does([Empty EXCEPT !.ops = obj.ops]) /\ ref' = <<>>

\* The key an iterator of the abstract map stands for; max_value is end().
KeyFrom(k) == Min({x \in DOMAIN ref : x >= k} \cup {max_value})
KeyAfter(k) == Min({x \in DOMAIN ref : x > k} \cup {max_value})

SeekLower == \E k \in OpKeys :
    Does([obj EXCEPT !.its["user"] = lower_bound(obj, k), !.ikey = KeyFrom(k)]) /\ UNCHANGED ref
SeekUpper == \E k \in OpKeys :
    Does([obj EXCEPT !.its["user"] = upper_bound(obj, k), !.ikey = KeyAfter(k)]) /\ UNCHANGED ref
StepForward ==
    /\ obj.its["user"] # Null /\ obj.its["user"] # obj.its["end"]
    /\ Does([obj EXCEPT !.its["user"] = increment_iterator(obj, @), !.ikey = KeyAfter(@)])
    /\ UNCHANGED ref
StepBack ==
    /\ obj.its["user"] # Null /\ obj.its["user"] # begin(obj)
    /\ Does([obj EXCEPT !.its["user"] = decrement_iterator(obj, @),
                        !.ikey = Max({x \in DOMAIN ref : x < @} \cup {-1})])
    /\ UNCHANGED ref

Next == Insert \/ Erase \/ clear \/ SeekLower \/ SeekUpper \/ StepForward \/ StepBack

Spec == Init /\ [][Next]_vars

-----------------------------------------------------------------------------
(* Properties. *)

RECURSIVE Walk(_, _)
Walk(t, it) == IF it = t.its["end"] THEN <<>>
               ELSE <<t.nodes[it.bid].ents[it.pos + 1]>> \o Walk(t, increment_iterator(t, it))

\* From begin() to end(), an iterator meets the elements of the map in order,
\* each once, and size() counts them: splits, fuses and balances lose nothing.
TreeHolds ==
    /\ LET s == Walk(obj, begin(obj))
       IN  /\ \A i \in 1..(Len(s) - 1) : s[i].key < s[i + 1].key
           /\ ToSet(s) = {Entry(k, ref[k]) : k \in DOMAIN ref}
    /\ obj.m_size = Cardinality(DOMAIN ref)

\* find, lower_bound and upper_bound agree with the map for every key.
LookupsRight ==
    \A k \in 0..(max_value - 1) :
        LET At(it, key) == IF key = max_value THEN it = obj.its["end"]
                           ELSE it.pos < SizeOf(obj, it.bid)
                                  /\ obj.nodes[it.bid].ents[it.pos + 1].key = key
        IN  /\ At(lower_bound(obj, k), KeyFrom(k))
            /\ At(upper_bound(obj, k), KeyAfter(k))
            /\ At(find(obj, k), IF k \in DOMAIN ref THEN k ELSE max_value)

RECURSIVE Proper(_, _, _, _)
Proper(t, ents, h, below) ==
    /\ \A i \in 1..(Len(ents) - 1) : ents[i].key < ents[i + 1].key
    /\ h = 0 \/ (Last(ents).key = below
                   /\ \A i \in DOMAIN ents : t.nodes[ents[i].val].leaf = (h = 1)
                        /\ Proper(t, t.nodes[ents[i].val].ents, h - 1, ents[i].key))
    /\ h = 0 => ents = <<>> \/ Last(ents).key <= below

\* The tree is a B-tree: all leaves at one depth, keys between the splitters,
\* and every node but the root at least half full; asserts of the code state
\* parts of this where nodes are fused, balanced and built.
Balanced ==
    /\ Proper(obj, obj.root, obj.height - 1, max_value)
    /\ Len(obj.root) \in (IF obj.height = 2 THEN 1 ELSE 2)..max_size
    /\ \A b \in DOMAIN obj.nodes : SizeOf(obj, b) <= max_size
          /\ (SizeOf(obj, b) >= min_size \/ (obj.height = 2 /\ Len(obj.root) = 1))

\* An iterator points to the same element whatever is inserted and erased
\* around it, and end() is behind the last element of the last leaf.
IteratorsStable ==
    /\ obj.its["end"].pos = SizeOf(obj, obj.its["end"].bid)
    /\ obj.nodes[obj.its["end"].bid].succ = Null
    /\ LET it == obj.its["user"]
       IN  it # Null => IF obj.ikey = max_value THEN it = obj.its["end"]
                        ELSE it.pos < SizeOf(obj, it.bid)
                               /\ obj.nodes[it.bid].ents[it.pos + 1].key = obj.ikey

RECURSIVE Reachable(_, _, _)
Reachable(t, ents, h) ==
    LET children == {ents[i].val : i \in DOMAIN ents}
    IN  IF h = 0 THEN {}
        ELSE children \cup UNION {Reachable(t, t.nodes[b].ents, h - 1) : b \in children}

\* Every node that was allocated and not deleted is in the tree.
NoNodeLost == DOMAIN obj.nodes = Reachable(obj, obj.root, obj.height - 1)
=============================================================================
