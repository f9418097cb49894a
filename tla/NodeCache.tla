----------------------------- MODULE NodeCache -----------------------------
(***************************************************************************)
(* stxxl::btree::node_cache: the nodes or the leaves of a B-tree that are  *)
(* in memory, in slots under an LRU pager, and the swap of two trees.      *)
(*                                                                         *)
(* Of the content of a node the model keeps whether a copy of it, in a     *)
(* slot or on disk, is current.  held are the nodes that the tree has      *)
(* fixed and points to, with the slot it got.                              *)
(***************************************************************************)
EXTENDS Integers, Sequences, SequencesExt, FiniteSets, FiniteSetsExt

CONSTANTS
    Size,      \* slots of a cache, at least 3
    NBids,     \* bound: blocks of a tree
    MaySwap,   \* whether there is a second tree to swap with
    Null

VARIABLES
    obj,  \* the caches of one or two trees, and the copies on disk
    ref   \* how often the trees were swapped

vars == <<obj, ref>>

Slots == 1..Size
Trees == IF MaySwap THEN {1, 2} ELSE {1}
Bids == 1..(NBids * Cardinality(Trees))

\* bid2node, m_fixed, m_dirty, m_free_nodes and the pager; bids are the blocks
\* allocated, cur the slots whose content is current, pend those with a
\* prefetch that nobody waited for.
NewCache == [b2n |-> <<>>, fixed |-> {}, dirty |-> Slots, free |-> [i \in 1..Size |-> i],
             hist |-> [i \in 1..Size |-> Size + 1 - i], bids |-> {}, cur |-> {}, pend |-> {},
             held |-> <<>>]

Slot(c, b) == c.b2n[b]
BidIn(c, slot) == CHOOSE b \in DOMAIN c.b2n : c.b2n[b] = slot
With(f, b, x) == [y \in DOMAIN f \cup {b} |-> IF y = b THEN x ELSE f[y]]
Without(f, b) == [y \in DOMAIN f \ {b} |-> f[y]]

hit(c, slot) == [c EXCEPT !.hist = <<slot>> \o SelectSeq(@, LAMBDA x : x # slot)]

\* The loop over kick(): slots that are fixed are moved to the front until
\* one is not.  If all are, the caller gets NULL.
NoneToKick(c) == c.free = <<>> /\ c.fixed = Slots
\* A mutant: the least recently used slot, fixed or not.
VictimAny(c) == Size

Victim(c) == Max({i \in DOMAIN c.hist : c.hist[i] \notin c.fixed})
Kicked(c) == [c EXCEPT !.hist = SubSeq(@, Victim(c), Size) \o SubSeq(@, 1, Victim(c) - 1)]

\* if (m_reqs[i].valid()) m_reqs[i]->wait(): what was prefetched is there.
Wait(c, disk, slot) ==
    [c EXCEPT !.pend = @ \ {slot},
              !.cur = IF slot \in c.pend /\ BidIn(c, slot) \in disk THEN @ \cup {slot} ELSE @]

\* A mutant: the node is not saved.
SavedNot(c, disk, slot) == disk

\* node.save() if it is dirty: the disk has what the slot has.
Saved(c, disk, slot) ==
    IF slot \notin c.dirty THEN disk
    ELSE IF slot \in c.cur THEN disk \cup {BidIn(c, slot)} ELSE disk \ {BidIn(c, slot)}

\* A slot for a block: a free one, or the one that is kicked.
TakeSlot(c, disk) ==
    LET slot == c.hist[Victim(c)]
        w == Wait(c, disk, slot)
    IN  IF c.free # <<>>
        THEN [c |-> hit([c EXCEPT !.free = Front(@)], Last(c.free)), slot |-> Last(c.free), disk |-> disk]
        ELSE [c |-> Kicked([w EXCEPT !.b2n = Without(@, BidIn(c, slot))]), slot |-> slot,
              disk |-> Saved(w, disk, slot)]

Put(c, b, slot, fix, dirty, cur, pend) ==
    LET In(set, yes) == IF yes THEN set \cup {slot} ELSE set \ {slot}
    IN  [c EXCEPT !.b2n = With(@, b, slot), !.fixed = In(@, fix), !.dirty = In(@, dirty),
                  !.cur = In(@, cur), !.pend = In(@, pend)]

\* A new node: init() writes it in memory only.
get_new_node(c, disk, b) ==
    LET r == TakeSlot(c, disk)
    IN  [c |-> [Put(r.c, b, r.slot, r.slot \in r.c.fixed, TRUE, TRUE, FALSE) EXCEPT !.bids = @ \cup {b}],
         disk |-> r.disk \ {b}]

\* A mutant: a prefetched node is used before it has arrived.
FoundNoWait(c, disk, b) == [hit(c, Slot(c, b)) EXCEPT !.pend = @ \ {Slot(c, b)}]

\* The node is in the cache.
Found(c, disk, b) == hit(Wait(c, disk, Slot(c, b)), Slot(c, b))

\* get_node, and get_const_node, which does not make the node dirty.
get_node(c, disk, b, fix, dirty) ==
    LET f == Found(c, disk, b)
        slot == Slot(c, b)
        r == TakeSlot(c, disk)
    IN  IF b \in DOMAIN c.b2n
        THEN [c |-> [f EXCEPT !.fixed = IF fix THEN @ \cup {slot} ELSE @ \ {slot},
                              !.dirty = IF dirty THEN @ \cup {slot} ELSE @],
              disk |-> disk]
        ELSE [c |-> Put(r.c, b, r.slot, fix, dirty, b \in r.disk, FALSE), disk |-> r.disk]

prefetch_node(c, disk, b) ==
    LET r == TakeSlot(c, disk)
    IN  IF b \in DOMAIN c.b2n THEN [c |-> c, disk |-> disk]
        ELSE [c |-> Put(r.c, b, r.slot, FALSE, FALSE, FALSE, TRUE), disk |-> r.disk]

\* A mutant: the slot stays fixed.
UnfixedNot(c, slot) == c

Unfixed(c, slot) == [c EXCEPT !.fixed = @ \ {slot}]

delete_node(c, disk, b) ==
    LET w == Unfixed(Wait(c, disk, Slot(c, b)), Slot(c, b))
    IN  [c |-> [IF b \in DOMAIN c.b2n
                THEN [w EXCEPT !.free = Append(@, Slot(c, b)), !.b2n = Without(@, b),
                               !.cur = @ \ {Slot(c, b)}]
                ELSE c EXCEPT !.bids = @ \ {b}, !.held = Without(@, b)],
         disk |-> disk \ {b}]

unfix_node(c, b) == [Unfixed(c, Slot(c, b)) EXCEPT !.held = Without(@, b)]

\* node_cache::swap exchanges everything but m_dirty.
swap(c1, c2) == <<[c2 EXCEPT !.dirty = c1.dirty], [c1 EXCEPT !.dirty = c2.dirty]>>

\* The tree writes to a node it has a pointer to.
Written(r, b, slot) == [c |-> [r.c EXCEPT !.cur = @ \cup {slot}], disk |-> r.disk \ {b}]

-----------------------------------------------------------------------------
TypeOK ==
    \A i \in Trees : LET c == obj.caches[i] IN
        /\ c.bids \subseteq Bids /\ DOMAIN c.b2n \subseteq c.bids /\ DOMAIN c.held \subseteq c.bids
        /\ c.fixed \subseteq Slots /\ c.dirty \subseteq Slots /\ c.pend \subseteq Slots
        /\ obj.disk \subseteq Bids

Init == obj = [caches |-> [i \in {1, 2} |-> NewCache], disk |-> {}] /\ ref = 0

Set(i, r) == obj' = [caches |-> [obj.caches EXCEPT ![i] = r.c], disk |-> r.disk]
Calm == ref' = ref

New == \E i \in Trees : LET c == obj.caches[i] IN
    /\ Cardinality(c.bids) < NBids /\ Calm
    /\ IF NoneToKick(c) THEN UNCHANGED obj
       ELSE Set(i, get_new_node(c, obj.disk, Min(Bids \ (obj.caches[1].bids \cup obj.caches[2].bids))))

\* The tree never asks for a node that it has fixed.  A node it may change is
\* written at once, and again while it is fixed.
Get == \E i \in Trees, fix, dirty \in BOOLEAN :
    LET c == obj.caches[i] IN
    /\ Calm
    /\ \E b \in c.bids \ DOMAIN c.held :
          LET r == get_node(c, obj.disk, b, fix, dirty)
              w == IF dirty THEN Written(r, b, Slot(r.c, b)) ELSE r
          IN  IF NoneToKick(c) /\ b \notin DOMAIN c.b2n THEN UNCHANGED obj
              ELSE Set(i, IF fix /\ dirty THEN [w EXCEPT !.c.held = With(@, b, Slot(r.c, b))]
                          ELSE [w EXCEPT !.c = Unfixed(@, Slot(r.c, b))])

WriteFixed == \E i \in Trees : \E b \in DOMAIN obj.caches[i].held :
    Calm /\ Set(i, Written([c |-> obj.caches[i], disk |-> obj.disk], b, obj.caches[i].held[b]))

Prefetch == \E i \in Trees : \E b \in obj.caches[i].bids :
    Calm /\ ~NoneToKick(obj.caches[i]) /\ Set(i, prefetch_node(obj.caches[i], obj.disk, b))

Delete == \E i \in Trees : \E b \in obj.caches[i].bids :
    Calm /\ Set(i, delete_node(obj.caches[i], obj.disk, b))

Unfix == \E i \in Trees : \E b \in DOMAIN obj.caches[i].held :
    Calm /\ Set(i, [c |-> unfix_node(obj.caches[i], b), disk |-> obj.disk])

Swap ==
    /\ MaySwap /\ ref = 0 /\ \A i \in Trees : obj.caches[i].fixed = {}
    /\ obj' = [obj EXCEPT !.caches = swap(@[1], @[2])] /\ ref' = 1

Next == New \/ Get \/ WriteFixed \/ Prefetch \/ Delete \/ Unfix \/ Swap

Spec == Init /\ [][Next]_vars

-----------------------------------------------------------------------------
(* Properties. *)

\* The content of a node is never lost: it is in the slot of the node or, if
\* the node is not in the cache or its prefetch is under way, on disk.
NodesCurrent ==
    \A i \in Trees : LET c == obj.caches[i] IN
        \A b \in c.bids :
            IF b \in DOMAIN c.b2n /\ Slot(c, b) \notin c.pend THEN Slot(c, b) \in c.cur
            ELSE b \in obj.disk

\* A slot that is clean can be reused without writing it.
CleanIsSaved ==
    \A i \in Trees : LET c == obj.caches[i] IN
        \A b \in DOMAIN c.b2n : Slot(c, b) \notin c.dirty => b \in obj.disk

\* Every slot is free or has one block, and what the code asserts after each
\* call: size() == m_bid2node.size() + m_free_nodes.size(); a slot that is
\* taken from the free ones is not fixed.
SlotsAccounted ==
    \A i \in Trees : LET c == obj.caches[i] IN
        /\ Size = Cardinality(DOMAIN c.b2n) + Len(c.free)
        /\ Slots = ToSet(c.free) \cup {c.b2n[b] : b \in DOMAIN c.b2n}
        /\ ToSet(c.free) \cap c.fixed = {}

\* A node that is fixed stays in its slot, so that pointers to it are good.
FixedStays ==
    \A i \in Trees : LET c == obj.caches[i] IN
        \A b \in DOMAIN c.held : b \in DOMAIN c.b2n /\ Slot(c, b) = c.held[b]
=============================================================================
