---------------------------- MODULE QueueParts ------------------------------
(***************************************************************************)
(* Two data structures of bits/common that the parallel priority queue is  *)
(* built from: winner_tree (Init, Next) and swap_vector with               *)
(* swap_remove_if (VectorInit, VectorNext).                                *)
(***************************************************************************)
EXTENDS Integers, Sequences, SequencesExt, FiniteSets, FiniteSetsExt, TLC

CONSTANTS
    Players,   \* how many players there are at most
    Keys,
    Width,     \* bits of unsigned_type
    Values,    \* of a vector
    MaxSize,   \* bound on the size of a vector
    May        \* "grow": a player beyond the slots of the tree is activated
               \* "last": what is erased from a vector ends right before its last value

VARIABLES
    obj,  \* the tree t, and the keys val of the active players; or the array arr
          \* of capacity Len(arr), and the size
    ref   \* the values of the vector

vars == <<obj, ref>>

---------------------------------------------------------------------------
(* winner_tree: a tournament among players 0 .. slots - 1.                 *)
(*                                                                         *)
(* A tree is a record: tree[0] is the root, the children of node p are     *)
(* 2p + 1 and 2p + 2, the leaves are the players.  The comparator is a     *)
(* function val from the players that exist to their keys; wild records    *)
(* an access outside of the tree or to a player that does not exist.       *)

Inv == -1      \* invalid_key

\* The function f, with its values computed.
Value(f) == f @@ <<>>

ilog2_floor(n) == CHOOSE k \in 0..n : 2^k <= n /\ n < 2^(k + 1)
ilog2_ceil(n) == IF n <= 1 THEN 0 ELSE ilog2_floor(n - 1) + 1

winner_tree(n) ==
    LET slots == 2^ilog2_ceil(n)
    IN  [slots |-> slots, tree |-> Value([p \in 0..(2 * slots - 2) |-> Inv]), wild |-> FALSE]

Leaf(t, i) == t.slots - 1 + i
Parent(p) == (p - 1) \div 2
top(t) == t.tree[0]
empty(t) == top(t) = Inv

---------------------------------------------------------------------------
(* The games.                                                              *)

\* A mutant: the left player wins when the right one is absent only.
GameLeft(val, l, r) == IF r = Inv THEN l ELSE IF l = Inv THEN r ELSE l

Strange(val, l, r) == l # Inv /\ r # Inv /\ ~({l, r} \subseteq DOMAIN val)

Game(val, l, r) ==
    IF l = Inv THEN r
    ELSE IF r = Inv THEN l
    ELSE IF Strange(val, l, r) THEN l
    ELSE IF val[l] < val[r] THEN l ELSE r

\* The nodes from the leaf of player i to the root, by their distance.
Path(t, i) ==
    LET path[k \in 0..ilog2_floor(t.slots)] == IF k = 0 THEN Leaf(t, i) ELSE Parent(path[k - 1])
    IN  path

\* The two players who meet in node p if its child c shows player x.
Meeting(t, p, c, x) ==
    IF c = 2 * p + 1 THEN <<x, t.tree[2 * p + 2]>> ELSE <<t.tree[2 * p + 1], x>>

\* A mutant: the game of the root is not played again.
ReplayShort(t, val, i, first) ==
    LET leaf == Leaf(t, i)
    IN  [t EXCEPT !.tree[leaf] = first]

Bout(val, m, wild) == [win |-> Game(val, m[1], m[2]), wild |-> wild \/ Strange(val, m[1], m[2])]
Bouts(t, val, path, first) ==
    LET x[k \in DOMAIN path] ==
            IF k = 0 THEN [win |-> first, wild |-> t.wild]
            ELSE Bout(val, Meeting(t, path[k], path[k - 1], x[k - 1].win), x[k - 1].wild)
    IN  x
Played(t, path, x) ==
    [t EXCEPT !.tree = Value([p \in DOMAIN @ |-> IF \E k \in DOMAIN path : path[k] = p
                                                 THEN x[CHOOSE k \in DOMAIN path : path[k] = p].win ELSE @[p]]),
              !.wild = x[Cardinality(DOMAIN path) - 1].wild]
ReplayOn(t, val, path, first) == Played(t, path, Bouts(t, val, path, first))

\* Player i, or nobody, comes up from the leaf.
Replay(t, val, i, first) == ReplayOn(t, val, Path(t, i), first)

replay_on_change(t, val, i) == Replay(t, val, i, i)
notify_change(t, val, i) == replay_on_change(t, val, i)
replay_on_pop(t, val) == replay_on_change(t, val, top(t))

deactivate_player(t, val, i) == Replay(t, val, i, Inv)
replay_on_deactivations(t, val, i) == Replay(t, val, i, Inv)

\* Player i disappears from the nodes it has won.
deactivate_player_step(t, i) ==
    LET path == Path(t, i)
        won == {path[k] : k \in {k \in DOMAIN path : \A j \in 0..k : t.tree[path[j]] = i}}
    IN  [t EXCEPT !.tree = Value([p \in DOMAIN @ |-> IF p \in won \/ (p = 0 /\ @[0] = i) THEN Inv ELSE @[p]])]

rebuild(t, val) ==
    LET x[p \in DOMAIN t.tree] ==
            IF p >= t.slots - 1 THEN t.tree[p] ELSE Game(val, x[2 * p + 1], x[2 * p + 2])
        strange == \E p \in 0..(t.slots - 2) : Strange(val, x[2 * p + 1], x[2 * p + 2])
    IN  [t EXCEPT !.tree = Value(x), !.wild = @ \/ strange]

---------------------------------------------------------------------------
(* The slots.                                                              *)

\* The index of the copying loop is unsigned, so that the loop does not end
\* after index 0: the next one is 2^Width - 1, which is >= 0, too.
double_num_slots(t) ==
    LET new == winner_tree(2 * t.slots)
        from(p) == p - 2^(ilog2_floor(p + 1) - 1)       \* the old node, if p is in the left half
        left(p) == p > 0 /\ p + 1 < 3 * 2^(ilog2_floor(p + 1) - 1)
        next == (0 - 1) % 2^Width
    IN  [new EXCEPT !.tree = [p \in DOMAIN @ |-> IF p = 0 THEN t.tree[0]
                                                 ELSE IF left(p) THEN t.tree[from(p)] ELSE Inv],
                    !.wild = t.wild \/ (next >= 0 /\ next \notin DOMAIN new.tree)]

\* while (index >= m_num_slots) double_num_slots()
RECURSIVE Grown(_, _)
Grown(t, i) == IF i < t.slots THEN t ELSE Grown(double_num_slots(t), i)

activate_player(t, val, i) == replay_on_change(Grown(t, i), val, i)
Enter(t, i) == [t EXCEPT !.tree[Leaf(t, i)] = i]
activate_without_replay(t, i) == Enter(Grown(t, i), i)
deactivate_without_replay(t, i) == [t EXCEPT !.tree[Leaf(t, i)] = Inv]

clear(t) == [t EXCEPT !.tree = [p \in DOMAIN @ |-> Inv]]
resize_and_clear(t, n) == [winner_tree(n) EXCEPT !.wild = t.wild]

FirstPlayers(t, n) ==
    [t EXCEPT !.tree = Value([p \in DOMAIN @ |-> IF p >= t.slots - 1 /\ p - (t.slots - 1) < n
                                                 THEN p - (t.slots - 1) ELSE Inv])]
resize_and_rebuild(t, val, n) == rebuild(FirstPlayers(resize_and_clear(t, n), n), val)

---------------------------------------------------------------------------
(* A tree and its players.                                                 *)

Ids == 0..(Players - 1)
Active == DOMAIN obj.val
With(f, i, x) == [j \in DOMAIN f \cup {i} |-> IF j = i THEN x ELSE f[j]]
Drop(f, S) == [j \in DOMAIN f \ S |-> f[j]]

InitObj == {[t |-> winner_tree(n), val |-> <<>>] : n \in 1..Players}
Init == obj \in InitObj /\ ref = 0

Fits(i) == "grow" \notin May => i < obj.t.slots
Put(t, val) == obj' = [t |-> t, val |-> val] /\ UNCHANGED ref

Activate == \E i \in Ids \ Active, k \in Keys :
    /\ Fits(i)
    /\ LET val == With(obj.val, i, k) IN Put(activate_player(obj.t, val, i), val)

Change == \E i \in Active, k \in Keys :
    LET val == With(obj.val, i, k) IN Put(notify_change(obj.t, val, i), val)

Pop == \E k \in Keys :
    /\ ~empty(obj.t)
    /\ LET val == With(obj.val, top(obj.t), k) IN Put(replay_on_pop(obj.t, val), val)

Deactivate == \E i \in Active :
    LET val == Drop(obj.val, {i}) IN Put(deactivate_player(obj.t, val, i), val)

\* First all of a batch take the step, then their games are played again.
DeactivateBatch == \E S \in SUBSET Active :
    /\ S # {}
    /\ LET val == Drop(obj.val, S)
           step == FoldSet(LAMBDA i, t : deactivate_player_step(t, i), obj.t, S)
       IN  Put(FoldSet(LAMBDA i, t : replay_on_deactivations(t, val, i), step, S), val)

\* Any players come and go, and all games are played.
Rebuild == \E S \in SUBSET Ids, k \in Keys :
    /\ \A i \in S : Fits(i)
    /\ LET val == [i \in S |-> IF i \in Active THEN obj.val[i] ELSE k]
           on == FoldSet(LAMBDA i, t : activate_without_replay(t, i), obj.t, S)
           off == FoldSet(LAMBDA i, t : deactivate_without_replay(t, i), on, Active \ S)
       IN  Put(rebuild(off, val), val)

Resize == \E n \in 1..Players, f \in [0..1 -> Keys] :
    LET val == [i \in 0..(n - 1) |-> IF i \in Active THEN obj.val[i] ELSE f[i % 2]]
    IN  Put(resize_and_rebuild(obj.t, val, n), val)

Clear == Put(clear(obj.t), <<>>) \/ \E n \in 1..Players : Put(resize_and_clear(obj.t, n), <<>>)

Next == Activate \/ Change \/ Pop \/ Deactivate \/ DeactivateBatch \/ Rebuild \/ Resize \/ Clear

TypeOK ==
    /\ obj.t.slots \in {2^k : k \in 0..ilog2_ceil(Players)}
    /\ obj.t.tree \in [0..(2 * obj.t.slots - 2) -> Ids \cup {Inv}]
    /\ Active \subseteq Ids

(***************************************************************************)
(* The winner is the active player with the smallest key, and every game   *)
(* on the way is won by the smaller one of its two players, whatever       *)
(* mixture of replays, batches and rebuilds came before.                   *)
(***************************************************************************)
WinnerRight ==
    /\ empty(obj.t) <=> Active = {}
    /\ ~empty(obj.t) => top(obj.t) \in Active /\ \A i \in Active : obj.val[top(obj.t)] <= obj.val[i]
    /\ \A p \in 0..(obj.t.slots - 2) :
           obj.t.tree[p] = Game(obj.val, obj.t.tree[2 * p + 1], obj.t.tree[2 * p + 2])

\* "Doubles the number of slots and adapts the tree so it's a valid winner
\* tree again" (winner_tree.h, double_num_slots): the tree is valid and only
\* nodes and players that exist were touched.
TreeValid == ~obj.t.wild /\ WinnerRight

---------------------------------------------------------------------------
(* swap_vector and swap_remove_if: a vector that only swaps its values.    *)
(* What lies behind its size stays there as a value nobody wants, and      *)
(* comes back by swap_back and resize.                                     *)

Default == 0       \* a default-constructed value

NewVector(size, capacity) == [arr |-> [i \in 1..capacity |-> Default], size |-> size]
Content(v) == SubSeq(v.arr, 1, v.size)

SwapAt(a, i, j) == [a EXCEPT ![i] = a[j], ![j] = a[i]]

\* The values move to the larger array, what is behind them does not.
reserve(v, n) ==
    IF n > Len(v.arr) THEN [v EXCEPT !.arr = [i \in 1..n |-> IF i <= v.size THEN v.arr[i] ELSE Default]]
    ELSE v

resize(v, n) == [reserve(v, n) EXCEPT !.size = n]

GrowTo(v) == IF v.size + 1 > Len(v.arr) THEN (IF Len(v.arr) > 1 THEN 2 * Len(v.arr) ELSE 2) ELSE Len(v.arr)

swap_back(v, x) ==
    LET r == reserve(v, GrowTo(v))
    IN  [arr |-> [i \in 1..Len(r.arr) |-> IF i = v.size + 1 THEN x ELSE r.arr[i]], size |-> v.size + 1]

vector_clear(v) == [v EXCEPT !.size = 0]

\* Positions count from 0: the values last .. end - 1 are swapped forward to first.
SwapForward(a, first, last, end) ==
    LET s[k \in 0..(end - last)] == IF k = 0 THEN a ELSE SwapAt(s[k - 1], first + k, last + k)
    IN  s[end - last]

erase(v, first, last) ==
    [arr |-> IF last < v.size - 1 THEN SwapForward(v.arr, first, last, v.size) ELSE v.arr,
     size |-> v.size - (last - first)]

\* A mutant: a value is copied, not swapped.
RemoveCopy(v, bad) ==
    LET s[i \in 0..v.size] ==
            IF i = 0 THEN [a |-> v.arr, n |-> 0]
            ELSE IF s[i - 1].a[i] \in bad THEN s[i - 1]
            ELSE [a |-> [s[i - 1].a EXCEPT ![i] = s[i - 1].a[1]], n |-> s[i - 1].n + 1]
    IN  s[v.size]

\* The array, and how many of its values are kept.
swap_remove_if(v, bad) ==
    LET s[i \in 0..v.size] ==
            IF i = 0 THEN [a |-> v.arr, n |-> 0]
            ELSE IF s[i - 1].a[i] \in bad THEN s[i - 1]
            ELSE [a |-> SwapAt(s[i - 1].a, i, s[i - 1].n + 1), n |-> s[i - 1].n + 1]
    IN  s[v.size]

---------------------------------------------------------------------------

InitVector == {NewVector(s, c) : s \in 0..1, c \in 1..2}
VectorInit == obj \in InitVector /\ ref = Content(obj)

\* Values are objects: none is in the vector twice.
Push == \E x \in Values :
    /\ obj.size < MaxSize /\ x \notin ToSet(ref)
    /\ obj' = swap_back(obj, x)
    /\ ref' = Append(ref, x)

Erase == \E first \in 0..(obj.size - 1), last \in 1..obj.size :
    /\ first < last
    /\ "last" \notin May => last # obj.size - 1
    /\ obj' = erase(obj, first, last)
    /\ ref' = SubSeq(ref, 1, first) \o SubSeq(ref, last + 1, Len(ref))

RemoveIf == \E bad \in SUBSET Values :
    /\ bad # {}
    /\ LET r == swap_remove_if(obj, bad) IN obj' = erase([obj EXCEPT !.arr = r.a], r.n, obj.size)
    /\ ref' = SelectSeq(ref, LAMBDA x : x \notin bad)

\* The vector grows by default values, or gets shorter.
ResizeVector == \E n \in 0..MaxSize :
    /\ obj' = resize(obj, n)
    /\ ref' = Content(obj')

ClearVector == obj' = vector_clear(obj) /\ ref' = <<>>

VectorNext == Push \/ Erase \/ RemoveIf \/ ResizeVector \/ ClearVector

VectorTypeOK == obj.size \in 0..Len(obj.arr) /\ obj.arr \in Seq(Values \cup {Default})

\* The vector holds what was swapped in and not erased or removed, in that
\* order: "Erase the elements at in the range [begin,last)" (erase).
VectorHolds == Content(obj) = ref
=============================================================================
