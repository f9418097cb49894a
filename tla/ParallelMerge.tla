----------------------------- MODULE ParallelMerge -----------------------------
(***************************************************************************)
(* Merging and sorting of bits/parallel.  First the sequential routines    *)
(* (MergeInit, MergeNext): the loser trees (losertree.h), the merging of   *)
(* two sequences (merge.h) and of several (multiway_merge.h).  An element  *)
(* is <<key, sequence, position>>, and comp looks at the key alone.  A     *)
(* merge in progress is a record:                                          *)
(*   seqs  what the merge has not taken of the sequences,                  *)
(*   out   what it has written,    left  how many elements it still wants, *)
(*   past  what a read of the cell behind a sequence yields: the sentinel, *)
(*         or whatever lies there,                                         *)
(*   bad   an element was taken from a sequence that has none left.        *)
(* Sequences count from 1; 0 is the source -1 of an unused leaf.           *)
(***************************************************************************)
EXTENDS Integers, Sequences, FiniteSets, FiniteSetsExt, SequencesExt, TLC

CONSTANTS Inputs,       \* tuples of sorted sequences of keys
          Settings,     \* values of SETTINGS::multiway_merge_algorithm
          Lengths,      \* how many elements one call merges, at most
          Sup,          \* a key above all keys: the sentinel
          May,          \* the kinds of merges and jobs that are taken though they go wrong
          Merges,       \* [keys, length]: sequences of keys, and what to merge of them
          Sorts,        \* sequences of keys
          Threads,      \* SETTINGS::num_threads
          Oversampling, \* merge_oversampling, sort_mwms_oversampling
          Splittings,   \* subset of {"sampling", "exact"}
          CopyLasts,    \* STXXL_MULTIWAY_MERGESORT_COPY_LAST
          Stables,      \* is the merge or the sort a stable one
          Null

VARIABLES obj, ref

vars == <<obj, ref>>

comp(a, b) == a[1] < b[1]

Iterate(op(_), n, x) ==
    LET f[i \in 0..n] == IF i = 0 THEN x ELSE op(f[i - 1]) IN f[n]

Total(seqs) == MapThenSumSet(LAMBDA s : Len(seqs[s]), DOMAIN seqs)

Peek(m, s) == IF m.seqs[s] = <<>> THEN m.past ELSE m.seqs[s][1]

(* The element at the head of sequence s goes to the target.               *)
Take(m, s) ==
    IF s = 0 \/ (s # 0 /\ m.seqs[s] = <<>>) THEN [m EXCEPT !.bad = TRUE, !.left = 0]
    ELSE [m EXCEPT !.out = Append(@, Head(m.seqs[s])), !.seqs[s] = Tail(@), !.left = @ - 1]

(* The n first elements of sequence s, at once (std::copy).                *)
Copy(m, s, n) ==
    IF n > Len(m.seqs[s]) THEN [m EXCEPT !.bad = TRUE, !.left = 0]
    ELSE [m EXCEPT !.out = @ \o SubSeq(m.seqs[s], 1, n),
                   !.seqs[s] = SubSeq(@, n + 1, Len(@)), !.left = @ - n]

-----------------------------------------------------------------------------
(* Two sequences.                                                          *)

AdvanceStep(m, a, b) ==
    IF m.left = 0 \/ m.seqs[a] = <<>> \/ m.seqs[b] = <<>> THEN m
    ELSE IF comp(Head(m.seqs[b]), Head(m.seqs[a])) THEN Take(m, b) ELSE Take(m, a)

CopyRest(m, a, b) == Copy(m, IF m.seqs[a] # <<>> THEN a ELSE b, m.left)
merge_advance_movc(m, a, b) == CopyRest(Iterate(LAMBDA x : AdvanceStep(x, a, b), m.left, m), a, b)

merge_advance(m, a, b) == merge_advance_movc(m, a, b)

-----------------------------------------------------------------------------
(* Loser trees.  A player is [sup, source, key]; unguarded trees have no   *)
(* sup.  Node 0 holds the winner, 1..k-1 the losers.                       *)

round_up_to_power_of_two(n) == CHOOSE p \in {1, 2, 4, 8, 16} : p >= n /\ p < 2 * n

Player(sup, source, key) == [sup |-> sup, source |-> source, key |-> key]

(* insert_start for every sequence: leaves without a sequence are sup.     *)
GuardedLeaves(m, arbitrary) ==
    LET ik == Len(m.seqs)
        k == round_up_to_power_of_two(ik)
    IN  [i \in k..(2 * k - 1) |->
            IF i - k >= ik THEN Player(TRUE, 0, arbitrary)
            ELSE LET s == i - k + 1
                 IN  Player(m.seqs[s] = <<>>, s, IF m.seqs[s] = <<>> THEN arbitrary ELSE Peek(m, s))]

(* Without guards they hold the sentinel.                                  *)
UnguardedLeaves(m, sentinel) ==
    LET ik == Len(m.seqs)
        k == round_up_to_power_of_two(ik)
    IN  [i \in k..(2 * k - 1) |->
            IF i - k >= ik THEN Player(FALSE, 0, sentinel)
            ELSE Player(FALSE, i - k + 1, Peek(m, i - k + 1))]

LeftWins(l, r) == r.sup \/ (~l.sup /\ ~comp(r.key, l.key))

init_winner(leaf) ==
    LET k == Cardinality(DOMAIN leaf)
        w[n \in 1..(2 * k - 1)] ==
            IF n >= k THEN leaf[n]
            ELSE IF LeftWins(w[2 * n], w[2 * n + 1]) THEN w[2 * n] ELSE w[2 * n + 1]
        Loser(n) == IF LeftWins(w[2 * n], w[2 * n + 1]) THEN w[2 * n + 1] ELSE w[2 * n]
    IN  [n \in 0..(k - 1) |-> IF n = 0 THEN w[1] ELSE Loser(n)]

(* The trees as insert_start and init leave them: one holds copies of the  *)
(* elements, the other points to them.                                     *)
LoserTreeCopyBase(m, arbitrary) == init_winner(GuardedLeaves(m, arbitrary))
LoserTreePointerBase(m, arbitrary) == init_winner(GuardedLeaves(m, arbitrary))
LoserTreeCopyUnguardedBase(m, sentinel) == init_winner(UnguardedLeaves(m, sentinel))
LoserTreePointerUnguardedBase(m, sentinel) == init_winner(UnguardedLeaves(m, sentinel))

(* When the loser n of a node beats the player x that comes up, in the     *)
(* four trees and their stable forms.                                      *)
LoserTreeCopy(n, x) == x.sup \/ (~n.sup /\ comp(n.key, x.key))
LoserTreePointer(n, x) == x.sup \/ (~n.sup /\ comp(n.key, x.key))
LoserTreeCopyUnguarded(n, x) == comp(n.key, x.key)
LoserTreePointerUnguarded(n, x) == comp(n.key, x.key)

StableLess(n, x) == comp(n.key, x.key) \/ (~comp(x.key, n.key) /\ n.source < x.source)

LoserTreeCopyStable(n, x) ==
    \/ x.sup /\ (~n.sup \/ n.source < x.source)
    \/ ~x.sup /\ ~n.sup /\ StableLess(n, x)
LoserTreePointerStable(n, x) ==
    \/ x.sup /\ (~n.sup \/ n.source < x.source)
    \/ ~x.sup /\ ~n.sup /\ StableLess(n, x)
LoserTreeCopyUnguardedStable(n, x) == ~comp(x.key, n.key) /\ n.source < x.source
LoserTreePointerUnguardedStable(n, x) == StableLess(n, x)

(* loser_tree_traits: integers are copied, anything else is pointed to.    *)
loser_tree_traits(stable, ints, n, x) ==
    IF ints THEN IF stable THEN LoserTreeCopyStable(n, x) ELSE LoserTreeCopy(n, x)
    ELSE IF stable THEN LoserTreePointerStable(n, x) ELSE LoserTreePointer(n, x)

loser_tree_traits_unguarded(stable, ints, n, x) ==
    IF ints
    THEN IF stable THEN LoserTreeCopyUnguardedStable(n, x) ELSE LoserTreeCopyUnguarded(n, x)
    ELSE IF stable THEN LoserTreePointerUnguardedStable(n, x) ELSE LoserTreePointerUnguarded(n, x)

Climb(st, Beats(_, _)) ==
    IF st.pos = 0 THEN st
    ELSE IF Beats(st.t[st.pos], st.x)
         THEN [t |-> [st.t EXCEPT ![st.pos] = st.x], x |-> st.t[st.pos], pos |-> st.pos \div 2]
         ELSE [st EXCEPT !.pos = @ \div 2]

(* The player x replaces the winner and plays its way up.                  *)
AtRoot(st) == [st.t EXCEPT ![0] = st.x]
delete_min_insert(t, x, Beats(_, _)) ==
    AtRoot(Iterate(LAMBDA st : Climb(st, Beats), 4,
                   [t |-> t, x |-> x, pos |-> (Cardinality(DOMAIN t) + x.source - 1) \div 2]))

GuardedStep(stable, ints, arbitrary, st) ==
    LET s == st.t[0].source
        m == Take(st.m, s)
        x == IF m.bad \/ m.seqs[s] = <<>> THEN Player(TRUE, s, arbitrary) ELSE Player(FALSE, s, Peek(m, s))
    IN  IF st.m.left = 0 \/ m.bad THEN [st EXCEPT !.m.left = 0, !.m.bad = @ \/ (st.m.left # 0 /\ m.bad)]
        ELSE [m |-> m, t |-> delete_min_insert(st.t, x,
                 LAMBDA n, p : loser_tree_traits(stable, ints, n, p))]

multiway_merge_loser_tree(m, stable, ints) ==
    LET some == {s \in DOMAIN m.seqs : m.seqs[s] # <<>>}
        arbitrary == IF some = {} THEN m.past ELSE Peek(m, Min(some))
        n == Min({Total(m.seqs), m.left})
        start == [m |-> [m EXCEPT !.left = n],
                  t |-> IF ints THEN LoserTreeCopyBase(m, arbitrary) ELSE LoserTreePointerBase(m, arbitrary)]
    IN  Iterate(LAMBDA st : GuardedStep(stable, ints, arbitrary, st), n, start).m

UnguardedStep(stable, ints, st) ==
    LET s == st.t[0].source
        m == Take(st.m, s)
    IN  IF st.m.left = 0 \/ m.bad THEN [st EXCEPT !.m.left = 0, !.m.bad = @ \/ (st.m.left # 0 /\ m.bad)]
        ELSE [m |-> m, t |-> delete_min_insert(st.t, Player(FALSE, s, Peek(m, s)),
                 LAMBDA n, p : loser_tree_traits_unguarded(stable, ints, n, p))]

(* sentinel is the last element of the first sequence.                     *)
multiway_merge_loser_tree_unguarded(m, stable, ints, sentinel) ==
    LET start == [m |-> m, t |-> IF ints THEN LoserTreeCopyUnguardedBase(m, sentinel)
                                     ELSE LoserTreePointerUnguardedBase(m, sentinel)]
    IN  Iterate(LAMBDA st : UnguardedStep(stable, ints, st), m.left, start).m

-----------------------------------------------------------------------------
(* Three and four sequences: the order of the heads is kept in the         *)
(* position in the code.                                                   *)

(* a < b, or a <= b: an exhausted sequence is above all others.            *)
guarded_iterator(m, a, b, orEqual) ==
    IF orEqual THEN m.seqs[a] # <<>> /\ (m.seqs[b] = <<>> \/ ~comp(Peek(m, b), Peek(m, a)))
    ELSE IF m.seqs[a] = <<>> THEN m.seqs[b] = <<>>
    ELSE m.seqs[b] = <<>> \/ comp(Peek(m, a), Peek(m, b))

unguarded_iterator(m, a, b, orEqual) ==
    IF orEqual THEN ~comp(Peek(m, b), Peek(m, a)) ELSE comp(Peek(m, a), Peek(m, b))

Less(m, g, a, b) == IF g THEN guarded_iterator(m, a, b, FALSE) ELSE unguarded_iterator(m, a, b, FALSE)
LessEqual(m, g, a, b) == IF g THEN guarded_iterator(m, a, b, TRUE) ELSE unguarded_iterator(m, a, b, TRUE)

StaysBeforeLess(m, g, a, b) == Less(m, g, a, b)

(* Ties go to the sequence of the smaller number (the c0, c1, c2 of the    *)
(* macros).                                                                *)
StaysBefore(m, g, a, b) == IF a < b THEN LessEqual(m, g, a, b) ELSE Less(m, g, a, b)

Order3(m, g) ==
    IF LessEqual(m, g, 1, 2)
    THEN IF LessEqual(m, g, 2, 3) THEN <<1, 2, 3>>
         ELSE IF Less(m, g, 3, 1) THEN <<3, 1, 2>> ELSE <<1, 3, 2>>
    ELSE IF LessEqual(m, g, 2, 3)
         THEN IF LessEqual(m, g, 1, 3) THEN <<2, 1, 3>> ELSE <<2, 3, 1>>
         ELSE <<3, 2, 1>>

(* STXXL_DECISION: the fourth sequence goes before the first larger one.   *)
Inserted(o, i) == SubSeq(o, 1, i - 1) \o <<4>> \o SubSeq(o, i, 3)
InsertFourth(m, g, o) == Inserted(o, Min({j \in 1..3 : Less(m, g, 4, o[j])} \cup {4}))
Order4(m, g) == InsertFourth(m, g, Order3(m, g))

(* STXXL_MERGE3CASE, STXXL_MERGE4CASE: the first sequence gives its head   *)
(* and moves behind the sequences it no longer stays before.               *)
MovedBehind(o, i) == SubSeq(o, 2, i - 1) \o <<o[1]>> \o SubSeq(o, i, Len(o))
MoveBack(m, g, o) == MovedBehind(o, Min({j \in 2..Len(o) : StaysBefore(m, g, o[1], o[j])} \cup {Len(o) + 1}))
CaseStep(g, st) ==
    IF st.m.left = 0 THEN st
    ELSE LET m == Take(st.m, st.o[1]) IN [m |-> m, o |-> MoveBack(m, g, st.o)]

multiway_merge_3_variant(m, g) ==
    IF m.left = 0 THEN m
    ELSE Iterate(LAMBDA st : CaseStep(g, st), m.left, [m |-> m, o |-> Order3(m, g)]).m

multiway_merge_4_variant(m, g) ==
    IF m.left = 0 THEN m
    ELSE Iterate(LAMBDA st : CaseStep(g, st), m.left, [m |-> m, o |-> Order4(m, g)]).m

-----------------------------------------------------------------------------
(* The head elements in a sorted array.                                    *)

SinkLess(stable, x, y) == comp(x.key, y.key) \/ (stable /\ ~comp(y.key, x.key) /\ x.source < y.source)

SinkOnce(stable, q) ==
    IF Len(q) < 2 THEN q ELSE <<q[2], q[1]>> \o SubSeq(q, 3, Len(q))

(* The first of q goes behind all that belong before it.                   *)
SinkDown(stable, q) ==
    IF q = <<>> THEN q
    ELSE LET i == Min({j \in 2..Len(q) : ~SinkLess(stable, q[j], q[1])} \cup {Len(q) + 1})
         IN  SubSeq(q, 2, i - 1) \o <<q[1]>> \o SubSeq(q, i, Len(q))

KeepsFirst(stable, q) ==
    \/ Len(q) = 1
    \/ IF stable /\ q[1].source > q[2].source THEN comp(q[1].key, q[2].key) ELSE ~comp(q[2].key, q[1].key)

BubbleStep(stable, st) ==
    IF st.m.left = 0 \/ st.q = <<>> THEN st
    ELSE IF ~KeepsFirst(stable, st.q) THEN [st EXCEPT !.q = SinkDown(stable, @)]
    ELSE LET s == st.q[1].source
             m == Take(st.m, s)
         IN  IF m.seqs[s] = <<>> THEN [m |-> m, q |-> SinkDown(stable, Tail(st.q))]
             ELSE [m |-> m, q |-> <<Player(FALSE, s, Peek(m, s))>> \o Tail(st.q)]

multiway_merge_bubble(m, stable) ==
    LET heads == {Player(FALSE, s, Peek(m, s)) : s \in {t \in DOMAIN m.seqs : m.seqs[t] # <<>>}}
        Rank(x) == Cardinality({y \in heads : SinkLess(TRUE, y, x)})
        sorted == [i \in 1..Cardinality(heads) |-> CHOOSE x \in heads : Rank(x) = i - 1]
    IN  Iterate(LAMBDA st : BubbleStep(stable, st), 2 * m.left, [m |-> m, q |-> sorted]).m

-----------------------------------------------------------------------------
(* How long no sequence runs empty, and which one does first.              *)

LowerBound(q, x) == Cardinality({i \in DOMAIN q : comp(q[i], x)})
UpperBound(q, x) == Cardinality({i \in DOMAIN q : ~comp(x, q[i])})

KeepAll(stable, q, x, s, min) == UpperBound(q, x)

(* How many elements of q, sequence s, come before min runs empty.         *)
Keep(stable, q, x, s, min) == IF stable /\ s <= min THEN UpperBound(q, x) ELSE LowerBound(q, x)

prepare_unguarded(stable, seqs) ==
    LET last(s) == seqs[s][Len(seqs[s])]
        min == Min({s \in DOMAIN seqs : \A t \in DOMAIN seqs : ~comp(last(t), last(s))})
        empty == {s \in DOMAIN seqs : seqs[s] = <<>>}
    IN  IF empty # {} THEN [empty |-> TRUE, min |-> Min(empty), safe |-> 0]
        ELSE [empty |-> FALSE, min |-> min,
              safe |-> MapThenSumSet(LAMBDA s : Keep(stable, seqs[s], last(min), s, min), DOMAIN seqs)]

(* First without guards as far as that is safe, then the rest.             *)
Unsafe(m, left) == [m EXCEPT !.left = IF m.bad THEN 0 ELSE left]
UpTo(m, n, Merge(_)) == Unsafe(Merge([m EXCEPT !.left = n]), m.left - n)
Unguarded(m, p, Merge(_)) == IF p.empty THEN m ELSE UpTo(m, Min({m.left, p.safe}), Merge)

Without(k, n) == [i \in 1..(n - 1) |-> IF i < k THEN i ELSE i + 1]
PreparedThree(m, p) ==
    LET two == Without(p.min, 3)
    IN  merge_advance(Unguarded(m, p, LAMBDA x : multiway_merge_3_variant(x, FALSE)), two[1], two[2])
multiway_merge_3_combined(m) == PreparedThree(m, prepare_unguarded(TRUE, m.seqs))

PutBack(m, k, q) == [m EXCEPT !.seqs = SubSeq(@, 1, k - 1) \o <<q>> \o SubSeq(@, k, 3)]
ThreeLeft(m, k) ==
    PutBack(multiway_merge_3_variant([m EXCEPT !.seqs = [i \in 1..3 |-> @[Without(k, 4)[i]]]], TRUE), k, m.seqs[k])
PreparedFour(m, p) == ThreeLeft(Unguarded(m, p, LAMBDA x : multiway_merge_4_variant(x, FALSE)), p.min)
multiway_merge_4_combined(m) == PreparedFour(m, prepare_unguarded(TRUE, m.seqs))

multiway_merge_loser_tree_combined(m, stable, ints) ==
    multiway_merge_loser_tree(
        Unguarded(m, prepare_unguarded(stable, m.seqs), LAMBDA x :
            multiway_merge_loser_tree_unguarded(x, stable, ints, m.seqs[1][Len(m.seqs[1])])), stable, ints)

multiway_merge_loser_tree_sentinel(m, stable, ints) ==
    multiway_merge_loser_tree_unguarded(m, stable, ints, m.past)

-----------------------------------------------------------------------------
(* The switch over the number of sequences and the algorithm.              *)
sequential_multiway_merge(m, stable, ints, sentinels, setting) ==
    LET k == Len(m.seqs)
        mwma == IF ~sentinels /\ setting = "sentinel" THEN "combined" ELSE setting
    IN  CASE k = 0 -> m
          [] k = 1 -> Copy(m, 1, m.left)
          [] k = 2 -> merge_advance(m, 1, 2)
          [] k = 3 -> IF mwma = "combined" THEN multiway_merge_3_combined(m)
                      ELSE multiway_merge_3_variant(m, mwma # "sentinel")
          [] k = 4 -> IF mwma = "combined" THEN multiway_merge_4_combined(m)
                      ELSE multiway_merge_4_variant(m, mwma # "sentinel")
          [] OTHER -> CASE mwma = "bubble" -> multiway_merge_bubble(m, stable)
                        [] mwma = "tree" -> multiway_merge_loser_tree(m, stable, ints)
                        [] mwma = "combined" -> multiway_merge_loser_tree_combined(m, stable, ints)
                        [] mwma = "sentinel" -> multiway_merge_loser_tree_sentinel(m, stable, ints)

-----------------------------------------------------------------------------
(* multiway_merge, multiway_merge_stable and the versions with sentinels   *)
(* (bits/parallel/multiway_merge.h, bits/parallel.h) when they do not      *)
(* split the work: obj is the merge, ref the elements its sequences        *)
(* held.  A caller may merge a part of the sequences and come back for     *)
(* more, as the run formation and the priority queues do.                  *)

Element(keys, s, i) == <<keys[s][i], s, i>>
Sequences(keys) == [s \in 1..Len(keys) |-> [i \in 1..Len(keys[s]) |-> Element(keys, s, i)] \o <<>>] \o <<>>

Kinds == [stable : BOOLEAN, ints : BOOLEAN, sentinels : BOOLEAN, setting : Settings]

(* The stable merges of five sequences and more that drop the guards.      *)
GoesWrong(k, keys) ==
    k.stable /\ Len(keys) > 4 /\ (k.setting = "combined" \/ (k.setting = "sentinel" /\ (~k.sentinels \/ k.ints)))

MergeInit == \E keys \in Inputs, k \in Kinds, garbage \in {0, Sup} :
    /\ GoesWrong(k, keys) => "unguarded" \in May
    /\ obj = [kind |-> k, m |-> [seqs |-> Sequences(keys), out |-> <<>>, left |-> 0, bad |-> FALSE,
                                 past |-> <<IF k.sentinels THEN Sup ELSE garbage, 0, 0>>]]
    /\ ref = Sequences(keys)

Merge(k, m, n) ==
    sequential_multiway_merge([m EXCEPT !.left = n], k.stable, k.ints, k.sentinels, k.setting)

Call(stable, sentinels) ==
    \E n \in Lengths :
      /\ ~obj.m.bad
      /\ obj.kind.stable = stable /\ obj.kind.sentinels = sentinels
      /\ n <= Total(obj.m.seqs) /\ (n = 0 => obj.m.out = <<>>)
      /\ obj' = [obj EXCEPT !.m = Merge(obj.kind, obj.m, n)]
      /\ UNCHANGED ref

multiway_merge == Call(FALSE, FALSE)
multiway_merge_stable == Call(TRUE, FALSE)
multiway_merge_sentinels == Call(FALSE, TRUE)
multiway_merge_stable_sentinels == Call(TRUE, TRUE)

MergeNext ==
    \/ multiway_merge
    \/ multiway_merge_stable
    \/ multiway_merge_sentinels
    \/ multiway_merge_stable_sentinels

-----------------------------------------------------------------------------
MergeTypeOK ==
    /\ obj.kind \in Kinds
    /\ obj.m.left = 0
    /\ Len(obj.m.seqs) = Len(ref)

OutOf(s) == SelectSeq(obj.m.out, LAMBDA e : e[2] = s)

(* No element is lost, doubled or moved within its sequence: what was      *)
(* written of a sequence and what is left of it are the sequence, and no   *)
(* merge takes from a sequence that has run empty.                         *)
NothingLost ==
    /\ ~obj.m.bad
    /\ \A s \in DOMAIN ref : OutOf(s) \o obj.m.seqs[s] = ref[s]

(* A merge writes in order, and leaves nothing behind that comes before    *)
(* what it wrote, however the merging is cut into calls.                   *)
OutputSorted ==
    LET out == obj.m.out
    IN  /\ \A i \in 1..(Len(out) - 1) : ~comp(out[i + 1], out[i])
        /\ out # <<>> =>
             \A s \in DOMAIN ref : obj.m.seqs[s] # <<>> => ~comp(Head(obj.m.seqs[s]), out[Len(out)])

(* A stable merge, and any merge of at most four sequences, writes equal   *)
(* elements in the order of their sequences, also across calls.            *)
MergeStable ==
    LET out == obj.m.out
        before(d, e) == d[1] < e[1] \/ (d[1] = e[1] /\ d[2] <= e[2])
    IN  (obj.kind.stable \/ Len(ref) <= 4) =>
          /\ \A i \in 1..(Len(out) - 1) : before(out[i], out[i + 1])
          /\ out # <<>> => \A s \in DOMAIN ref :
               obj.m.seqs[s] # <<>> => before(out[Len(out)], Head(obj.m.seqs[s]))

(***************************************************************************)
(* The parallel routines of bits/parallel: parallel_multiway_merge         *)
(* (multiway_merge.h) and the parallel multiway mergesort                  *)
(* (multiway_mergesort.h), one step per stretch of a thread between two    *)
(* barriers, and the splitting they rest on, called by itself.  obj.job    *)
(* is "split", "merge" or "sort"; ref holds the elements given.            *)
(***************************************************************************)

-----------------------------------------------------------------------------
(* Splitting sorted sequences at a global rank (bits/parallel/             *)
(* multiseq_selection.h, equally_split.h).  A split is, for each sequence, *)
(* the number of its elements on the left.                                 *)

(* lexicographic: by element, then by number of the sequence.              *)
lexicographic(x, i, y, j) == comp(x, y) \/ (~comp(y, x) /\ i < j)

RoundUp(n) == CHOOSE p \in {1, 2, 4, 8, 16, 32} : p >= n /\ p < 2 * n
At(seqs, i, n) == seqs[i][n + 1]

(* The initial partition, by one sample of each sequence.                  *)
InitialPartition(seqs, rank) ==
    LET nmax == Max({Len(seqs[i]) : i \in DOMAIN seqs})
        l == RoundUp(nmax + 1) - 1
        n == l \div 2
        long == {i \in DOMAIN seqs : n < Len(seqs[i])}
        place(i) == Cardinality({j \in long : lexicographic(At(seqs, j, n), j, At(seqs, i, n), i)})
        left == {i \in long : place(i) < rank \div l}
    IN  [n |-> n,
         a |-> [i \in DOMAIN seqs |-> IF i \in left THEN n + 1 ELSE 0],
         b |-> [i \in DOMAIN seqs |-> IF i \in left THEN l ELSE l - (n + 1)]]

(* Every interval is halved: the half below the greatest element on the    *)
(* left joins it.                                                          *)
Halve(seqs, st) ==
    LET n == st.n \div 2
        lefts == {i \in DOMAIN seqs : st.a[i] > 0}
        lmax == CHOOSE x \in {At(seqs, i, st.a[i] - 1) : i \in lefts} :
                    \A i \in lefts : ~comp(x, At(seqs, i, st.a[i] - 1))
        middle(i) == (st.a[i] + st.b[i]) \div 2
        joins(i) == lefts # {} /\ middle(i) < Len(seqs[i]) /\ comp(At(seqs, i, middle(i)), lmax)
    IN  [n |-> n,
         a |-> [i \in DOMAIN seqs |-> IF joins(i) THEN Min({st.a[i] + n + 1, Len(seqs[i])}) ELSE st.a[i]],
         b |-> [i \in DOMAIN seqs |-> IF joins(i) THEN st.b[i] ELSE st.b[i] - (n + 1)]]

Skew(rank, st) ==
    (rank \div (st.n + 1)) - MapThenSumSet(LAMBDA i : st.a[i] \div (st.n + 1), DOMAIN st.a)

(* Too few on the left: the smallest step over.                            *)
MoveLeft(seqs, st) ==
    LET open == {i \in DOMAIN seqs : st.b[i] < Len(seqs[i])}
        i == CHOOSE j \in open : \A k \in open \ {j} :
                lexicographic(At(seqs, j, st.b[j]), j, At(seqs, k, st.b[k]), k)
    IN  IF open = {} THEN st
        ELSE [st EXCEPT !.a[i] = Min({@ + st.n + 1, Len(seqs[i])}), !.b[i] = @ + st.n + 1]

(* Too many: the greatest step back.                                       *)
MoveRight(seqs, st) ==
    LET open == {i \in DOMAIN seqs : st.a[i] > 0}
        i == CHOOSE j \in open : \A k \in open \ {j} :
                lexicographic(At(seqs, k, st.a[k] - 1), k, At(seqs, j, st.a[j] - 1), j)
    IN  IF open = {} THEN st
        ELSE [st EXCEPT !.a[i] = @ - (st.n + 1), !.b[i] = @ - (st.n + 1)]

Balance(seqs, st, skew) ==
    IF skew > 0 THEN Iterate(LAMBDA x : MoveLeft(seqs, x), skew, st)
    ELSE Iterate(LAMBDA x : MoveRight(seqs, x), -skew, st)

RefineNoSkew(seqs, rank, st) == IF st.n = 0 THEN st ELSE Halve(seqs, st)

Refine(seqs, rank, st) ==
    IF st.n = 0 THEN st
    ELSE LET half == Halve(seqs, st) IN Balance(seqs, half, Skew(rank, half))

Split(seqs, rank) == Iterate(LAMBDA st : Refine(seqs, rank, st), 5, InitialPartition(seqs, rank))

multiseq_partition(seqs, rank) ==
    IF rank = Total(seqs) THEN [i \in DOMAIN seqs |-> Len(seqs[i])] ELSE Split(seqs, rank).a

OffsetUpper(seqs, st, x) ==
    MapThenSumSet(LAMBDA i : UpperBound(seqs[i], x) - st.a[i], DOMAIN seqs)

(* The element at the rank, and how many equal ones lie before it.         *)
SelectedOffset(seqs, st, x) ==
    MapThenSumSet(LAMBDA i : st.a[i] - LowerBound(seqs[i], x), DOMAIN seqs)

SelectAt(seqs, st) ==
    LET lefts == {At(seqs, i, st.a[i] - 1) : i \in {j \in DOMAIN seqs : st.a[j] > 0}}
        rights == {At(seqs, i, st.b[i]) : i \in {j \in DOMAIN seqs : st.b[j] < Len(seqs[j])}}
        minright == CHOOSE x \in rights : \A y \in rights : ~comp(y, x)
        lucky == \A x \in lefts : comp(minright, x)
    IN  [key |-> minright[1], offset |-> IF lucky THEN 0 ELSE SelectedOffset(seqs, st, minright)]
multiseq_selection(seqs, rank) == SelectAt(seqs, Split(seqs, rank))

(* p parts of n elements whose sizes differ by at most one.                *)
equally_split(n, p) ==
    [i \in 1..(p + 1) |-> IF i = p + 1 THEN n ELSE (i - 1) * (n \div p) + Min({i - 1, n % p})]

-----------------------------------------------------------------------------
Before(x, y) == x[1] < y[1] \/ (x[1] = y[1] /\ (x[2] < y[2] \/ (x[2] = y[2] /\ x[3] < y[3])))

MergeOf(seqs, n, stable) ==
    sequential_multiway_merge([seqs |-> seqs, out |-> <<>>, left |-> n, bad |-> FALSE, past |-> <<0, 0, 0>>],
                              stable, TRUE, FALSE, "tree")

(* std::sort, std::stable_sort of elements that are all different.         *)
Sorted(q) ==
    LET rank(e) == Cardinality({i \in DOMAIN q : Before(q[i], e)})
    IN  [i \in DOMAIN q |-> CHOOSE e \in Range(q) : rank(e) = i - 1] \o <<>>

NonEmpty(seqs) == SelectSeq(seqs, LAMBDA q : q # <<>>)

(* Exact splitting picks among equal elements at each rank by itself: two  *)
(* ranks within a run of equal elements may disagree, and one may take     *)
(* them out of order.                                                      *)
Flat(seqs) == Sorted(FlattenSeq(seqs))
SplitsWell(all, ranks, stable) ==
    \A q, r \in ranks \cap 1..(Len(all) - 1) :
        q < r \/ (q = r /\ stable) => all[q][1] # all[r + 1][1]

TakesMerge(c, sp, st) ==
    LET all == Flat(Sequences(c.keys))
        p == Min({Threads, Len(all)})
    IN  /\ sp = "sampling" => c.length = Len(all) \/ "part" \in May
        /\ sp = "exact" => SplitsWell(all, Range(equally_split(c.length, p)), st) \/ "ties" \in May

TakesSort(keys, sp, st) ==
    sp = "exact" => \/ SplitsWell(Flat(Sequences(<<keys>>)), Range(equally_split(Len(keys), Min({Threads, Len(keys)}))), st)
                    \/ "ties" \in May

Init ==
    \/ \E c \in Merges, sp \in Splittings, st \in Stables :
         /\ TakesMerge(c, sp, st)
         /\ obj = [job |-> "merge", split |-> sp, stable |-> st, seqs |-> Sequences(c.keys), n |-> c.length,
                   chunks |-> <<>>, target |-> [i \in 1..c.length |-> Null], ran |-> {}, bad |-> FALSE]
         /\ ref = Sequences(c.keys)
    \/ \E keys \in {k \in Sorts : Len(k) > 1}, sp \in Splittings, st \in Stables, cl \in CopyLasts :
         LET p == Min({Threads, Len(keys)})
             src == Sequences(<<keys>>)[1]
         IN  /\ TakesSort(keys, sp, st)
             /\ obj = [job |-> "sort", split |-> sp, stable |-> st, copyLast |-> cl, src |-> src,
                       starts |-> equally_split(Len(keys), p), pc |-> [t \in 1..p |-> "sort"],
                       place |-> [t \in 1..p |-> <<>>], live |-> {}, samples |-> [t \in 1..p |-> <<>>],
                       sorted |-> <<>>, ends |-> [t \in 1..p |-> <<>>], temp |-> [t \in 1..p |-> <<>>],
                       bad |-> FALSE]
             /\ ref = src
    \/ \E c \in Merges :
         /\ obj = [job |-> "split", seqs |-> NonEmpty(Sequences(c.keys)), rank |-> Null,
                   a |-> <<>>, key |-> Null, offset |-> Null, bad |-> FALSE]
         /\ ref = NonEmpty(Sequences(c.keys))
         /\ ref # <<>>

-----------------------------------------------------------------------------
(* The splitting, called by itself.                                        *)

Partition == \E r \in 0..Total(ref) :
    /\ obj.job = "split" /\ obj.rank = Null
    /\ obj' = [obj EXCEPT !.rank = r, !.a = multiseq_partition(ref, r)]
    /\ UNCHANGED ref

Selection ==
    /\ obj.job = "split" /\ obj.rank # Null /\ obj.key = Null
    /\ obj.rank < Total(ref)
    /\ \E sel \in {multiseq_selection(ref, obj.rank)} :
         obj' = [obj EXCEPT !.key = sel.key, !.offset = sel.offset]
    /\ UNCHANGED ref

-----------------------------------------------------------------------------
(* parallel_multiway_merge.                                                *)

(* Samples at equal distances of the part that is to be merged.            *)
MergeSamples(seqs, n, p) ==
    LET total == Total(seqs)
        ns == p * Oversampling
        at(s, i) == (Len(seqs[s]) * i * n) \div ((ns + 1) * total)
    IN  Sorted([j \in 1..(Len(seqs) * ns) |->
            LET s == ((j - 1) \div ns) + 1 i == ((j - 1) % ns) + 1
            IN  <<seqs[s][at(s, i) + 1][1], s, i>>])

parallel_multiway_merge_sampling_splitting(seqs, n, p) ==
    LET samples == MergeSamples(seqs, n, p)
        cut(t, s) == IF t = 0 THEN 0 ELSE IF t = p THEN Len(seqs[s])
                     ELSE UpperBound(seqs[s], samples[((Len(samples) * t) \div p) + 1])
    IN  [t \in 1..p |-> [s \in DOMAIN seqs |-> <<cut(t - 1, s), cut(t, s)>>]]

exact_splitting_tight(seqs, n, p) ==
    LET ranks == equally_split(n, p)
        offsets == [t \in 0..p |->
            IF t = 0 THEN [s \in DOMAIN seqs |-> 0]
            ELSE IF t = p THEN [s \in DOMAIN seqs |-> Len(seqs[s])]
            ELSE multiseq_partition(seqs, ranks[t + 1])]
    IN  [t \in 1..p |-> [s \in DOMAIN seqs |-> <<offsets[t - 1][s], offsets[t][s]>>]]

parallel_multiway_merge_exact_splitting(seqs, n, p) ==
    LET ranks == equally_split(n, p)
        offsets == [t \in 0..p |->
            IF t = 0 THEN [s \in DOMAIN seqs |-> 0]
            ELSE IF t = p THEN IF n = Total(seqs) THEN [s \in DOMAIN seqs |-> Len(seqs[s])]
                               ELSE multiseq_partition(seqs, n)
            ELSE multiseq_partition(seqs, ranks[t + 1])]
    IN  [t \in 1..p |-> [s \in DOMAIN seqs |-> <<offsets[t - 1][s], offsets[t][s]>>]]

(* One thread of the team splits the sequences that are not empty.         *)
SplitChunks ==
    LET seqs == NonEmpty(obj.seqs)
        p == Min({Threads, Total(seqs)})
    IN  /\ obj.job = "merge" /\ obj.chunks = <<>>
        /\ seqs # <<>>
        /\ obj' = [obj EXCEPT !.chunks =
                     IF obj.split = "sampling"
                     THEN parallel_multiway_merge_sampling_splitting(seqs, obj.n, p)
                     ELSE parallel_multiway_merge_exact_splitting(seqs, obj.n, p)]
        /\ UNCHANGED ref

TargetPositionFirst(chunk) == chunk[1][1]

TargetPosition(chunk) == MapThenSumSet(LAMBDA s : chunk[s][1], DOMAIN chunk)
LocalLength(chunk) == MapThenSumSet(LAMBDA s : chunk[s][2] - chunk[s][1], DOMAIN chunk)
Parts(seqs, chunk) == [s \in DOMAIN chunk |-> SubSeq(seqs[s], chunk[s][1] + 1, chunk[s][2])] \o <<>>

(* A thread merges its chunks to their place in the target.                *)
ChunkMerged(chunk, pos) ==
    MergeOf(Parts(NonEmpty(obj.seqs), chunk), Min({LocalLength(chunk), obj.n - pos}), obj.stable)
MergeChunk(iam) ==
    /\ obj.job = "merge" /\ obj.chunks # <<>>
    /\ iam \in DOMAIN obj.chunks \ obj.ran
    /\ LET pos == TargetPosition(obj.chunks[iam])
       IN  \E m \in {ChunkMerged(obj.chunks[iam], pos)} :
             obj' = [obj EXCEPT !.ran = @ \cup {iam}, !.bad = @ \/ m.bad,
                                !.target = [i \in DOMAIN @ |-> IF i \in (pos + 1)..(pos + Len(m.out))
                                                              THEN m.out[i - pos] ELSE @[i]]]
    /\ UNCHANGED ref

(* After the team is done the sequences begin where the last chunk ends.   *)
AdvanceAll ==
    LET last == obj.chunks[Len(obj.chunks)]
        nth(s) == Cardinality({t \in 1..s : obj.seqs[t] # <<>>})
    IN  /\ obj.job = "merge" /\ obj.chunks # <<>>
        /\ obj.ran = DOMAIN obj.chunks
        /\ obj' = [obj EXCEPT !.ran = @ \cup {0},
                     !.seqs = [s \in DOMAIN @ |-> IF @[s] = <<>> THEN <<>>
                                 ELSE SubSeq(@[s], last[nth(s)][2] + 1, Len(@[s]))] \o <<>>]
        /\ UNCHANGED ref

-----------------------------------------------------------------------------
(* parallel_sort_mwms: pc is the stretch a thread is about to run.         *)

Team == DOMAIN obj.pc
Size(t) == obj.starts[t + 1] - obj.starts[t]
Chunk(o, t) == SubSeq(o.src, o.starts[t] + 1, o.starts[t + 1])
Place(o, t) == IF o.copyLast THEN Chunk(o, t) ELSE o.place[t]
Wrote(src, pos, q) == [i \in DOMAIN src |-> IF i \in (pos + 1)..(pos + Len(q)) THEN q[i - pos] ELSE src[i]] \o <<>>
NumSamples == (Oversampling * Cardinality(Team)) - 1

AtBarrier(pcs) == \A t \in Team : obj.pc[t] \in pcs

(* A part shorter than the number of samples is sampled beyond its end,    *)
(* the last one beyond the array, where anything may lie.                  *)
determine_samples(o, t, garbage) ==
    LET at(i) == o.starts[t] + equally_split(Size(t), NumSamples + 1)[i + 1] + 1
    IN  [i \in 1..NumSamples |-> IF at(i) > Len(o.src) THEN garbage ELSE o.src[at(i)][1]]

(* The thread copies its part of the input, or stays in it, and sorts it.  *)
LocalSort(t) ==
    LET q == Sorted(Chunk(obj, t))
        o == IF obj.copyLast THEN [obj EXCEPT !.src = Wrote(@, obj.starts[t], q)]
             ELSE [obj EXCEPT !.place[t] = q, !.live = @ \cup {t}]
    IN  /\ obj.job = "sort" /\ obj.pc[t] = "sort"
        /\ \E garbage \in IF t = Cardinality(Team) /\ Size(t) < NumSamples THEN {0, 9} ELSE {0} :
             obj' = [o EXCEPT !.pc[t] = "split",
                              !.samples[t] = IF obj.split = "sampling" THEN determine_samples(o, t, garbage)
                                             ELSE <<>>]
        /\ UNCHANGED ref

(* One thread sorts the samples of all, once all have sampled.             *)
SortSamples ==
    /\ obj.job = "sort" /\ obj.split = "sampling" /\ obj.sorted = <<>>
    /\ AtBarrier({"split"})
    /\ LET all == [j \in 1..(Cardinality(Team) * NumSamples) |->
                      <<obj.samples[((j - 1) \div NumSamples) + 1][((j - 1) % NumSamples) + 1], j, 0>>]
       IN  obj' = [obj EXCEPT !.sorted = Sorted(all)]
    /\ UNCHANGED ref

SampleCut(t, s) ==
    IF t = 0 THEN 0 ELSE IF t = Cardinality(Team) THEN Size(s)
    ELSE LowerBound(Place(obj, s), obj.sorted[(NumSamples * t) + 1])

Sampled(t) == [s \in Team |-> <<SampleCut(t - 1, s), SampleCut(t, s)>>]

(* Exact splitting: the ends of the pieces, then a barrier, then the       *)
(* begins from the ends of the thread before.                              *)
SplitEnds(t) ==
    /\ obj.job = "sort" /\ obj.split = "exact" /\ obj.pc[t] = "split"
    /\ AtBarrier({"split", "ends"})
    /\ obj' = [obj EXCEPT !.pc[t] = "ends",
                 !.ends[t] = IF t = Cardinality(Team) THEN [s \in Team |-> Size(s)]
                             ELSE multiseq_partition([s \in Team |-> Place(obj, s)] \o <<>>, obj.starts[t + 1])]
    /\ UNCHANGED ref

Pieces(t) ==
    IF obj.split = "sampling" THEN Sampled(t)
    ELSE [s \in Team |-> <<IF t = 1 THEN 0 ELSE obj.ends[t - 1][s], obj.ends[t][s]>>]

MergeReady(t) ==
    IF obj.split = "sampling" THEN obj.pc[t] = "split" /\ obj.sorted # <<>>
    ELSE obj.pc[t] = "ends" /\ AtBarrier({"ends", "free"})

PiecesMerged(pc) ==
    MergeOf([s \in Team |-> SubSeq(Place(obj, s), pc[s][1] + 1, pc[s][2])] \o <<>>, LocalLength(pc), obj.stable)

(* The thread merges its pieces of all sorted parts, to the target or to   *)
(* a place of its own.                                                     *)
MergePieces(t) ==
    /\ obj.job = "sort" /\ MergeReady(t)
    /\ \E pc \in {Pieces(t)} : \E m \in {PiecesMerged(pc)} :
         LET o == [obj EXCEPT !.pc[t] = "free", !.ends[t] = [s \in Team |-> pc[s][2]],
                              !.bad = @ \/ m.bad \/ (~obj.copyLast /\ obj.live # Team)]
         IN  obj' = IF obj.copyLast THEN [o EXCEPT !.temp[t] = <<TargetPosition(pc), m.out>>]
                    ELSE [o EXCEPT !.src = Wrote(@, TargetPosition(pc), m.out)]
    /\ UNCHANGED ref

FreeReadyEarly(t) == obj.pc[t] = "free"
FreeReady(t) == obj.pc[t] = "free" /\ AtBarrier({"free", "done"})

(* After a last barrier: copy back, and free what others read.             *)
CopyBack(t) ==
    /\ obj.job = "sort" /\ FreeReady(t)
    /\ LET o == [obj EXCEPT !.pc[t] = "done", !.live = @ \ {t}]
       IN  obj' = IF obj.copyLast THEN [o EXCEPT !.src = Wrote(@, obj.temp[t][1], obj.temp[t][2])] ELSE o
    /\ UNCHANGED ref

Next ==
    \/ Partition \/ Selection
    \/ SplitChunks \/ AdvanceAll \/ SortSamples
    \/ \E t \in 1..Threads :
        \/ MergeChunk(t)
        \/ obj.job = "sort" /\ t \in Team /\ (LocalSort(t) \/ SplitEnds(t) \/ MergePieces(t) \/ CopyBack(t))

Spec == Init /\ [][Next]_vars

-----------------------------------------------------------------------------
TypeOK == obj.job \in {"split", "merge", "sort"} /\ obj.bad \in BOOLEAN

(* multiseq_partition puts exactly rank elements on the left, and none of  *)
(* them is greater than an element on the right.                           *)
PartitionExact ==
    (obj.job = "split" /\ obj.rank # Null) =>
        /\ \A s \in DOMAIN ref : obj.a[s] \in 0..Len(ref[s])
        /\ MapThenSumSet(LAMBDA s : obj.a[s], DOMAIN ref) = obj.rank
        /\ \A s, t \in DOMAIN ref :
             (obj.a[s] > 0 /\ obj.a[t] < Len(ref[t])) => ~comp(ref[t][obj.a[t] + 1], ref[s][obj.a[s]])

(* multiseq_selection yields the element of the rank, and its place among  *)
(* the equal ones.                                                         *)
SelectionRight ==
    (obj.job = "split" /\ obj.key # Null) =>
        LET below == MapThenSumSet(LAMBDA s : LowerBound(ref[s], <<obj.key, 0, 0>>), DOMAIN ref)
            upto == MapThenSumSet(LAMBDA s : UpperBound(ref[s], <<obj.key, 0, 0>>), DOMAIN ref)
        IN  below + obj.offset = obj.rank /\ obj.rank \in below..(upto - 1)

MergeDone == obj.job = "merge" /\ 0 \in obj.ran
TargetOf(s) == SelectSeq(obj.target, LAMBDA e : e[2] = s)

(* Whatever the threads' order, the chunks they merge are disjoint and     *)
(* fill the target: at the end it is sorted, and with what is left of the  *)
(* sequences it makes up the input.                                        *)
ThreadsMerge ==
    MergeDone =>
        /\ ~obj.bad
        /\ \A i \in DOMAIN obj.target : obj.target[i] # Null
        /\ \A i \in 1..(obj.n - 1) : ~comp(obj.target[i + 1], obj.target[i])
        /\ \A s \in DOMAIN ref : TargetOf(s) \o obj.seqs[s] = ref[s]

SortDone == obj.job = "sort" /\ \A t \in DOMAIN obj.pc : obj.pc[t] = "done"

(* Parallel sorting sorts: the array at the end is a sorted permutation of *)
(* the array at the start.                                                 *)
ThreadsSort ==
    SortDone => /\ Range(obj.src) = Range(ref)
                /\ \A i \in 1..(Len(ref) - 1) : ~comp(obj.src[i + 1], obj.src[i])

(* No thread frees or overwrites what another still has to merge.          *)
NoThreadTooEarly ==
    obj.job = "sort" =>
        /\ ~obj.bad
        /\ \A t \in Team : obj.pc[t] \in {"split", "ends"} =>
             Range(Place(obj, t)) = {ref[i] : i \in (obj.starts[t] + 1)..obj.starts[t + 1]}

(* A stable parallel sort keeps equal elements in their order.             *)
SortStable == (SortDone /\ obj.stable) => obj.src = Sorted(ref)
=============================================================================
