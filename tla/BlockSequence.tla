--------------------------- MODULE BlockSequence ---------------------------
(***************************************************************************)
(* stxxl::sequence, with its forward and reverse streams, and              *)
(* stxxl::queue, whose push and pop are those of the sequence's back and   *)
(* front.  The object keeps the first and the last block in memory, in     *)
(* buffers of a read_write_pool; the blocks between them are on disk.      *)
(*                                                                         *)
(* A block is a function on 0..B-1.  Cells that hold no element are Null:  *)
(* an operation that would return one is wrong.  The pool is abstracted to *)
(* the number of buffers taken out of it; that it returns the latest data  *)
(* of a block is the subject of module Pools.                              *)
(***************************************************************************)
EXTENDS Integers, Sequences, SequencesExt

CONSTANTS
    B,          \* block_type::size
    MaxItems,   \* bound: no push beyond this size
    Items,      \* the elements
    blocks2prefetch,
    Null

VARIABLES
    obj,  \* the container object, with a stream on it or Null
    ref   \* what was pushed and not popped, front first

vars == <<obj, ref>>

Cells == 0..(B - 1)
Fresh == [i \in Cells |-> Null]

\* init: one block, front and back at once.
New(kind) == [kind |-> kind, m_size |-> 0, one |-> TRUE, front |-> Fresh, back |-> Fresh,
             fe |-> 0, be |-> -1, bids |-> <<>>, hints |-> {}, stolen |-> 1, strm |-> Null]

\* front_block; one says that front_block = back_block.
FrontBlock(s) == IF s.one THEN s.back ELSE s.front
SetFront(s, i, v) == IF s.one THEN [s EXCEPT !.back[i] = v] ELSE [s EXCEPT !.front[i] = v]

-----------------------------------------------------------------------------
\* Case 1.5: the elements fit into the two blocks in memory.
MovedInMemory(s) == s.m_size < 2 * B

push_back(s, v) ==
    LET gap == s.fe
        moved == [s EXCEPT !.front = [i \in Cells |-> IF i < B - gap THEN s.front[i + gap]
                                                      ELSE s.back[i - (B - gap)]],
                           !.back = [i \in Cells |-> IF i < B - gap THEN s.back[i + gap] ELSE Null],
                           !.fe = 0, !.be = @ - gap]
        \* Case 1: the only block becomes the front block
        split == [s EXCEPT !.front = s.back, !.one = FALSE, !.back = Fresh, !.be = -1,
                           !.stolen = @ + 1]
        \* Case 2: the back block is written; pool->write takes it back
        written == [s EXCEPT !.bids = Append(@, s.back), !.back = Fresh, !.be = -1,
                             !.hints = IF Len(s.bids) + 1 <= blocks2prefetch
                                       THEN @ \cup {s.back} ELSE @]
        t == IF s.be # B - 1 THEN s
             ELSE IF s.one THEN split
             ELSE IF MovedInMemory(s) THEN moved ELSE written
    IN  [t EXCEPT !.be = @ + 1, !.back[t.be + 1] = v, !.m_size = @ + 1]

push_front(s, v) ==
    LET gap == B - (s.be + 1)
        moved == [s EXCEPT !.back = [i \in Cells |-> IF i >= gap THEN s.back[i - gap]
                                                     ELSE s.front[B - gap + i]],
                           !.front = [i \in Cells |-> IF i >= gap THEN s.front[i - gap] ELSE Null],
                           !.fe = @ + gap, !.be = @ + gap]
        split == [s EXCEPT !.front = Fresh, !.one = FALSE, !.fe = B, !.stolen = @ + 1]
        written == [s EXCEPT !.bids = <<s.front>> \o @, !.front = Fresh, !.fe = B,
                             !.hints = IF Len(s.bids) + 1 <= blocks2prefetch
                                       THEN @ \cup {s.front} ELSE @]
        t == IF s.fe # 0 THEN s
             ELSE IF s.m_size = 0 THEN [s EXCEPT !.fe = B, !.be = B - 1]   \* Case 0
             ELSE IF s.one THEN split
             ELSE IF MovedInMemory(s) THEN moved ELSE written
    IN  [SetFront(t, t.fe - 1, v) EXCEPT !.fe = @ - 1, !.m_size = @ + 1]

\* An element leaves its cell; the block it was in is kept.
ClearFront(s) == SetFront(s, s.fe, Null)
ClearBack(s) == [s EXCEPT !.back[s.be] = Null]

\* A mutant: the front is not reset.
ResetHalf(s) == [s EXCEPT !.be = -1, !.m_size = 0]

\* The only block is empty again.
Reset(s) == [s EXCEPT !.be = -1, !.fe = 0, !.m_size = 0]

\* A mutant: one element too early.
OneBlockLeftEarly(t) == t.m_size <= B + 1

\* Case 3 and 4: the rest is in the other block in memory.
OneBlockLeft(t) == t.m_size <= B

pop_front(s) ==
    LET t == [ClearFront(s) EXCEPT !.m_size = @ - 1]
        hinted == {s.bids[i + 1] : i \in 1..(IF blocks2prefetch < Len(s.bids) - 1
                                             THEN blocks2prefetch ELSE Len(s.bids) - 1)}
    IN  IF s.fe # B - 1 THEN [t EXCEPT !.fe = @ + 1]
        ELSE IF s.one THEN Reset(t)
        ELSE IF OneBlockLeft(t)
        THEN [t EXCEPT !.one = TRUE, !.front = Fresh, !.fe = 0, !.stolen = @ - 1]
        ELSE [t EXCEPT !.front = Head(s.bids), !.bids = Tail(@), !.fe = 0,
                       !.hints = (@ \cup hinted) \ {Head(s.bids)}]

pop_back(s) ==
    LET t == [ClearBack(s) EXCEPT !.m_size = @ - 1]
        n == Len(s.bids)
        hinted == {s.bids[n - i] : i \in 1..(IF blocks2prefetch - 1 < n - 2
                                             THEN blocks2prefetch - 1 ELSE n - 2)}
    IN  IF s.be # 0 THEN [t EXCEPT !.be = @ - 1]
        ELSE IF s.one THEN Reset(t)
        ELSE IF OneBlockLeft(t)
        THEN [t EXCEPT !.one = TRUE, !.back = s.front, !.front = Fresh, !.be = B - 1,
                       !.stolen = @ - 1]
        ELSE [t EXCEPT !.back = Last(s.bids), !.bids = Front(@), !.be = B - 1,
                       !.hints = (@ \cup hinted) \ {Last(s.bids)}]

front(s) == FrontBlock(s)[s.fe]
back(s) == s.back[s.be]

\* queue: push and pop are the same code as the sequence's.
QueuePush(s, v) == push_back(s, v)
QueuePop(s) == pop_front(s)

-----------------------------------------------------------------------------
(* The streams: at is the block read, "front", "back" or "own".            *)

Stream(s) == [dir |-> "fwd", size |-> s.m_size, at |-> IF s.one THEN "back" ELSE "front",
              own |-> Fresh, el |-> s.fe, next |-> 1]
ReverseStream(s) == [dir |-> "rev", size |-> s.m_size, at |-> "back",
                     own |-> Fresh, el |-> s.be, next |-> Len(s.bids)]

StreamBlock(s, x) ==
    CASE x.at = "front" -> s.front [] x.at = "back" -> s.back [] x.at = "own" -> x.own
Deref(s, x) == StreamBlock(s, x)[x.el]

\* A mutant: one element too early.
LastBlockEarly(y) == y.size <= B + 1

\* The rest of a stream is in the block at the end of the container.
LastBlock(y) == y.size <= B

\* operator ++ of the forward stream.
StreamNext(s, x) ==
    LET y == [x EXCEPT !.size = @ - 1] IN
    IF x.el # B - 1 THEN [y EXCEPT !.el = @ + 1]
    ELSE IF y.size = 0 THEN y
    ELSE IF LastBlock(y) THEN [y EXCEPT !.at = "back", !.own = Fresh, !.el = 0]
    ELSE [y EXCEPT !.at = "own", !.own = s.bids[x.next], !.el = 0, !.next = @ + 1]

\* operator ++ of the reverse stream.
ReverseNext(s, x) ==
    LET y == [x EXCEPT !.size = @ - 1] IN
    IF x.el # 0 THEN [y EXCEPT !.el = @ - 1]
    ELSE IF y.size = 0 THEN y
    ELSE IF LastBlock(y)
    THEN [y EXCEPT !.at = IF s.one THEN "back" ELSE "front", !.own = Fresh, !.el = B - 1]
    ELSE [y EXCEPT !.at = "own", !.own = s.bids[x.next], !.el = B - 1, !.next = @ - 1]

\* The buffers a stream takes out of the pool (steal) and gives back (add).
OwnBuffers(x) == IF x # Null /\ x.at = "own" THEN 1 ELSE 0

-----------------------------------------------------------------------------
TypeOK ==
    /\ ref \in Seq(Items)
    /\ obj.m_size \in 0..MaxItems /\ obj.fe \in Cells /\ obj.be \in -1..(B - 1)
    /\ obj.one \in BOOLEAN /\ obj.stolen \in 1..3
    /\ \A b \in {obj.front, obj.back} \cup ToSet(obj.bids) : b \in [Cells -> Items \cup {Null}]
    /\ obj.strm = Null \/ obj.strm.size \in 0..MaxItems

Init == obj \in {New("queue"), New("sequence")} /\ ref = <<>>

\* The container is not changed while a stream is on it.
Push(v) ==
    /\ obj.strm = Null /\ Len(ref) < MaxItems
    /\ \/ obj.kind = "queue" /\ obj' = QueuePush(obj, v) /\ ref' = Append(ref, v)
       \/ obj.kind = "sequence" /\ obj' = push_back(obj, v) /\ ref' = Append(ref, v)
       \/ obj.kind = "sequence" /\ obj' = push_front(obj, v) /\ ref' = <<v>> \o ref

Pop ==
    /\ obj.strm = Null /\ ref # <<>>
    /\ \/ obj.kind = "queue" /\ obj' = QueuePop(obj) /\ ref' = Tail(ref)
       \/ obj.kind = "sequence" /\ obj' = pop_front(obj) /\ ref' = Tail(ref)
       \/ obj.kind = "sequence" /\ obj' = pop_back(obj) /\ ref' = Front(ref)

OpenStream ==
    /\ obj.kind = "sequence" /\ obj.strm = Null /\ ref # <<>>
    /\ \E x \in {Stream(obj), ReverseStream(obj)} : obj' = [obj EXCEPT !.strm = x]
    /\ UNCHANGED ref

\* The stream becomes x; buffers it takes or gives back are accounted for.
WithStream(s, x) ==
    [s EXCEPT !.strm = x, !.stolen = @ + OwnBuffers(x) - OwnBuffers(s.strm)]

Advance ==
    /\ obj.strm # Null
    /\ obj.strm.size > 0
    /\ obj' = WithStream(obj, IF obj.strm.dir = "fwd" THEN StreamNext(obj, obj.strm)
                              ELSE ReverseNext(obj, obj.strm))
    /\ UNCHANGED ref

\* A mutant: the stream keeps its buffer.
CloseStreamKeep ==
    /\ obj.strm # Null
    /\ obj' = [obj EXCEPT !.strm = Null]
    /\ UNCHANGED ref

\* ~stream gives a buffer of its own back.
CloseStream ==
    /\ obj.strm # Null
    /\ obj' = WithStream(obj, Null)
    /\ UNCHANGED ref

Next == (\E v \in Items : Push(v)) \/ Pop \/ OpenStream \/ Advance \/ CloseStream

Spec == Init /\ [][Next]_vars

-----------------------------------------------------------------------------
(* Properties. *)

Cut(b, lo, hi) == [i \in 1..(hi - lo + 1) |-> b[lo + i - 1]]
ContentsOf(s) ==
    IF s.one THEN Cut(s.back, s.fe, s.be)
    ELSE Cut(s.front, s.fe, B - 1)
           \o FlattenSeq([i \in 1..Len(s.bids) |-> Cut(s.bids[i], 0, B - 1)])
           \o Cut(s.back, 0, s.be)

\* The container holds what was pushed and not popped, in order, whichever of
\* the cases 0 to 5 its pushes and pops took; its size is right, and front()
\* and back() are the first and the last element.
HoldsPushed ==
    /\ ContentsOf(obj) = ref
    /\ obj.m_size = Len(ref)
    /\ ref # <<>> => front(obj) = Head(ref) /\ back(obj) = Last(ref)

\* If there is a block on disk, there are two in memory and more than a block
\* of elements; a full back block with room in front means that none is on
\* disk.  The asserts of the cases 1.5 to 5 rely on it.
DiskOnlyBetween ==
    /\ obj.bids # <<>> => ~obj.one /\ obj.m_size > B
    /\ ~obj.one => /\ obj.be >= 0 /\ obj.m_size > 0
                   /\ obj.be = B - 1 /\ obj.m_size < 2 * B => obj.bids = <<>> /\ obj.fe > 0

\* Every buffer taken from the pool is the front block, the back block or the
\* stream's own: none is lost and none is given back twice.
BuffersAccounted ==
    obj.stolen = (IF obj.one THEN 1 ELSE 2) + OwnBuffers(obj.strm)

\* A stream shows the elements in order, from the front or from the back.
StreamInOrder ==
    obj.strm # Null /\ obj.strm.size > 0 =>
        Deref(obj, obj.strm) =
            ref[IF obj.strm.dir = "fwd" THEN Len(ref) - obj.strm.size + 1 ELSE obj.strm.size]
=============================================================================
