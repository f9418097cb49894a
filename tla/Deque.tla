------------------------------- MODULE Deque -------------------------------
(***************************************************************************)
(* stxxl::deque: a circular array in a stxxl::vector, which is doubled     *)
(* when it is full, and its random access iterators.  The vector is a      *)
(* function on 0..size-1 here; module PagedVector is about its pages.      *)
(***************************************************************************)
EXTENDS Integers, Sequences, SequencesExt

CONSTANTS
    DefaultSize,  \* the elements of STXXL_DEFAULT_BLOCK_SIZE bytes
    MaxLength,    \* bound: no growth beyond this size
    DValues,
    Null          \* a cell that holds no element of the deque

VARIABLES
    obj,  \* the deque
    ref   \* the elements it should have

vars == <<obj, ref>>

vsize(d) == d.vsize
size(d) == IF d.m_begin <= d.m_end THEN d.m_end - d.m_begin
           ELSE vsize(d) + d.m_end - d.m_begin

\* vector::resize to n >= size, the new elements are not written.
VectorResize(v, n) == [i \in 0..(n - 1) |-> IF i \in DOMAIN v THEN v[i] ELSE Null]

\* The vector gets n elements; if the deque wraps around, the part up to the
\* old end of the vector moves to its new end.
Enlarged(d, n) ==
    LET old == vsize(d)
        v == VectorResize(d.v, n)
        new_begin == n - old + d.m_begin
    IN  IF d.m_begin > d.m_end
        THEN [d EXCEPT
              !.v = [i \in 0..(n - 1) |-> IF i >= new_begin THEN v[i - new_begin + d.m_begin]
                                          ELSE v[i]],
              !.vsize = n, !.m_begin = new_begin]
        ELSE [d EXCEPT !.v = v, !.vsize = n]

double_array(d) == Enlarged(d, 2 * vsize(d))

\* deque(n): n default elements.
New(n) ==
    LET s == IF n = 0 \/ 2 * n < DefaultSize THEN DefaultSize ELSE 2 * n
    IN  [v |-> [i \in 0..(s - 1) |-> Null], vsize |-> s, m_begin |-> 0, m_end |-> n]

\* A mutant: the array is doubled only when it is overfull.
FullBackLate(d) == d.m_end = d.m_begin /\ d.v[d.m_end] # Null

\* One element stays unused: an array without it would look empty.
FullBack(d) == (d.m_end + 1) % vsize(d) = d.m_begin
FullFront(d) == (d.m_begin + vsize(d) - 1) % vsize(d) = d.m_end

push_back(d, x) ==
    LET t == IF FullBack(d) THEN double_array(d) ELSE d
    IN  [t EXCEPT !.v[t.m_end] = x, !.m_end = (@ + 1) % vsize(t)]

push_front(d, x) ==
    LET t == IF FullFront(d) THEN double_array(d) ELSE d
        b == (t.m_begin + vsize(t) - 1) % vsize(t)
    IN  [t EXCEPT !.v[b] = x, !.m_begin = b]

pop_front(d) == [d EXCEPT !.m_begin = (@ + 1) % vsize(d)]
pop_back(d) == [d EXCEPT !.m_end = (@ + vsize(d) - 1) % vsize(d)]

clear(d) == [d EXCEPT !.m_begin = 0, !.m_end = 0]

resize(d, n) ==
    IF n < size(d) THEN [d EXCEPT !.m_end = (d.m_begin + n) % vsize(d)]
    ELSE LET t == IF n + 1 > vsize(d) THEN Enlarged(d, 2 * n) ELSE d
         IN  [t EXCEPT !.m_end = (t.m_end + n - size(t)) % vsize(t)]

-----------------------------------------------------------------------------
(* Iterators are offsets into the vector.                                  *)

begin(d) == d.m_begin
end(d) == d.m_end

Plus(d, it, n) == (it + n) % vsize(d)
Minus(d, it, n) == (it + vsize(d) - n) % vsize(d)

\* A mutant: offsets are compared as they are.
SelfAbsPlain(d, it) == it

\* The offset as if the array did not wrap around.
SelfAbs(d, it) == IF it >= d.m_begin THEN it ELSE vsize(d) + it

Difference(d, x, y) == SelfAbs(d, x) - SelfAbs(d, y)
Less(d, x, y) == SelfAbs(d, x) < SelfAbs(d, y)

At(d, n) == d.v[Plus(d, begin(d), n)]

-----------------------------------------------------------------------------
TypeOK ==
    /\ ref \in Seq(DValues \cup {Null})
    /\ obj.v \in [0..(obj.vsize - 1) -> DValues \cup {Null}]
    /\ obj.m_begin \in DOMAIN obj.v /\ obj.m_end \in DOMAIN obj.v

\* Cells that hold no element are forgotten: a wrong read would find Null.
Live(d) == {Plus(d, begin(d), i) : i \in 0..(size(d) - 1)}
Forget(d) == [d EXCEPT !.v = [i \in DOMAIN @ |-> IF i \in Live(d) THEN @[i] ELSE Null]]

Init == \E n \in 0..2 : obj = New(n) /\ ref = [i \in 1..n |-> Null]

Push(x) ==
    /\ Len(ref) < MaxLength
    /\ \/ obj' = Forget(push_back(obj, x)) /\ ref' = Append(ref, x)
       \/ obj' = Forget(push_front(obj, x)) /\ ref' = <<x>> \o ref

Pop ==
    /\ ref # <<>>
    /\ \/ obj' = Forget(pop_back(obj)) /\ ref' = Front(ref)
       \/ obj' = Forget(pop_front(obj)) /\ ref' = Tail(ref)

Clear == obj' = Forget(clear(obj)) /\ ref' = <<>>

\* A resize that grows leaves elements nobody wrote; the model writes them,
\* as the user must before it reads them.
Resize(n, x) ==
    LET t == resize(obj, n)
        new == {Plus(t, begin(t), i) : i \in size(obj)..(n - 1)}
    IN  /\ obj' = Forget([t EXCEPT !.v = [i \in DOMAIN @ |-> IF i \in new THEN x ELSE @[i]]])
        /\ ref' = [i \in 1..n |-> IF i <= Len(ref) THEN ref[i] ELSE x]

Next ==
    \/ \E x \in DValues : Push(x)
    \/ Pop
    \/ Clear
    \/ \E n \in 0..MaxLength, x \in DValues : Resize(n, x)

Spec == Init /\ [][Next]_vars

-----------------------------------------------------------------------------
(* Properties. *)

\* The deque has the elements of the reference sequence, at whatever place of
\* the circular array they are: growing, wrapping around, resizing and clearing
\* lose or reorder none.
DequeHolds ==
    /\ size(obj) = Len(ref)
    /\ \A i \in 1..Len(ref) : At(obj, i - 1) = ref[i]

\* Iterator arithmetic is that of the positions in the deque, end() included:
\* differences, order, and steps forward and back, across the wrap-around.
IteratorsOrdered ==
    \A i, j \in 0..Len(ref) :
        LET x == Plus(obj, begin(obj), i)
            y == Plus(obj, begin(obj), j)
        IN  /\ Difference(obj, x, y) = i - j
            /\ Less(obj, x, y) <=> i < j
            /\ Minus(obj, x, i) = begin(obj)
            /\ i = Len(ref) <=> x = end(obj)
=============================================================================
