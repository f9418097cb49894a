------------------------------ MODULE Matrices ------------------------------
(* matrix: handles that share the blocks of a copied matrix until one of     *)
(* them is changed, and the iterators over a matrix, which hold the block    *)
(* they stand in.                                                            *)
EXTENDS MatrixAlgebra, FiniteSets

CONSTANTS Handles, Iterators,
          Const,     \* the iterators of the const types
          Shapes,    \* <<height, width>> of the matrices
          MaxOps,    \* operations of a behaviour
          May,       \* of {"held", "shared", "other"}, what a client does though the code does not stand it
          Null

VARIABLES obj, ref

None == [d |-> 0, h |-> 0, w |-> 0]
Lowest(n, used) == CHOOSE S \in SUBSET (1..(Cardinality(used) + n)) : Cardinality(S) = n /\ S \cap used = {}
Nth(S, n) == CHOOSE x \in S : Cardinality({y \in S : y < x}) = n - 1

-----------------------------------------------------------------------------
(* Blocks: their elements, whether they were written, by how many they are   *)
(* held. One that is neither written nor held is zero.                       *)

NewBlock == [e |-> ZeroBlock.e, w |-> FALSE, n |-> 0]
acquire(s, b) == [s EXCEPT !.blk[b].n = @ + 1]
release(s, b, dirty) ==
    LET x == s.blk[b]
        w == x.w \/ dirty
    IN  [s EXCEPT !.blk[b] = [e |-> IF w \/ x.n > 1 THEN x.e ELSE ZeroBlock.e, w |-> w, n |-> x.n - 1]]

(* A matrix of blocks as a value, and an operation's result put into it.     *)
Value(s, d) ==
    LET D == s.ds[d]
    IN  [h |-> D.h, w |-> D.w, tr |-> D.tr,
         bl |-> [i \in DOMAIN D.bl |-> [init |-> s.blk[D.bl[i]].w \/ s.blk[D.bl[i]].n > 0, e |-> s.blk[D.bl[i]].e]] \o <<>>]
Put(s, d, M) ==
    [s EXCEPT !.blk = [b \in DOMAIN @ |->
        IF \E i \in DOMAIN s.ds[d].bl : s.ds[d].bl[i] = b
        THEN LET x == M.bl[CHOOSE i \in DOMAIN s.ds[d].bl : s.ds[d].bl[i] = b]
             IN  [e |-> x.e, w |-> x.init /\ (@[b].w \/ @[b].n = 0 \/ x.e # @[b].e), n |-> @[b].n]
        ELSE @[b]] @@ <<>>]

-----------------------------------------------------------------------------
(* counting_ptr<swappable_block_matrix>. The data with no reference is       *)
(* deleted and its blocks are freed.                                         *)

new_data(s, h, w) ==
    LET ids == Lowest(h * w, DOMAIN s.blk)
        d == Nth(Lowest(1, DOMAIN s.ds), 1)
    IN  [s EXCEPT !.blk = @ @@ [b \in ids |-> NewBlock],
                  !.ds = @ @@ (d :> [h |-> h, w |-> w, tr |-> FALSE, refs |-> 0, bl |-> [i \in 1..(h * w) |-> Nth(ids, i)] \o <<>>]),
                  !.new = d]

inc_reference(s, d) == IF d = 0 THEN s ELSE [s EXCEPT !.ds[d].refs = @ + 1]
delete_shallow(s, d) == [s EXCEPT !.ds = [x \in DOMAIN @ \ {d} |-> @[x]] @@ <<>>]
delete_data(s, d) ==
    LET gone == {s.ds[d].bl[i] : i \in DOMAIN s.ds[d].bl}
    IN  [s EXCEPT !.ds = [x \in DOMAIN @ \ {d} |-> @[x]] @@ <<>>, !.blk = [b \in DOMAIN @ \ gone |-> @[b]] @@ <<>>]
dec_reference(s, d) ==
    IF d = 0 THEN s
    ELSE IF s.ds[d].refs = 1 THEN delete_data(s, d)
    ELSE [s EXCEPT !.ds[d].refs = @ - 1]
assign_pointer(s, x, d) == [dec_reference(inc_reference(s, d), s.hd[x].d) EXCEPT !.hd[x].d = d]
unique(s, x) == s.ds[s.hd[x].d].refs = 1
copy_data(s, d) ==
    LET t == new_data(s, s.ds[d].h, s.ds[d].w) IN Put(t, t.new, copied(Value(s, d)))
unify(s, x) ==
    IF unique(s, x) THEN s ELSE LET t == copy_data(s, s.hd[x].d) IN assign_pointer(t, x, t.new)

-----------------------------------------------------------------------------
(* The operations of matrix. The result of a binary one is assigned to x.    *)

Assigned(s, x, d, h, w) == [assign_pointer(s, x, d) EXCEPT !.hd[x].h = h, !.hd[x].w = w]
matrix_new(s, x, h, w) ==
    LET t == new_data(s, div_ceil(h, Side), div_ceil(w, Side)) IN Assigned(t, x, t.new, h, w)
matrix_assign(s, x, y) == Assigned(s, x, s.hd[y].d, s.hd[y].h, s.hd[y].w)
matrix_destroy(s, x) == [dec_reference(s, s.hd[x].d) EXCEPT !.hd[x] = None]

matrix_transpose_shared(s, x) ==
    LET d == s.hd[x].d
        D == s.ds[d]
    IN  [s EXCEPT !.hd[x].h = s.hd[x].w, !.hd[x].w = s.hd[x].h,
                  !.ds[d] = [D EXCEPT !.h = D.w, !.w = D.h, !.tr = ~D.tr,
                                      !.bl = [i \in DOMAIN @ |-> @[((i - 1) % D.h) * D.w + (i - 1) \div D.h + 1]] \o <<>>]]
matrix_transpose(s, x) == matrix_transpose_shared(unify(s, x), x)
matrix_set_zero(s, x) ==
    IF unique(s, x) THEN Put(s, s.hd[x].d, set_zero(Value(s, s.hd[x].d)))
    ELSE LET t == new_data(s, div_ceil(s.hd[x].h, Side), div_ceil(s.hd[x].w, Side)) IN assign_pointer(t, x, t.new)

Binary(s, x, y, z, op) ==
    LET t == new_data(s, s.ds[s.hd[y].d].h, s.ds[s.hd[y].d].w)
        u == Put(t, t.new, element_op3(Value(t, t.new), Value(t, s.hd[y].d), Value(t, s.hd[z].d), op))
    IN  Assigned(u, x, t.new, s.hd[y].h, s.hd[y].w)
matrix_plus(s, x, y, z) == Binary(s, x, y, z, "add")
matrix_minus(s, x, y, z) == Binary(s, x, y, z, "sub")
Changed(s, x, y, op) ==
    LET t == unify(s, x) IN Put(t, t.hd[x].d, element_op2(Value(t, t.hd[x].d), Value(t, t.hd[y].d), op))
add_assign_shared(s, x, y) == Put(s, s.hd[x].d, element_op2(Value(s, s.hd[x].d), Value(s, s.hd[y].d), "add"))
matrix_add_assign(s, x, y) == Changed(s, x, y, "add")
matrix_sub_assign(s, x, y) == Changed(s, x, y, "sub")
matrix_scale(s, x) ==
    LET t == unify(s, x) IN Put(t, t.hd[x].d, element_op1(Value(t, t.hd[x].d), "times"))
matrix_scaled(s, x, y) ==
    LET t == new_data(s, s.ds[s.hd[y].d].h, s.ds[s.hd[y].d].w)
        u == Put(t, t.new, element_op2(Value(t, t.new), Value(t, s.hd[y].d), "times"))
    IN  Assigned(u, x, t.new, s.hd[y].h, s.hd[y].w)

-----------------------------------------------------------------------------
(* Iterators. They acquire the block of their place when they are            *)
(* dereferenced and release it when they leave it.                           *)

NoIt == [m |-> Null, row |-> 0, col |-> 0, brow |-> 0, bcol |-> 0, ib |-> 0]
block_index_from_elem(n) == IF n < 0 THEN 0 - ((0 - n) \div Side) ELSE n \div Side
block_of(s, t) == LET D == s.ds[s.hd[t.m].d] IN D.bl[t.brow * D.w + t.bcol + 1]
elem_index_in_block_from_elem(s, t) == switch_major_index(t.row % Side, t.col % Side, s.ds[s.hd[t.m].d].tr) + 1
empty(t) == t.row = -1 /\ t.col = -1

acquire_current_iblock(s, i) ==
    IF s.it[i].ib # 0 THEN s
    ELSE LET b == block_of(s, s.it[i]) IN [acquire(s, b) EXCEPT !.it[i].ib = b]
ReleasedWith(s, i, dirty) ==
    IF s.it[i].ib = 0 THEN s
    ELSE [release(s, block_of(s, s.it[i]), dirty) EXCEPT !.it[i].ib = 0]
release_current_iblock(s, i) == ReleasedWith(s, i, TRUE)
const_release_current_iblock(s, i) == ReleasedWith(s, i, FALSE)
Released(s, i) == IF i \in Const THEN const_release_current_iblock(s, i) ELSE release_current_iblock(s, i)

Placed(s, i, brow, bcol, row, col) ==
    LET t == IF brow # s.it[i].brow \/ bcol # s.it[i].bcol THEN Released(s, i) ELSE s
    IN  [t EXCEPT !.it[i].brow = brow, !.it[i].bcol = bcol, !.it[i].row = row, !.it[i].col = col]
set_row(s, i, row) == Placed(s, i, block_index_from_elem(row), s.it[i].bcol, row, s.it[i].col)
set_col_held(s, i, col) == [s EXCEPT !.it[i].bcol = block_index_from_elem(col), !.it[i].col = col]
set_col(s, i, col) == Placed(s, i, s.it[i].brow, block_index_from_elem(col), s.it[i].row, col)
set_pos(s, i, row, col) == Placed(s, i, block_index_from_elem(row), block_index_from_elem(col), row, col)
set_empty(s, i) ==
    [Released(s, i) EXCEPT !.it[i].brow = -1, !.it[i].bcol = -1, !.it[i].row = -1, !.it[i].col = -1]

iterator_at(s, i, x, row, col) ==
    [(IF i \in Const THEN s ELSE unify(s, x)) EXCEPT !.it[i] = [m |-> x, row |-> row, col |-> col, ib |-> 0,
                         brow |-> block_index_from_elem(row), bcol |-> block_index_from_elem(col)]]
iterator_end(s, i, x) ==
    [(IF i \in Const THEN s ELSE unify(s, x))
        EXCEPT !.it[i] = [m |-> x, row |-> -1, col |-> -1, brow |-> -1, bcol |-> -1, ib |-> 0]]
iterator_copy(s, i, j) ==
    LET t == [s EXCEPT !.it[i] = [s.it[j] EXCEPT !.ib = 0]]
    IN  IF s.it[j].ib # 0 THEN acquire_current_iblock(t, i) ELSE t
iterator_assign(s, i, j) ==
    LET t == [set_pos(s, i, s.it[j].row, s.it[j].col) EXCEPT !.it[i].m = s.it[j].m]
    IN  IF s.it[j].ib # 0 THEN acquire_current_iblock(t, i) ELSE t
iterator_destroy(s, i) == [Released(s, i) EXCEPT !.it[i] = NoIt]

row_major_next(s, i) ==
    LET t == s.it[i]
    IN  IF t.col + 1 < s.hd[t.m].w THEN set_col(s, i, t.col + 1)
        ELSE IF t.row + 1 < s.hd[t.m].h THEN set_pos(s, i, t.row + 1, 0)
        ELSE set_empty(s, i)
row_major_previous(s, i) ==
    LET t == s.it[i]
    IN  IF t.col - 1 >= 0 THEN set_col(s, i, t.col - 1)
        ELSE IF t.row - 1 >= 0 THEN set_pos(s, i, t.row - 1, s.hd[t.m].w - 1)
        ELSE set_empty(s, i)
col_major_next(s, i) ==
    LET t == s.it[i]
    IN  IF t.row + 1 < s.hd[t.m].h THEN set_row(s, i, t.row + 1)
        ELSE IF t.col + 1 < s.hd[t.m].w THEN set_pos(s, i, 0, t.col + 1)
        ELSE set_empty(s, i)
col_major_previous_low(s, i) ==
    LET t == s.it[i]
    IN  IF t.row - 1 >= 0 THEN set_row(s, i, t.row - 1)
        ELSE IF t.col - 1 >= 0 THEN set_pos(s, i, s.hd[t.m].w - 1, t.col - 1)
        ELSE set_empty(s, i)
col_major_previous(s, i) ==
    LET t == s.it[i]
    IN  IF t.row - 1 >= 0 THEN set_row(s, i, t.row - 1)
        ELSE IF t.col - 1 >= 0 THEN set_pos(s, i, s.hd[t.m].h - 1, t.col - 1)
        ELSE set_empty(s, i)

dereference(s, i) == acquire_current_iblock(s, i)

(* The const iterators do the same, but do not make a block dirty when they  *)
(* release it.                                                               *)
const_set_pos(s, i, row, col) == set_pos(s, i, row, col)
const_iterator_copy(s, i, j) == iterator_copy(s, i, j)
const_iterator_assign(s, i, j) == iterator_assign(s, i, j)
const_row_major_next(s, i) == row_major_next(s, i)
const_row_major_previous(s, i) == row_major_previous(s, i)
const_col_major_next(s, i) == col_major_next(s, i)
const_col_major_previous(s, i) == col_major_previous(s, i)
const_dereference(s, i) == acquire_current_iblock(s, i)

Seen(s, i) == s.blk[s.it[i].ib].e[elem_index_in_block_from_elem(s, s.it[i])]
write(s, i, v) ==
    LET t == dereference(s, i)
    IN  [t EXCEPT !.blk[t.it[i].ib].e[elem_index_in_block_from_elem(t, t.it[i])] = v]

-----------------------------------------------------------------------------
(* What the client sees: every matrix as its own array of elements, every    *)
(* iterator as a place in one.                                               *)

Gone == [h |-> 0, w |-> 0, v |-> <<>>]
Array(h, w, v(_, _)) ==
    [h |-> h, w |-> w, v |-> [rc \in (0..(h - 1)) \X (0..(w - 1)) |-> v(rc[1], rc[2])] @@ <<>>]
Transposed(A) == Array(A.w, A.h, LAMBDA r, c : A.v[<<c, r>>])
Mapped(A, f(_)) == Array(A.h, A.w, LAMBDA r, c : f(A.v[<<r, c>>]))
Joint(A, B, f(_, _)) == Array(A.h, A.w, LAMBDA r, c : f(A.v[<<r, c>>], B.v[<<r, c>>]))
Shown(s, x) == IF s.hd[x].d = 0 THEN Gone
               ELSE Array(s.hd[x].h, s.hd[x].w, LAMBDA r, c : Element(Value(s, s.hd[x].d), r, c))

(* The place k steps after <<row, col>> in row-major or column-major order.  *)
Nowhere == <<-1, -1>>
Moved(A, rc, rowMajor, k) ==
    LET n == (IF rowMajor THEN rc[1] * A.w + rc[2] ELSE rc[2] * A.h + rc[1]) + k
    IN  IF n \notin 0..(A.h * A.w - 1) THEN Nowhere
        ELSE IF rowMajor THEN <<n \div A.w, n % A.w>> ELSE <<n % A.h, n \div A.h>>

-----------------------------------------------------------------------------
vars == <<obj, ref>>

Blank == [blk |-> <<>>, ds |-> <<>>, new |-> 0, ops |-> 0,
          hd |-> [x \in Handles |-> None] @@ <<>>, it |-> [i \in Iterators |-> NoIt] @@ <<>>]
First == CHOOSE x \in Handles : TRUE
Seeded(s, x, i) == iterator_destroy(write(iterator_at(s, i, x, 0, 0), i, 1), i)
Start(sh) ==
    LET i == CHOOSE i \in Iterators \ Const : TRUE
        s == Seeded(matrix_new(Blank, First, sh[1], sh[2]), First, i)
    IN  [s EXCEPT !.new = 0]

Init == \E sh \in Shapes :
    /\ obj = Start(sh)
    /\ ref = [hd |-> [x \in Handles |-> IF x = First THEN Array(sh[1], sh[2], LAMBDA r, c : IF r + c = 0 THEN 1 ELSE 0)
                                        ELSE Gone] @@ <<>>,
              it |-> [i \in Iterators |-> Nowhere] @@ <<>>]

Live(x) == obj.hd[x].d # 0
Here(i) == obj.it[i].m # Null
There(i) == Here(i) /\ ~empty(obj.it[i])
Alike(x, y) == Live(x) /\ Live(y) /\ ref.hd[x].h = ref.hd[y].h /\ ref.hd[x].w = ref.hd[y].w

(* No iterator of x stands, or holds a block, when the blocks of x are       *)
(* exchanged under it.                                                       *)
Unwatched(x) == \A i \in Iterators : obj.it[i].m # x
Unheld(x) == "held" \in May \/ \A i \in Iterators : obj.it[i].m = x => obj.it[i].ib = 0
Own(x) == unique(obj, x) \/ Unheld(x)

Do(s) == obj.ops < MaxOps /\ obj' = [s EXCEPT !.ops = @ + 1, !.new = 0]
Becomes(x, A) == ref' = [ref EXCEPT !.hd[x] = A]
Stands(i, rc) == ref' = [ref EXCEPT !.it[i] = rc]

New(x, sh) == Unwatched(x) /\ Do(matrix_new(obj, x, sh[1], sh[2])) /\ Becomes(x, Array(sh[1], sh[2], LAMBDA r, c : 0))
Assign(x, y) == Unwatched(x) /\ Live(y) /\ Do(matrix_assign(obj, x, y)) /\ Becomes(x, ref.hd[y])
Destroy(x) == Live(x) /\ Unwatched(x) /\ Do(matrix_destroy(obj, x)) /\ Becomes(x, Gone)
Transpose(x) == Live(x) /\ Unwatched(x) /\ Do(matrix_transpose(obj, x)) /\ Becomes(x, Transposed(ref.hd[x]))
SetZero(x) == Live(x) /\ Unheld(x) /\ Do(matrix_set_zero(obj, x)) /\ Becomes(x, Mapped(ref.hd[x], LAMBDA v : 0))
Plus(x, y, z) ==
    Alike(y, z) /\ Unwatched(x) /\ Do(matrix_plus(obj, x, y, z)) /\ Becomes(x, Joint(ref.hd[y], ref.hd[z], LAMBDA u, v : u + v))
Minus(x, y, z) ==
    Alike(y, z) /\ Unwatched(x) /\ Do(matrix_minus(obj, x, y, z)) /\ Becomes(x, Joint(ref.hd[y], ref.hd[z], LAMBDA u, v : u - v))
Scaled(x, y) ==
    Live(y) /\ Unwatched(x) /\ Do(matrix_scaled(obj, x, y)) /\ Becomes(x, Mapped(ref.hd[y], LAMBDA v : Scalar * v))
AddAssign(x, y) ==
    Alike(x, y) /\ Own(x) /\ Do(matrix_add_assign(obj, x, y)) /\ Becomes(x, Joint(ref.hd[x], ref.hd[y], LAMBDA u, v : u + v))
SubAssign(x, y) ==
    Alike(x, y) /\ Own(x) /\ Do(matrix_sub_assign(obj, x, y)) /\ Becomes(x, Joint(ref.hd[x], ref.hd[y], LAMBDA u, v : u - v))
Scale(x) == Live(x) /\ Own(x) /\ Do(matrix_scale(obj, x)) /\ Becomes(x, Mapped(ref.hd[x], LAMBDA v : Scalar * v))

(* begin(), end() and (row, col); of a const matrix for the const iterators. *)
At(i, x, rc) ==
    /\ ~Here(i) /\ Live(x) /\ rc \in DOMAIN ref.hd[x].v /\ (i \notin Const => Own(x))
    /\ Do(iterator_at(obj, i, x, rc[1], rc[2])) /\ Stands(i, rc)
End(i, x) ==
    /\ ~Here(i) /\ Live(x) /\ (i \notin Const => Own(x))
    /\ Do(iterator_end(obj, i, x)) /\ Stands(i, Nowhere)
CopyIterator(i, j) ==
    /\ ~Here(i) /\ Here(j) /\ (j \in Const => i \in Const)
    /\ Do(IF i \in Const THEN const_iterator_copy(obj, i, j) ELSE iterator_copy(obj, i, j)) /\ Stands(i, ref.it[j])
AssignIterator(i, j) ==
    /\ Here(i) /\ Here(j) /\ i # j /\ (j \in Const => i \in Const)
    /\ obj.it[i].m # obj.it[j].m /\ "other" \notin May => obj.it[i].ib = 0
    /\ Do(IF i \in Const THEN const_iterator_assign(obj, i, j) ELSE iterator_assign(obj, i, j)) /\ Stands(i, ref.it[j])
DestroyIterator(i) == Here(i) /\ Do(iterator_destroy(obj, i)) /\ Stands(i, Nowhere)

Array_of(i) == ref.hd[obj.it[i].m]
NextInRow(i) ==
    /\ There(i) /\ Do(IF i \in Const THEN const_row_major_next(obj, i) ELSE row_major_next(obj, i))
    /\ Stands(i, Moved(Array_of(i), ref.it[i], TRUE, 1))
PreviousInRow(i) ==
    /\ There(i) /\ Do(IF i \in Const THEN const_row_major_previous(obj, i) ELSE row_major_previous(obj, i))
    /\ Stands(i, Moved(Array_of(i), ref.it[i], TRUE, -1))
NextInColumn(i) ==
    /\ There(i) /\ Do(IF i \in Const THEN const_col_major_next(obj, i) ELSE col_major_next(obj, i))
    /\ Stands(i, Moved(Array_of(i), ref.it[i], FALSE, 1))
PreviousInColumn(i) ==
    /\ There(i) /\ Do(IF i \in Const THEN const_col_major_previous(obj, i) ELSE col_major_previous(obj, i))
    /\ Stands(i, Moved(Array_of(i), ref.it[i], FALSE, -1))
SetPos(i, rc) ==
    /\ Here(i) /\ rc \in DOMAIN Array_of(i).v /\ rc # ref.it[i]
    /\ Do(IF i \in Const THEN const_set_pos(obj, i, rc[1], rc[2]) ELSE set_pos(obj, i, rc[1], rc[2])) /\ Stands(i, rc)
Read(i) == There(i) /\ Do(IF i \in Const THEN const_dereference(obj, i) ELSE dereference(obj, i)) /\ UNCHANGED ref
Write(i, v) ==
    /\ There(i) /\ i \notin Const /\ (unique(obj, obj.it[i].m) \/ "shared" \in May)
    /\ Do(write(obj, i, v)) /\ ref' = [ref EXCEPT !.hd[obj.it[i].m].v[ref.it[i]] = v]

Corners == {<<0, 0>>, <<1, 2>>, <<2, 1>>}
Values == {0, 2}

Next ==
    \/ \E x \in Handles : \/ Destroy(x) \/ Transpose(x) \/ SetZero(x) \/ Scale(x)
                          \/ \E sh \in Shapes : New(x, sh)
                          \/ \E y \in Handles : \/ Assign(x, y) \/ Scaled(x, y) \/ AddAssign(x, y) \/ SubAssign(x, y)
                                                \/ \E z \in Handles : Plus(x, y, z) \/ Minus(x, y, z)
    \/ \E i \in Iterators : \/ DestroyIterator(i) \/ Read(i)
                            \/ NextInRow(i) \/ PreviousInRow(i) \/ NextInColumn(i) \/ PreviousInColumn(i)
                            \/ \E v \in Values : Write(i, v)
                            \/ \E rc \in Corners : SetPos(i, rc)
                            \/ \E x \in Handles : End(i, x) \/ \E rc \in Corners : At(i, x, rc)
                            \/ \E j \in Iterators : CopyIterator(i, j) \/ AssignIterator(i, j)

-----------------------------------------------------------------------------
TypeOK == /\ obj.ops \in 0..MaxOps
          /\ \A x \in Handles : obj.hd[x].d \in (DOMAIN obj.ds) \cup {0}
          /\ \A i \in Iterators : obj.it[i].m \in Handles \cup {Null}

(* Copies are independent: whatever is done to one matrix, every other one   *)
(* keeps the elements its own operations gave it, though copies share blocks *)
(* until one of them is changed.                                             *)
CopiesIndependent == \A x \in Handles : Shown(obj, x) = ref.hd[x]

(* An iterator is where its moves bring it in row-major or column-major      *)
(* order, past the ends of rows, columns and the matrix, and the element it  *)
(* refers to is the one at that place.                                       *)
IteratorsRight == \A i \in Iterators :
    Here(i) => /\ <<obj.it[i].row, obj.it[i].col>> = ref.it[i]
               /\ There(i) /\ obj.it[i].ib # 0 => Seen(obj, i) = ref.hd[obj.it[i].m].v[ref.it[i]]

(* A block is held exactly by the iterators that stand in it, in the matrix  *)
(* they belong to: none is left held and none is let go under an iterator.   *)
HeldByIterators ==
    /\ \A b \in DOMAIN obj.blk : obj.blk[b].n = Cardinality({i \in Iterators : obj.it[i].ib = b})
    /\ \A i \in Iterators : obj.it[i].ib # 0 => obj.it[i].ib = block_of(obj, obj.it[i])

(* The block scheduler's blocks are those of the matrices that are left, each *)
(* of one matrix, and the count of a shared matrix is that of its handles.   *)
NoBlockLeaks ==
    /\ DOMAIN obj.ds = {obj.hd[x].d : x \in Handles} \ {0}
    /\ \A d \in DOMAIN obj.ds : obj.ds[d].refs = Cardinality({x \in Handles : obj.hd[x].d = d})
    /\ \A b \in DOMAIN obj.blk : Cardinality({<<d, k>> \in (DOMAIN obj.ds) \X (1..4) :
                                     k \in DOMAIN obj.ds[d].bl /\ obj.ds[d].bl[k] = b}) = 1
=============================================================================
