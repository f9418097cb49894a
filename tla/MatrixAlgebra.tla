---------------------------- MODULE MatrixAlgebra ----------------------------
(* Matrices of swappable blocks as values, and the operations on single      *)
(* elements: sums, differences and scalar products, which skip the blocks    *)
(* that were never written (a block that is not initialized holds zeros) and *)
(* regard the order of the elements in a block, row by row or, in a          *)
(* transposed matrix, column by column.                                      *)
EXTENDS Integers, Sequences, TLC

CONSTANT Side    \* BlockSideLength

Scalar == 3    \* the factor of scalar_multiplication

ZeroBlock == [init |-> FALSE, e |-> [i \in 1..(Side * Side) |-> 0] \o <<>>]
Written(e) == [init |-> TRUE, e |-> e]

(* f(0) + ... + f(n - 1)                                                     *)
Total(n, f(_)) ==
    LET sum[k \in 0..n] == IF k = 0 THEN 0 ELSE sum[k - 1] + f(k - 1) IN sum[n]

div_ceil(n, d) == (n + d - 1) \div d
round_up_to_power_of_two(n, power) == div_ceil(n, 2 ^ power) * 2 ^ power
ilog2_ceil(i) == CHOOSE k \in 0..i : 2 ^ k >= i /\ \A j \in 0..(k - 1) : 2 ^ j < i

-----------------------------------------------------------------------------
(* Blocks. An index counts from 0, as in the code; a sequence from 1.        *)

switch_major_index(row, col, transposed) == IF transposed THEN row + col * Side ELSE row * Side + col
Place(i, transposed) == switch_major_index((i - 1) \div Side, (i - 1) % Side, transposed) + 1
Places == 1..(Side * Side)

apply(op, x, y) == IF op = "add" THEN x + y ELSE x - y
apply_unary(op, x) == CASE op = "add" -> x [] op = "sub" -> 0 - x [] op = "times" -> Scalar * x
apply_assign(op, x, y) == IF op \in {"add", "sub"} THEN apply(op, x, y) ELSE Scalar * y

low_level_matrix_binary_ass_op(a, ta, b, tb, op) ==
    [i \in Places |-> apply(op, IF a.init THEN a.e[Place(i, ta)] ELSE 0,
                                IF b.init THEN b.e[Place(i, tb)] ELSE 0)] \o <<>>
low_level_matrix_unary_ass_op(c, a, ta, op) ==
    [i \in Places |-> apply_assign(op, c.e[i], a.e[Place(i, ta)])] \o <<>>
low_level_matrix_unary_op(a, ta, op) == [i \in Places |-> apply_unary(op, a.e[Place(i, ta)])] \o <<>>

(* c += a * b. A product that is wanted column by column is b^T * a^T.       *)
RowMajorProduct(c, a, ta, b, tb) ==
    [i \in Places |->
        LET row == (i - 1) \div Side
            col == (i - 1) % Side
        IN  c.e[i] + Total(Side, LAMBDA k :
                         a.e[switch_major_index(row, k, ta) + 1] * b.e[switch_major_index(k, col, tb) + 1])] \o <<>>
low_level_matrix_multiply_and_add(a, ta, b, tb, c, tc) ==
    IF tc THEN RowMajorProduct(c, b, ~tb, a, ~ta) ELSE RowMajorProduct(c, a, ta, b, tb)

(* c = a <op> b, c <op>= a and c = <op> c for blocks; a zero block may save  *)
(* the work.                                                                 *)
block_op3(tc, a, ta, b, tb, op) ==
    IF ~a.init /\ ~b.init THEN ZeroBlock
    ELSE Written(low_level_matrix_binary_ass_op(a, ta # tc, b, tb # tc, op))
block_op2_keeps(c, tc, a, ta, op) ==
    IF ~a.init THEN c
    ELSE Written(IF ~c.init THEN low_level_matrix_unary_op(a, FALSE, op)
                 ELSE low_level_matrix_unary_ass_op(c, a, ta # tc, op))
block_op2(c, tc, a, ta, op) ==
    IF ~a.init THEN c
    ELSE Written(IF ~c.init THEN low_level_matrix_unary_op(a, ta # tc, op)
                 ELSE low_level_matrix_unary_ass_op(c, a, ta # tc, op))
block_op1(c, op) == IF ~c.init THEN c ELSE Written(low_level_matrix_unary_op(c, FALSE, op))

multiply_and_add_swappable_block(a, ta, b, tb, c, tc) ==
    IF ~a.init \/ ~b.init THEN c
    ELSE Written(low_level_matrix_multiply_and_add(a, ta, b, tb, c, tc))

-----------------------------------------------------------------------------
(* swappable_block_matrix: h times w blocks, bl row by row.                  *)

block(M, row, col) == M.bl[row * M.w + col + 1]
Matrix(h, w, tr, b(_, _)) ==
    [h |-> h, w |-> w, tr |-> tr, bl |-> [i \in 1..(h * w) |-> b((i - 1) \div w, (i - 1) % w)] \o <<>>]

new_matrix(h, w, tr) == Matrix(h, w, tr, LAMBDA row, col : ZeroBlock)
(* The part of a matrix that starts at a place, padded with empty blocks.    *)
submatrix(M, h, w, from_row, from_col) ==
    Matrix(h, w, M.tr, LAMBDA row, col :
        IF row < M.h - from_row /\ col < M.w - from_col THEN block(M, row + from_row, col + from_col) ELSE ZeroBlock)
combination(q) ==
    Matrix(q.ul.h + q.dl.h, q.ul.w + q.ur.w, q.ul.tr, LAMBDA row, col :
        IF row < q.ul.h
        THEN IF col < q.ul.w THEN block(q.ul, row, col) ELSE block(q.ur, row, col - q.ul.w)
        ELSE IF col < q.ul.w THEN block(q.dl, row - q.ul.h, col) ELSE block(q.dr, row - q.ul.h, col - q.ul.w))

transpose(M) == Matrix(M.w, M.h, ~M.tr, LAMBDA row, col : block(M, col, row))
set_zero(M) == new_matrix(M.h, M.w, M.tr)

element_op3(C, A, B, op) ==
    Matrix(C.h, C.w, C.tr, LAMBDA row, col : block_op3(C.tr, block(A, row, col), A.tr, block(B, row, col), B.tr, op))
element_op2(C, A, op) ==
    Matrix(C.h, C.w, C.tr, LAMBDA row, col : block_op2(block(C, row, col), C.tr, block(A, row, col), A.tr, op))
element_op1(C, op) == Matrix(C.h, C.w, C.tr, LAMBDA row, col : block_op1(block(C, row, col), op))
(* The copy constructor: 0 + other, never transposed.                        *)
copied(M) == element_op2(new_matrix(M.h, M.w, FALSE), M, "add")

-----------------------------------------------------------------------------
(* A matrix as its user sees it: the element at a place.                     *)

Element(M, row, col) ==
    block(M, row \div Side, col \div Side).e[switch_major_index(row % Side, col % Side, M.tr) + 1]
Rows(M) == 0..(M.h * Side - 1)
Columns(M) == 0..(M.w * Side - 1)
Elements(M) == [rc \in Rows(M) \X Columns(M) |-> Element(M, rc[1], rc[2])] @@ <<>>
=============================================================================
