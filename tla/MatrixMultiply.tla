--------------------------- MODULE MatrixMultiply ---------------------------
(* The seven multiplication algorithms of matrix::multiply, the products of  *)
(* a matrix and a vector, and the operations on single elements. The         *)
(* quarters of a matrix are views of it: what is written to them is in the   *)
(* whole, Joined.                                                            *)
EXTENDS MatrixAlgebra

CONSTANT Cases    \* what is computed: [kind, op, n, l, m, ta, tb, seed, b, cut]; A has n times l blocks, B l times m,
                  \* transposed or not, and the elements are derived from seed; op is the number of
                  \* an algorithm or the name of an operation

CONSTANT Null

VARIABLES obj, ref

Quarters == {"ul", "ur", "dl", "dr"}
Minimum(a, b) == IF a < b THEN a ELSE b

-----------------------------------------------------------------------------
(* Partitions.                                                               *)

Quartered(M, h1, w1, h2, w2) ==
    [ul |-> submatrix(M, h1, w1, 0, 0), ur |-> submatrix(M, h1, w2, 0, w1),
     dl |-> submatrix(M, h2, w1, h1, 0), dr |-> submatrix(M, h2, w2, h1, w1)]
quarterer(M) == Quartered(M, M.h \div 2, M.w \div 2, M.h \div 2, M.w \div 2)
padding_quarterer(M) ==
    Quartered(M, div_ceil(M.h, 2), div_ceil(M.w, 2), div_ceil(M.h, 2), div_ceil(M.w, 2))
approximative_quarterer(M) ==
    Quartered(M, M.h \div 2, M.w \div 2, M.h - M.h \div 2, M.w - M.w \div 2)
Joined(C, q) == submatrix(combination(q), C.h, C.w, 0, 0)

-----------------------------------------------------------------------------
(* Algorithms 0 and 1.                                                       *)

naive_multiply_and_add(A, B, C) ==
    Matrix(C.h, C.w, C.tr, LAMBDA i, j :
        LET c[k \in 0..A.w] ==
                IF k = 0 THEN block(C, i, j)
                ELSE multiply_and_add_swappable_block(block(A, i, k - 1), A.tr, block(B, k - 1, j), B.tr, c[k - 1], C.tr)
        IN  c[A.w])

Ones(A, C) == (IF C.h = 1 THEN 1 ELSE 0) + (IF C.w = 1 THEN 1 ELSE 0) + (IF A.w = 1 THEN 1 ELSE 0)

RECURSIVE recursive_multiply_and_add(_, _, _)
recursive_multiply_and_add(A, B, C) ==
    LET mul(a, b, c) == recursive_multiply_and_add(a, b, c)
        qa == approximative_quarterer(A)
        qb == approximative_quarterer(B)
        qc == approximative_quarterer(C)
        both(a1, b1, a2, b2, c) == mul(a2, b2, mul(a1, b1, c))
    IN  IF C.h * C.w * A.w = 0 THEN C
        ELSE IF Ones(A, C) >= 2 THEN naive_multiply_and_add(A, B, C)
        ELSE Joined(C, [ul |-> both(qa.ul, qb.ul, qa.ur, qb.dl, qc.ul), ur |-> both(qa.ur, qb.dr, qa.ul, qb.ur, qc.ur),
                        dr |-> both(qa.dl, qb.ur, qa.dr, qb.dr, qc.dr), dl |-> both(qa.dr, qb.dl, qa.dl, qb.ul, qc.dl)])

-----------------------------------------------------------------------------
(* Strassen and Winograd. The additions that expect blocks of equal order.   *)

op_nontransposed(A, op, B) ==
    Matrix(A.h, A.w, A.tr, LAMBDA row, col : block_op3(FALSE, block(A, row, col), FALSE, block(B, row, col), FALSE, op))
add_nontransposed(C, A) ==
    Matrix(C.h, C.w, C.tr, LAMBDA row, col : block_op2(block(C, row, col), FALSE, block(A, row, col), FALSE, "add"))
element_op_twice_nontransposed(c1, c2, a) == <<add_nontransposed(c1, a), add_nontransposed(c2, a)>>

strassen_winograd_preaddition_a(q) ==
    LET s1 == op_nontransposed(q.dl, "add", q.dr)
        s2 == op_nontransposed(s1, "sub", q.ul)
        s3 == op_nontransposed(q.ul, "sub", q.dl)
        s4 == op_nontransposed(q.ur, "sub", s2)
    IN  <<s1, s2, s3, s4>>
strassen_winograd_preaddition_b(q) ==
    LET t1 == op_nontransposed(q.ur, "sub", q.ul)
        t2 == op_nontransposed(q.dr, "sub", t1)
        t3 == op_nontransposed(q.dr, "sub", q.ur)
        t4 == op_nontransposed(q.dl, "sub", t2)
    IN  <<t1, t2, t3, t4>>
postaddition_swapped(c, p1, p3, p5) ==
    LET u2 == add_nontransposed(p1, c.dr)
        u3 == add_nontransposed(p5, u2)
    IN  [ul |-> add_nontransposed(c.ul, p1), dl |-> add_nontransposed(c.dl, u3),
         dr |-> op_nontransposed(u3, "add", p3), ur |-> add_nontransposed(c.ur, u2)]
strassen_winograd_postaddition(c, p1, p3, p5) ==
    LET u2 == add_nontransposed(p1, c.dr)
        u3 == add_nontransposed(p5, u2)
    IN  [ul |-> add_nontransposed(c.ul, p1), dl |-> add_nontransposed(c.dl, u3),
         dr |-> op_nontransposed(u3, "add", p3), ur |-> add_nontransposed(c.ur, add_nontransposed(u2, p3))]

strassen_winograd_base_case_size == 3
BaseCase(A, C) == Minimum(C.h, Minimum(C.w, A.w)) <= strassen_winograd_base_case_size

(* Algorithm 2.                                                              *)
RECURSIVE strassen_winograd_multiply_and_add(_, _, _)
AddedQuarters(qa, qb, qc) ==
    LET mul(a, b, c) == strassen_winograd_multiply_and_add(a, b, c)
        S == new_matrix(qa.ul.h, qa.ul.w, FALSE)
        T == new_matrix(qb.ul.h, qb.ul.w, FALSE)
        s3 == element_op3(S, qa.ul, qa.dl, "sub")
        s1 == element_op3(S, qa.dl, qa.dr, "add")
        s2 == element_op3(S, s1, qa.ul, "sub")
        s4 == element_op3(S, qa.ur, s2, "sub")
        t3 == element_op3(T, qb.dr, qb.ur, "sub")
        t1 == element_op3(T, qb.ur, qb.ul, "sub")
        t2 == element_op3(T, qb.dr, t1, "sub")
        t4 == element_op3(T, qb.dl, t2, "sub")
        zero == new_matrix(qc.ul.h, qc.ul.w, FALSE)
        px1 == mul(qa.ul, qb.ul, zero)
        px4 == mul(s2, t2, px1)
        px5 == mul(s3, t3, px4)
        px3 == mul(s1, t1, zero)
        ur == element_op2(element_op2(qc.ur, px4, "add"), px3, "add")
    IN  [ul |-> element_op2(mul(qa.ur, qb.dl, qc.ul), px1, "add"),
         dl |-> mul(qa.dr, t4, element_op2(qc.dl, px5, "add")),
         dr |-> element_op2(element_op2(qc.dr, px5, "add"), px3, "add"),
         ur |-> mul(s4, qb.dr, ur)]
strassen_winograd_multiply_and_add(A, B, C) ==
    IF BaseCase(A, C) THEN recursive_multiply_and_add(A, B, C)
    ELSE Joined(C, AddedQuarters(padding_quarterer(A), padding_quarterer(B), padding_quarterer(C)))

(* Algorithm 4, which writes four of the products into C itself.             *)
RECURSIVE strassen_winograd_multiply(_, _, _)
SetQuarters(qa, qb, qc, s, t) ==
    LET mul(a, b, c) == strassen_winograd_multiply(a, b, c)
        P == new_matrix(qc.ul.h, qc.ul.w, qc.ul.tr)
        p == [ul |-> mul(qa.ur, qb.dl, qc.ul), dr |-> mul(s[2], t[2], qc.dr),
              ur |-> mul(s[4], qb.dr, qc.ur), dl |-> mul(qa.dr, t[4], qc.dl)]
    IN  strassen_winograd_postaddition(p, mul(qa.ul, qb.ul, P), mul(s[1], t[1], P), mul(s[3], t[3], P))
strassen_winograd_multiply(A, B, C) ==
    IF BaseCase(A, C) THEN recursive_multiply_and_add(A, B, set_zero(C))
    ELSE LET qa == padding_quarterer(A)
             qb == padding_quarterer(B)
         IN  Joined(C, SetQuarters(qa, qb, padding_quarterer(C), strassen_winograd_preaddition_a(qa),
                                   strassen_winograd_preaddition_b(qb)))

(* Algorithm 5.                                                              *)
RECURSIVE strassen_winograd_multiply_and_add_interleaved(_, _, _)
InterleavedQuarters(qa, qb, qc, s, t) ==
    LET mul(a, b, c) == strassen_winograd_multiply_and_add_interleaved(a, b, c)
        zero == new_matrix(qc.ul.h, qc.ul.w, qc.ul.tr)
        px1 == mul(qa.ul, qb.ul, zero)
        px4 == mul(s[2], t[2], px1)
        px5 == mul(s[3], t[3], px4)
        px3 == mul(s[1], t[1], zero)
        d == element_op_twice_nontransposed(qc.dl, qc.dr, px5)
        r == element_op_twice_nontransposed(d[2], element_op2(qc.ur, px4, "add"), px3)
    IN  [ul |-> element_op2(mul(qa.ur, qb.dl, qc.ul), px1, "add"),
         dl |-> mul(qa.dr, t[4], d[1]), dr |-> r[1], ur |-> mul(s[4], qb.dr, r[2])]
strassen_winograd_multiply_and_add_interleaved(A, B, C) ==
    IF BaseCase(A, C) THEN recursive_multiply_and_add(A, B, C)
    ELSE LET qa == padding_quarterer(A)
             qb == padding_quarterer(B)
         IN  Joined(C, InterleavedQuarters(qa, qb, padding_quarterer(C), strassen_winograd_preaddition_a(qa),
                                           strassen_winograd_preaddition_b(qb)))

-----------------------------------------------------------------------------
(* Algorithm 3 descends two levels at once: every element of a block of the  *)
(* 16 parts of A and B is fed through a quadtree into 49 factors, and the    *)
(* elements of the 49 products are read back the same way. A factor is a     *)
(* view where it is a part of A (of B), and else a new matrix.               *)

row_of(q) == IF q \in {"dl", "dr"} THEN 1 ELSE 0
col_of(q) == IF q \in {"ur", "dr"} THEN 1 ELSE 0
Products == 1..7
Leaves == Products \X Products

Sum(x, y) == [i \in Places |-> x[i] + y[i]] \o <<>>
Difference(x, y) == [i \in Places |-> x[i] - y[i]] \o <<>>
And(x, y) == x /\ y
static_quadtree(x, y, f(_, _)) == [q \in Quarters |-> f(x[q], y[q])] @@ <<>>

matrix_to_quadtree(M, row, col, f(_)) ==
    [q \in Quarters |-> [r \in Quarters |->
        f(block(M, (2 * row_of(q) + row_of(r)) * (M.h \div 4) + row, (2 * col_of(q) + col_of(r)) * (M.w \div 4) + col))]
        @@ <<>>] @@ <<>>
begin_reading_block(M, row, col) == matrix_to_quadtree(M, row, col, LAMBDA b : ~b.init)
read_element(M, row, col) == matrix_to_quadtree(M, row, col, LAMBDA b : b.e)

TermsA(v, plus(_, _), minus(_, _)) ==
    LET s1 == plus(v["dl"], v["dr"])
        s2 == minus(s1, v["ul"])
        s3 == minus(v["ul"], v["dl"])
        s4 == minus(v["ur"], s2)
    IN  <<v["ul"], v["ur"], s1, s2, s3, s4, v["dr"]>>
TermsB(v, plus(_, _), minus(_, _)) ==
    LET t1 == minus(v["ur"], v["ul"])
        t2 == minus(v["dr"], t1)
        t3 == minus(v["dr"], v["ur"])
        t4 == minus(v["dl"], t2)
    IN  <<v["ul"], v["dl"], t1, t2, t3, v["dr"], t4>>
FedA(v, p, plus(_, _), minus(_, _)) ==
    LET plus1(x, y) == static_quadtree(x, y, plus)
        minus1(x, y) == static_quadtree(x, y, minus)
    IN  TermsA(TermsA(v, plus1, minus1)[p[1]], plus, minus)[p[2]]
FedB(v, p, plus(_, _), minus(_, _)) ==
    LET plus1(x, y) == static_quadtree(x, y, plus)
        minus1(x, y) == static_quadtree(x, y, minus)
    IN  TermsB(TermsB(v, plus1, minus1)[p[1]], plus, minus)[p[2]]
Terms(p, plus(_, _)) ==
    LET u2 == plus(p[1], p[4])
        u3 == plus(p[5], u2)
        u6 == plus(u2, p[3])
    IN  [ul |-> plus(p[1], p[2]), ur |-> plus(u6, p[6]), dl |-> plus(u3, p[7]), dr |-> plus(p[5], u6)]
Collected(x, plus(_, _)) ==
    LET plus1(a, b) == static_quadtree(a, b, plus)
    IN  Terms([i \in Products |-> Terms([j \in Products |-> x[<<i, j>>]], plus)] \o <<>>, plus1)

feed_a_element(v, p) == FedA(v, p, Sum, Difference)
feed_b_element(v, p) == FedB(v, p, Sum, Difference)
(* A fed block is zero if all that was fed into it was.                      *)
end_feeding_a_block(zb, p) == FedA(zb, p, And, And)
end_feeding_b_block(zb, p) == FedB(zb, p, And, And)
fsw_read_element(x) == Collected(x, Sum)
fsw_end_reading_block(zb) == Collected(zb, And)

(* The factors of product p; n times l and n times l blocks.                 *)
Exists(p, views) == \A k \in DOMAIN p : p[k] \in views
Offset(p, numbers, part) == Total(Len(p), LAMBDA k : IF p[k + 1] \in numbers THEN part * 2 ^ (Len(p) - 1 - k) ELSE 0)
leaf_a(A, n, l, p) ==
    IF Exists(p, {1, 2, 7}) THEN submatrix(A, n, l, Offset(p, {7}, n), Offset(p, {2, 7}, l))
    ELSE Matrix(n, l, FALSE, LAMBDA row, col :
            IF end_feeding_a_block(begin_reading_block(A, row, col), p) THEN ZeroBlock
            ELSE Written(feed_a_element(read_element(A, row, col), p)))
leaf_b(B, n, m, l, p) ==
    IF Exists(p, {1, 2, 6}) THEN submatrix(B, n, l, Offset(p, {2, 6}, l), Offset(p, {6}, m))
    ELSE Matrix(n, l, FALSE, LAMBDA row, col :
            IF row >= l \/ col >= m \/ end_feeding_b_block(begin_reading_block(B, row, col), p) THEN ZeroBlock
            ELSE Written(feed_b_element(read_element(B, row, col), p)))

QuarterOf(i, j) == IF i = 0 THEN (IF j = 0 THEN "ul" ELSE "ur") ELSE (IF j = 0 THEN "dl" ELSE "dr")
feed_and_add(C, row, col, v, zb) ==
    LET i == row \div (C.h \div 4)
        j == col \div (C.w \div 4)
        q == QuarterOf(i \div 2, j \div 2)
        r == QuarterOf(i % 2, j % 2)
        b == block(C, row, col)
    IN  IF zb[q][r] THEN b ELSE Written(Sum(b.e, v[q][r]))

use_feedable_sw(A, B, C) ==
    LET n == C.h \div 4
        m == C.w \div 4
        l == A.w \div 4
        c == [p \in Leaves |-> recursive_multiply_and_add(leaf_a(A, n, l, p), leaf_b(B, n, m, l, p), new_matrix(n, m, FALSE))]
             @@ <<>>
        value == Matrix(n, m, FALSE, LAMBDA row, col : fsw_read_element([p \in Leaves |-> block(c[p], row, col).e]))
        zb == Matrix(n, m, FALSE, LAMBDA row, col : fsw_end_reading_block([p \in Leaves |-> ~block(c[p], row, col).init]))
    IN  Matrix(C.h, C.w, C.tr, LAMBDA row, col :
            feed_and_add(C, row, col, block(value, row % n, col % m), block(zb, row % n, col % m)))

choose_level_for_feedable_sw(A, B, C) ==
    IF ilog2_ceil(Minimum(A.w, Minimum(C.w, C.h))) >= 2 THEN use_feedable_sw(A, B, C)
    ELSE recursive_multiply_and_add(A, B, C)

Padded(M, power) ==
    submatrix(M, round_up_to_power_of_two(M.h, power), round_up_to_power_of_two(M.w, power), 0, 0)

multi_level_strassen_winograd_multiply_and_add(A, B, C) ==
    LET p == ilog2_ceil(Minimum(A.w, Minimum(C.w, C.h)))
    IN  submatrix(choose_level_for_feedable_sw(Padded(A, p), Padded(B, p), Padded(C, p)), C.h, C.w, 0, 0)

-----------------------------------------------------------------------------
(* Algorithm 6 descends three levels at once and feeds whole blocks.         *)

MAX_NUM_LEVELS == 3
BASE_CASE == 2
Grains == Products \X Products \X Products

(* The blocks at (row, col) of the 64 parts of a matrix.                     *)
matrix_to_quadtree_block_grained(M, row, col) ==
    Matrix(8, 8, M.tr, LAMBDA i, j : block(M, i * (M.h \div 8) + row, j * (M.w \div 8) + col))

FeedA(bl, i) ==
    LET q == quarterer(bl) IN (<<q.ul, q.ur>> \o strassen_winograd_preaddition_a(q) \o <<q.dr>>)[i]
FeedB(bl, i) ==
    LET q == quarterer(bl)
        t == strassen_winograd_preaddition_b(q)
    IN  <<q.ul, q.dl, t[1], t[2], t[3], q.dr, t[4]>>[i]
RECURSIVE feed_a(_, _)
feed_a(bl, p) == IF p = <<>> THEN bl ELSE feed_a(FeedA(bl, Head(p)), Tail(p))
RECURSIVE feed_b(_, _)
feed_b(bl, p) == IF p = <<>> THEN bl ELSE feed_b(FeedB(bl, Head(p)), Tail(p))

GrainOffset(p, numbers, part) == Offset(p, numbers, part)
grain_a(A, n, l, p) ==
    IF Exists(p, {1, 2, 7}) THEN submatrix(A, n, l, GrainOffset(p, {7}, n), GrainOffset(p, {2, 7}, l))
    ELSE Matrix(n, l, FALSE, LAMBDA row, col :
            block_op2(ZeroBlock, FALSE, block(feed_a(matrix_to_quadtree_block_grained(A, row, col), p), 0, 0), A.tr, "add"))
grain_b(B, n, m, l, p) ==
    IF Exists(p, {1, 2, 6}) THEN submatrix(B, n, l, GrainOffset(p, {2, 6}, l), GrainOffset(p, {6}, m))
    ELSE Matrix(n, l, FALSE, LAMBDA row, col :
            IF row >= l \/ col >= m THEN ZeroBlock
            ELSE block_op2(ZeroBlock, FALSE, block(feed_b(matrix_to_quadtree_block_grained(B, row, col), p), 0, 0), B.tr, "add"))

RECURSIVE read_and_add(_, _, _, _, _)
read_and_add(c, row, col, p, bl) ==
    LET read(path, b) == read_and_add(c, row, col, path, b)
        q == quarterer(bl)
        zero == new_matrix(q.ul.h, q.ul.w, q.ul.tr)
        px1 == read(Append(p, 1), zero)
        px4 == read(Append(p, 4), px1)
        px5 == read(Append(p, 5), px4)
        px3 == read(Append(p, 3), zero)
        d == element_op_twice_nontransposed(q.dl, q.dr, px5)
        r == element_op_twice_nontransposed(d[2], element_op2(q.ur, px4, "add"), px3)
    IN  IF Len(p) = MAX_NUM_LEVELS THEN element_op2(bl, submatrix(c[p], bl.h, bl.w, row, col), "add")
        ELSE combination([ul |-> element_op2(read(Append(p, 2), q.ul), px1, "add"), dl |-> read(Append(p, 7), d[1]),
                          dr |-> r[1], ur |-> read(Append(p, 6), r[2])])

RECURSIVE multi_level_strassen_winograd_multiply_and_add_block_grained(_, _, _)
use_feedable_sw_block_grained(A, B, C) ==
    LET n == C.h \div 8
        m == C.w \div 8
        l == A.w \div 8
        c == [p \in Grains |-> multi_level_strassen_winograd_multiply_and_add_block_grained(
                 grain_a(A, n, l, p), grain_b(B, n, m, l, p), new_matrix(n, m, FALSE))] @@ <<>>
        added == Matrix(n, m, C.tr, LAMBDA row, col : read_and_add(c, row, col, <<>>, matrix_to_quadtree_block_grained(C, row, col)))
    IN  Matrix(C.h, C.w, C.tr, LAMBDA row, col : block(block(added, row % n, col % m), row \div n, col \div m))

(* The second factor given to use_feedable_sw_block_grained is A.            *)
multi_level_strassen_winograd_multiply_and_add_block_grained(A, B, C) ==
    LET levels == ilog2_ceil(Minimum(A.w, Minimum(C.w, C.h)))
        num_levels == Minimum(levels, MAX_NUM_LEVELS)
        padded_a == Padded(A, num_levels)
    IN  IF levels > BASE_CASE
        THEN submatrix(use_feedable_sw_block_grained(padded_a, padded_a, Padded(C, num_levels)), C.h, C.w, 0, 0)
        ELSE strassen_winograd_multiply_and_add_interleaved(A, B, C)

-----------------------------------------------------------------------------
(* A matrix and a vector; z holds height, x width elements. flip: the vector *)
(* stands on the left.                                                       *)

BlockTimesVector(a, ta, x, z, ox, oz, flip) ==
    [i \in DOMAIN z |->
        LET row == i - 1 - oz
        IN  IF ~a.init \/ row \notin 0..(Side - 1) THEN z[i]
            ELSE z[i] + Total(Minimum(Side, Len(x) - ox), LAMBDA col :
                     x[ox + col + 1] * a.e[(IF flip THEN switch_major_index(col, row, ta)
                                            ELSE switch_major_index(row, col, ta)) + 1])] \o <<>>
matrix_col_vector_block_plain(a, ta, x, z, ox, oz) == BlockTimesVector(a, FALSE, x, z, ox, oz, FALSE)
matrix_col_vector_block(a, ta, x, z, ox, oz) == BlockTimesVector(a, ta, x, z, ox, oz, FALSE)
matrix_row_vector_block(y, a, ta, z, oy, oz) == BlockTimesVector(a, ta, y, z, oy, oz, TRUE)

naive_col_vector(A, x, z, ox, oz) ==
    LET after[k \in 0..(A.h * A.w)] ==
            IF k = 0 THEN z
            ELSE LET row == (k - 1) \div A.w
                     col == (k - 1) % A.w
                 IN  matrix_col_vector_block(block(A, row, col), A.tr, x, after[k - 1], (ox + col) * Side, (oz + row) * Side)
    IN  after[A.h * A.w]
naive_row_vector(A, y, z, oy, oz) ==
    LET after[k \in 0..(A.h * A.w)] ==
            IF k = 0 THEN z
            ELSE LET row == (k - 1) \div A.w
                     col == (k - 1) % A.w
                 IN  matrix_row_vector_block(y, block(A, row, col), A.tr, after[k - 1], (oy + row) * Side, (oz + col) * Side)
    IN  after[A.h * A.w]

RECURSIVE recursive_matrix_col_vector_multiply_and_add(_, _, _, _, _)
recursive_matrix_col_vector_multiply_and_add(A, x, z, ox, oz) ==
    LET mul(a, v, ov, oa) == recursive_matrix_col_vector_multiply_and_add(a, x, v, ov, oa)
        q == approximative_quarterer(A)
        across == ox + q.ul.w
        down == oz + q.ul.h
    IN  IF A.h * A.w = 0 THEN z
        ELSE IF A.h = 1 \/ A.w = 1 THEN naive_col_vector(A, x, z, ox, oz)
        ELSE mul(q.dl, mul(q.dr, mul(q.ur, mul(q.ul, z, ox, oz), across, oz), across, down), ox, down)
RECURSIVE recursive_matrix_row_vector_multiply_and_add(_, _, _, _, _)
recursive_matrix_row_vector_multiply_and_add(y, A, z, oy, oz) ==
    LET mul(a, v, ov, oa) == recursive_matrix_row_vector_multiply_and_add(y, a, v, ov, oa)
        q == approximative_quarterer(A)
        down == oy + q.ul.h
        across == oz + q.ul.w
    IN  IF A.h * A.w = 0 THEN z
        ELSE IF A.h = 1 \/ A.w = 1 THEN naive_row_vector(A, y, z, oy, oz)
        ELSE mul(q.ur, mul(q.dr, mul(q.dl, mul(q.ul, z, oy, oz), down, oz), down, across), oy, across)

vector_sum(x, y) == [i \in DOMAIN x |-> x[i] + y[i]] \o <<>>
vector_difference_swapped(x, y) == [i \in DOMAIN x |-> y[i] - x[i]] \o <<>>
vector_difference(x, y) == [i \in DOMAIN x |-> x[i] - y[i]] \o <<>>
vector_scaled(x, scalar) == [i \in DOMAIN x |-> x[i] * scalar] \o <<>>
vector_zero(n) == [i \in 1..n |-> 0] \o <<>>
dot_product(y, x) == Total(Len(y), LAMBDA i : y[i + 1] * x[i + 1])

multiply_column(A, height, x) == recursive_matrix_col_vector_multiply_and_add(A, x, vector_zero(height), 0, 0)
multiply_from_left(y, A, width) == recursive_matrix_row_vector_multiply_and_add(y, A, vector_zero(width), 0, 0)

-----------------------------------------------------------------------------
multiply(algorithm, A, B) ==
    LET res == new_matrix(A.h, B.w, FALSE)
    IN  CASE algorithm = 0 -> naive_multiply_and_add(A, B, res)
          [] algorithm = 1 -> recursive_multiply_and_add(A, B, res)
          [] algorithm = 2 -> strassen_winograd_multiply_and_add(A, B, res)
          [] algorithm = 3 -> multi_level_strassen_winograd_multiply_and_add(A, B, res)
          [] algorithm = 4 -> strassen_winograd_multiply(A, B, res)
          [] algorithm = 5 -> strassen_winograd_multiply_and_add_interleaved(A, B, res)
          [] algorithm = 6 -> multi_level_strassen_winograd_multiply_and_add_block_grained(A, B, res)
          [] OTHER -> res

(* Every third block of an operand was never written.                        *)
Operand(h, w, tr, seed) ==
    Matrix(h, w, tr, LAMBDA row, col :
        IF (row + 2 * col + seed) % 3 = 0 THEN ZeroBlock
        ELSE Written([i \in Places |-> ((7 * row + 11 * col + 3 * i + 5 * seed) % 5) - 2] \o <<>>))
Vector(n, seed) == [i \in 1..n |-> ((4 * i + 3 * seed) % 7) - 3] \o <<>>

Init ==
    /\ ref = Null
    /\ \E c \in Cases :
        obj = [c |-> c, A |-> Operand(c.n, c.l, c.ta, c.seed), B |-> Operand(c.l, c.m, c.tb, c.seed + c.b), res |-> <<>>]

Multiply ==
    /\ obj.c.kind = "multiply"
    /\ obj.res = <<>>
    /\ obj' = [obj EXCEPT !.res = <<multiply(obj.c.op, obj.A, obj.B)>>]
    /\ UNCHANGED ref

(* C = A op B, C op= A, C = op C, a copy; A and B are of one size.           *)
ElementOp ==
    /\ obj.c.kind = "element"
    /\ obj.res = <<>>
    /\ LET C == new_matrix(obj.A.h, obj.A.w, FALSE)
           op == obj.c.op
       IN  obj' = [obj EXCEPT !.res =
                      IF op = "times" THEN <<element_op2(C, obj.A, op), element_op1(obj.A, op), copied(obj.A), transpose(obj.A)>>
                      ELSE <<element_op3(C, obj.A, obj.B, op), element_op2(obj.A, obj.B, op), copied(obj.A), transpose(obj.A)>>]
    /\ UNCHANGED ref

(* Both products of a matrix and a vector, of A with its last row and column *)
(* of elements out of use (c.cut).                                           *)
VectorProduct ==
    /\ obj.c.kind = "vector"
    /\ obj.res = <<>>
    /\ LET height == obj.A.h * Side - obj.c.cut
           width == obj.A.w * Side - obj.c.cut
           x1 == Vector(width, obj.c.seed)
           x2 == Vector(width, obj.c.seed + 1)
           y == Vector(height, obj.c.seed)
           Ax(x) == multiply_column(obj.A, height, x)
       IN  obj' = [obj EXCEPT !.res = <<Ax(x1), multiply_from_left(y, obj.A, width),
                      dot_product(y, Ax(x1)), dot_product(multiply_from_left(y, obj.A, width), x1),
                      Ax(vector_difference(vector_sum(x1, vector_scaled(x2, 3)), x2)),
                      vector_sum(Ax(x1), vector_scaled(Ax(x2), 2))>>]
    /\ UNCHANGED ref

Next == Multiply \/ ElementOp \/ VectorProduct

-----------------------------------------------------------------------------
\* Matrices have the blocks of their size, blocks the elements of theirs.
IsMatrix(M) == Len(M.bl) = M.h * M.w /\ \A i \in DOMAIN M.bl : DOMAIN M.bl[i].e = Places
TypeOK ==
    /\ IsMatrix(obj.A) /\ IsMatrix(obj.B)
    /\ obj.c.kind # "vector" => \A i \in DOMAIN obj.res : IsMatrix(obj.res[i])

Done(kind) == obj.c.kind = kind /\ obj.res # <<>>
ProductOf(A, B) ==
    [rc \in Rows(A) \X Columns(B) |-> Total(A.w * Side, LAMBDA k : Element(A, rc[1], k) * Element(B, k, rc[2]))] @@ <<>>

\* Whatever algorithm is chosen (matrix::multiply, 0 to 6), and whichever of its zero-block shortcuts, quarterings,
\* paddings and quadtrees the shapes lead through, the result is the product of the two matrices; with an invalid
\* number it stays zero.
ProductExact ==
    Done("multiply") => IF obj.c.op \in 0..6 THEN Elements(obj.res[1]) = ProductOf(obj.A, obj.B)
                        ELSE obj.res[1] = new_matrix(obj.A.h, obj.B.w, FALSE)

\* The element operations (element_op, the copy constructor, transpose) give what the elements of the operands give,
\* in whatever order the operands' blocks are stored and whichever of them were never written; a block of a sum is
\* left unwritten only if both blocks were.
ElementOpsExact ==
    Done("element") =>
        LET A == Elements(obj.A)
            B == Elements(obj.B)
            Expected(rc) == CASE obj.c.op = "add" -> A[rc] + B[rc]
                              [] obj.c.op = "sub" -> A[rc] - B[rc]
                              [] obj.c.op = "times" -> Scalar * A[rc]
        IN  /\ \A i \in 1..2 : \A rc \in DOMAIN A : Element(obj.res[i], rc[1], rc[2]) = Expected(rc)
            /\ Elements(obj.res[3]) = A /\ ~obj.res[3].tr
            /\ \A rc \in DOMAIN A : Element(obj.res[4], rc[2], rc[1]) = A[rc]
            /\ obj.c.op # "times" => \A i \in DOMAIN obj.res[1].bl :
                  obj.res[1].bl[i].init = (obj.A.bl[i].init \/ obj.B.bl[i].init)

\* A matrix times a column, and a row times a matrix (recursive_matrix_col_vector_multiply_and_add and its twin), are
\* what the elements in use give, also when the last blocks are only partly in use.
VectorProductsExact ==
    Done("vector") =>
        LET height == Len(obj.res[1])
            width == Len(obj.res[2])
            x == Vector(width, obj.c.seed)
            y == Vector(height, obj.c.seed)
        IN  /\ \A i \in 1..height : obj.res[1][i] = Total(width, LAMBDA k : Element(obj.A, i - 1, k) * x[k + 1])
            /\ \A j \in 1..width : obj.res[2][j] = Total(height, LAMBDA k : y[k + 1] * Element(obj.A, k, j - 1))

\* The operations of row_vector and column_vector fit the products of matrix: y (A x) = (y A) x, and A times a linear
\* combination of vectors is the combination of the products.
VectorLaws ==
    Done("vector") => obj.res[3] = obj.res[4] /\ obj.res[5] = obj.res[6]
-----------------------------------------------------------------------------
\* Algorithm 6 of matrix::multiply for matrices of more than 4 blocks a side, where it descends three levels at once.
GrainedCases ==
    [kind : {"multiply"}, op : {6}, n : {5}, l : {5}, m : {5}, ta : {FALSE}, tb : {FALSE}, seed : {1}, b : {1}, cut : {0}]
=============================================================================
