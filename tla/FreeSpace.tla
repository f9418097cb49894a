------------------------------ MODULE FreeSpace ------------------------------
(***************************************************************************)
(* The free space of one disk, as disk_allocator keeps it: an ordered map  *)
(* free_space from the first byte of a free region to its size, with the   *)
(* counters free_bytes and disk_bytes.  The three form one record, and     *)
(* each operator is one member function that runs under the mutex.         *)
(***************************************************************************)
EXTENDS Integers, FiniteSets

\* disk_allocator before grow_file(cfg.size).
NoDisk == [free_space |-> [p \in {} |-> 0], free_bytes |-> 0, disk_bytes |-> 0]

Interval(pos, size) == pos..(pos + size - 1)

\* free_space.upper_bound(pos): no element for end().
UpperBound(F, pos) ==
    {q \in DOMAIN F : q > pos /\ \A p \in DOMAIN F : p > pos => q <= p}

\* The element before upper_bound(pos).  When upper_bound is begin() the code
\* has pred == succ, which the test for an overlap and, through
\* succ_is_not_the_first and size() > 1, the merge leave aside: no element.
Preceding(F, pos) ==
    {q \in DOMAIN F : q <= pos /\ \A p \in DOMAIN F : p <= pos => p <= q}

\* Mutant of DoubleDeallocation: only the predecessor is examined.
DoubleDeallocation_pred(F, pos, size) ==
    \E p \in Preceding(F, pos) : p + F[p] > pos

\* add_free_region throws bad_ext_alloc: part of the region is free already.
DoubleDeallocation(F, pos, size) ==
    \/ \E p \in Preceding(F, pos) : p + F[p] > pos
    \/ \E q \in UpperBound(F, pos) : pos + size > q

\* The new map: the region merged with the neighbours it touches.
Insert(F, pos, size) ==
    LET before == {p \in Preceding(F, pos) : p + F[p] = pos}
        after == {q \in UpperBound(F, pos) : q = pos + size}
        first == IF before = {} THEN pos ELSE CHOOSE p \in before : TRUE
        end == IF after = {} THEN pos + size ELSE pos + size + F[pos + size]
    IN  [p \in (DOMAIN F \ (before \cup after)) \cup {first} |->
            IF p = first THEN end - first ELSE F[p]]

\* Mutant of add_free_region: no merge with the predecessor.
add_free_region_nomerge(D, pos, size) ==
    LET after == {q \in DOMAIN D.free_space : q = pos + size}
        len == IF after = {} THEN size ELSE size + D.free_space[pos + size]
    IN  [D EXCEPT !.free_space =
                    [p \in (DOMAIN D.free_space \ after) \cup {pos} |->
                        IF p = pos THEN len ELSE D.free_space[p]],
                  !.free_bytes = @ + size]

\* Mutant of add_free_region: the counter grows by the merged region's size.
add_free_region_count(D, pos, size) ==
    LET F == Insert(D.free_space, pos, size)
    IN  [D EXCEPT !.free_space = F,
                  !.free_bytes = @ + F[CHOOSE p \in DOMAIN F : p <= pos /\ pos < p + F[p]]]

\* add_free_region, when it does not throw.
add_free_region(D, pos, size) ==
    [D EXCEPT !.free_space = Insert(D.free_space, pos, size),
              !.free_bytes = @ + size]

grow_file(D, extend_bytes) ==
    IF extend_bytes = 0 THEN D
    ELSE [add_free_region(D, D.disk_bytes, extend_bytes) EXCEPT !.disk_bytes = @ + extend_bytes]

\* find_if with first_fit: the lowest region that is large enough, if any.
FirstFit(D, size) ==
    LET fits == {p \in DOMAIN D.free_space : D.free_space[p] >= size}
    IN  {p \in fits : \A q \in fits : p <= q}

\* Mutant of TakeFrom: the rest of a larger region is dropped.
TakeFrom_norest(D, p, size) ==
    LET F == D.free_space
    IN  [D EXCEPT !.free_space = [q \in DOMAIN F \ {p} |-> F[q]], !.free_bytes = @ - size]

\* Mutant of TakeFrom: the region is not erased.
TakeFrom_keep(D, p, size) == [D EXCEPT !.free_bytes = @ - size]

\* Mutant of TakeFrom: a region that is used up leaves an empty one behind.
TakeFrom_empty(D, p, size) ==
    LET F == D.free_space
    IN  [D EXCEPT !.free_space = [q \in (DOMAIN F \ {p}) \cup {p + size} |->
                                     IF q = p + size THEN F[p] - size ELSE F[q]],
                  !.free_bytes = @ - size]

\* The first `size' bytes of the region at p leave the free space.
TakeFrom(D, p, size) ==
    LET F == D.free_space
        rest == IF F[p] > size THEN {p + size} ELSE {}
    IN  [D EXCEPT !.free_space = [q \in (DOMAIN F \ {p}) \cup rest |->
                                     IF q \in rest THEN F[p] - size ELSE F[q]],
                  !.free_bytes = @ - size]

-----------------------------------------------------------------------------

\* The bytes in some free region.
FreeBytes(F) == UNION {Interval(p, F[p]) : p \in DOMAIN F}

\* No region is empty, and between two regions there is a byte that is not
\* free: regions do not overlap, and neighbours have been merged.
Separated(F) ==
    /\ \A p \in DOMAIN F : F[p] > 0
    /\ \A p, q \in DOMAIN F : p < q => p + F[p] < q
=============================================================================
