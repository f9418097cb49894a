--------------------------- MODULE FreeSpaceProofs ---------------------------
(***************************************************************************)
(* What the operators on the free space of a disk do, for maps of any      *)
(* size: they keep the regions apart, add or take exactly the bytes they   *)
(* are asked to, and find an overlap whenever there is one.                *)
(***************************************************************************)
EXTENDS FreeSpace, FiniteSetTheorems, WellFoundedInduction, TLAPS

\* The maps from positions to sizes that occur.
Regular(F) ==
    /\ F = [p \in DOMAIN F |-> F[p]]
    /\ DOMAIN F \subseteq Nat
    /\ \A p \in DOMAIN F : F[p] \in Nat

\* A set of numbers has a least element.
LEMMA LeastNumber ==
    ASSUME NEW S, S \subseteq Nat, S # {}
    PROVE  \E m \in S : \A n \in S : m <= n
<1>1. PICK m \in S : \A n \in S : ~(<<n, m>> \in OpToRel(<, Nat))
  BY Zenon, NatLessThanWellFounded, WFMin
<1>2. \A n \in S : ~(n < m)
  BY Zenon, <1>1 DEF OpToRel
<1> QED
  BY <1>2


\* The bytes of a map, one at a time.
LEMMA InFreeBytes ==
    ASSUME NEW F, Regular(F)
    PROVE  /\ FreeBytes(F) \subseteq Nat
           /\ \A x \in Nat : x \in FreeBytes(F) <=> \E p \in DOMAIN F : p <= x /\ x < p + F[p]
  BY DEF Regular, FreeBytes, Interval

LEMMA InInterval ==
    ASSUME NEW pos \in Nat, NEW size \in Nat
    PROVE  /\ Interval(pos, size) \subseteq Nat
           /\ \A x \in Nat : x \in Interval(pos, size) <=> pos <= x /\ x < pos + size
  BY DEF Interval

\* A region that is not free lies between two free ones.
LEMMA Between ==
    ASSUME NEW F, Regular(F), Separated(F), NEW pos \in Nat, NEW size \in Nat \ {0},
           Interval(pos, size) \cap FreeBytes(F) = {}
    PROVE  \A p \in DOMAIN F : p + F[p] <= pos \/ pos + size <= p
<1> SUFFICES ASSUME NEW p \in DOMAIN F, p + F[p] > pos, pos + size > p
             PROVE  FALSE
  BY DEF Regular
<1>1. p \in Nat /\ F[p] \in Nat /\ F[p] > 0
  BY Zenon DEF Regular, Separated
<1>2. CASE p <= pos
  <2>1. pos \in FreeBytes(F)
    BY Zenon, <1>1, <1>2, InFreeBytes
  <2>2. pos \in Interval(pos, size)
    BY InInterval
  <2> QED
    BY Zenon, <2>1, <2>2
<1>3. CASE p > pos
  <2>1. p \in FreeBytes(F)
    BY <1>1, InFreeBytes
  <2>2. p \in Interval(pos, size)
    BY <1>1, <1>3, InInterval
  <2> QED
    BY Zenon, <2>1, <2>2
<1> QED
  BY <1>1, <1>2, <1>3

\* The neighbours that add_free_region merges with are those that touch.
LEMMA Neighbours ==
    ASSUME NEW F, Regular(F), Separated(F), NEW pos \in Nat, NEW size \in Nat \ {0},
           Interval(pos, size) \cap FreeBytes(F) = {}
    PROVE  /\ {p \in Preceding(F, pos) : p + F[p] = pos} = {p \in DOMAIN F : p + F[p] = pos}
           /\ {q \in UpperBound(F, pos) : q = pos + size} = {q \in DOMAIN F : q = pos + size}
<1>1. \A p \in DOMAIN F : p + F[p] <= pos \/ pos + size <= p
  BY Zenon, Between
<1>2. \A p \in DOMAIN F : p \in Nat /\ F[p] \in Nat /\ F[p] > 0
  BY Zenon DEF Regular, Separated
<1>3. ASSUME NEW p \in DOMAIN F, p + F[p] = pos
      PROVE  p \in Preceding(F, pos)
  <2>1. \A q \in DOMAIN F : q <= pos => q <= p
    BY <1>2, <1>3 DEF Separated
  <2> QED
    BY <1>2, <1>3, <2>1 DEF Preceding
<1>4. ASSUME NEW q \in DOMAIN F, q = pos + size
      PROVE  q \in UpperBound(F, pos)
  <2>1. \A p \in DOMAIN F : p > pos => q <= p
    BY <1>1, <1>2, <1>4
  <2> QED
    BY <1>2, <1>4, <2>1 DEF UpperBound
<1> QED
  BY Zenon, <1>3, <1>4 DEF Preceding, UpperBound

\* The region that results from the merge: from `first' up to `end'.
Merged(F, G, pos, size, first, end) ==
    /\ first \in Nat /\ end \in Nat
    /\ first <= pos /\ pos + size <= end
    /\ DOMAIN G \subseteq DOMAIN F \cup {first} /\ first \in DOMAIN G
    /\ G = [p \in DOMAIN G |-> G[p]]
    /\ G[first] = end - first
    /\ \A p \in DOMAIN G : p # first => G[p] = F[p] /\ (p + F[p] < first \/ end < p)
    /\ \A p \in DOMAIN F : \/ p \in DOMAIN G /\ p # first
                           \/ first <= p /\ p + F[p] <= end
    /\ \A x \in Nat : first <= x /\ x < end
          => \/ pos <= x /\ x < pos + size
             \/ \E p \in DOMAIN F : p <= x /\ x < p + F[p]

\* Insert merges the region with the neighbours it touches.
LEMMA InsertMerges ==
    ASSUME NEW F, Regular(F), Separated(F), NEW pos \in Nat, NEW size \in Nat \ {0},
           Interval(pos, size) \cap FreeBytes(F) = {}
    PROVE  \E first, end : Merged(F, Insert(F, pos, size), pos, size, first, end)
<1> DEFINE before == {p \in DOMAIN F : p + F[p] = pos}
           after == {q \in DOMAIN F : q = pos + size}
           first == IF before = {} THEN pos ELSE CHOOSE p \in before : TRUE
           end == IF after = {} THEN pos + size ELSE pos + size + F[pos + size]
           G == [p \in (DOMAIN F \ (before \cup after)) \cup {first} |->
                    IF p = first THEN end - first ELSE F[p]]
<1>1. Insert(F, pos, size) = G
  <2>1. /\ {p \in Preceding(F, pos) : p + F[p] = pos} = before
        /\ {q \in UpperBound(F, pos) : q = pos + size} = after
    BY Neighbours
  <2> HIDE DEF before, after
  <2> QED
    BY <2>1, Zenon DEF Insert
<1>2. \A p \in DOMAIN F : p \in Nat /\ F[p] \in Nat /\ F[p] > 0
  BY Zenon DEF Regular, Separated
<1>3. \A p \in DOMAIN F : p + F[p] <= pos \/ pos + size <= p
  BY Zenon, Between
<1>4. /\ first \in Nat /\ first <= pos
      /\ before = {} => first = pos
      /\ before # {} => first \in DOMAIN F /\ first + F[first] = pos
  BY <1>2
<1>5. /\ end \in Nat /\ pos + size <= end
      /\ after = {} => end = pos + size
      /\ after # {} => pos + size \in DOMAIN F /\ end = pos + size + F[pos + size]
  BY <1>2
<1>6. \A p \in before : p = first
  <2>1. \A p, q \in before : p = q
    BY <1>2 DEF Separated
  <2> QED
    BY Zenon, <1>4, <2>1
<1> HIDE DEF first, end
<1>7. \A p \in DOMAIN F : p \notin before /\ p \notin after
          => p # first /\ (p + F[p] < first \/ end < p)
  <2> SUFFICES ASSUME NEW p \in DOMAIN F, p \notin before, p \notin after
               PROVE  p # first /\ (p + F[p] < first \/ end < p)
    BY Zenon
  <2>1. CASE p + F[p] < pos
    <3>1. CASE before = {}
      BY <1>2, <1>4, <2>1, <3>1
    <3>2. CASE before # {}
      <4>1. p # first
        BY Zenon, <1>4, <2>1, <3>2
      <4>2. p < first \/ first < p
        BY <1>2, <1>4, <4>1
      <4>3. first < p => FALSE
        BY <1>2, <1>4, <2>1, <3>2 DEF Separated
      <4> QED
        BY Zenon, <1>2, <1>4, <3>2, <4>1, <4>2, <4>3 DEF Separated
    <3> QED
      BY Zenon, <3>1, <3>2
  <2>2. CASE pos + size < p
    <3>1. CASE after = {}
      BY <1>2, <1>4, <1>5, <2>2, <3>1
    <3>2. CASE after # {}
      BY <1>2, <1>4, <1>5, <2>2, <3>2 DEF Separated
    <3> QED
      BY Zenon, <3>1, <3>2
  <2> QED
    BY <1>2, <1>3, <2>1, <2>2
<1>8. \A p \in DOMAIN F : \/ p \in DOMAIN G /\ p # first
                          \/ first <= p /\ p + F[p] <= end
  <2> SUFFICES ASSUME NEW p \in DOMAIN F
               PROVE  \/ p \in DOMAIN G /\ p # first
                      \/ first <= p /\ p + F[p] <= end
    BY Zenon
  <2>1. CASE p \in before
    BY <1>2, <1>4, <1>5, <1>6, <2>1
  <2>2. CASE p \in after
    BY <1>2, <1>4, <1>5, <2>2
  <2>3. CASE p \notin before /\ p \notin after
    BY Zenon, <1>7, <2>3
  <2> QED
    BY Zenon, <2>1, <2>2, <2>3
<1>9. \A x \in Nat : first <= x /\ x < end
          => \/ pos <= x /\ x < pos + size
             \/ \E p \in DOMAIN F : p <= x /\ x < p + F[p]
  <2> SUFFICES ASSUME NEW x \in Nat, first <= x, x < end, ~(pos <= x /\ x < pos + size)
               PROVE  \E p \in DOMAIN F : p <= x /\ x < p + F[p]
    BY Zenon
  <2>1. CASE x < pos
    BY <1>4, <2>1
  <2>2. CASE pos + size <= x
    BY <1>5, <2>2
  <2> QED
    BY <2>1, <2>2
<1>10. Merged(F, G, pos, size, first, end)
  BY Zenon, <1>4, <1>5, <1>7, <1>8, <1>9 DEF Merged
<1> QED
  BY Zenon, <1>1, <1>10

\* What Insert yields: the regions stay apart, and exactly the bytes of the
\* region have been added.
THEOREM InsertAdds ==
    ASSUME NEW F, Regular(F), Separated(F), NEW pos \in Nat, NEW size \in Nat \ {0},
           Interval(pos, size) \cap FreeBytes(F) = {}
    PROVE  /\ Regular(Insert(F, pos, size))
           /\ Separated(Insert(F, pos, size))
           /\ FreeBytes(Insert(F, pos, size)) = FreeBytes(F) \cup Interval(pos, size)
<1> DEFINE G == Insert(F, pos, size)
<1>1. PICK first, end : Merged(F, G, pos, size, first, end)
  BY Zenon, InsertMerges
<1> HIDE DEF G
<1>2. \A p \in DOMAIN F : p \in Nat /\ F[p] \in Nat /\ F[p] > 0
  BY Zenon DEF Regular, Separated
<1>3. Regular(G)
  BY <1>1, <1>2 DEF Merged, Regular
<1>4. Separated(G)
  <2>1. \A p \in DOMAIN G : G[p] > 0
    BY <1>1, <1>2 DEF Merged
  <2>2. ASSUME NEW p \in DOMAIN G, NEW q \in DOMAIN G, p < q
        PROVE  p + G[p] < q
    <3>1. CASE p = first
      BY <1>1, <1>2, <2>2, <3>1 DEF Merged
    <3>2. CASE q = first
      BY <1>1, <1>2, <2>2, <3>2 DEF Merged
    <3>3. CASE p # first /\ q # first
      BY Zenon, <1>1, <1>2, <2>2, <3>3 DEF Merged, Separated
    <3> QED
      BY Zenon, <3>1, <3>2, <3>3
  <2> QED
    BY Zenon, <2>1, <2>2 DEF Separated
<1>5. \A x \in Nat : x \in FreeBytes(G) <=> x \in FreeBytes(F) \/ x \in Interval(pos, size)
  <2> TAKE x \in Nat
  <2>1. ASSUME x \in FreeBytes(G)
        PROVE  x \in FreeBytes(F) \/ x \in Interval(pos, size)
    <3>1. PICK p \in DOMAIN G : p <= x /\ x < p + G[p]
      BY Zenon, <1>3, <2>1, InFreeBytes
    <3>2. CASE p = first
      <4>1. first <= x /\ x < end
        BY <1>1, <3>1, <3>2 DEF Merged
      <4> QED
        BY Zenon, <1>1, <4>1, InFreeBytes, InInterval DEF Merged
    <3>3. CASE p # first
      <4>1. p \in DOMAIN F /\ G[p] = F[p]
        BY Zenon, <1>1, <3>3 DEF Merged
      <4> QED
        BY Zenon, <3>1, <4>1, InFreeBytes
    <3> QED
      BY Zenon, <3>2, <3>3
  <2>2. ASSUME x \in Interval(pos, size)
        PROVE  x \in FreeBytes(G)
    <3>1. first \in DOMAIN G /\ first <= x /\ x < first + G[first]
      <4>1. pos <= x /\ x < pos + size
        BY Zenon, <2>2, InInterval
      <4> QED
        BY <1>1, <4>1 DEF Merged
    <3> QED
      BY Zenon, <1>3, <3>1, InFreeBytes
  <2>3. ASSUME x \in FreeBytes(F)
        PROVE  x \in FreeBytes(G)
    <3>1. PICK p \in DOMAIN F : p <= x /\ x < p + F[p]
      BY Zenon, <2>3, InFreeBytes
    <3>2. CASE p \in DOMAIN G /\ p # first
      <4>1. G[p] = F[p]
        BY Zenon, <1>1, <3>2 DEF Merged
      <4> QED
        BY Zenon, <1>3, <3>1, <3>2, <4>1, InFreeBytes
    <3>3. CASE first <= p /\ p + F[p] <= end
      <4>1. first \in DOMAIN G /\ first <= x /\ x < first + G[first]
        BY <1>1, <1>2, <3>1, <3>3 DEF Merged
      <4> QED
        BY Zenon, <1>3, <4>1, InFreeBytes
    <3> QED
      BY Zenon, <1>1, <3>2, <3>3 DEF Merged
  <2> QED
    BY Zenon, <2>1, <2>2, <2>3
<1>6. FreeBytes(G) = FreeBytes(F) \cup Interval(pos, size)
  <2>1. FreeBytes(G) \subseteq Nat /\ FreeBytes(F) \subseteq Nat /\ Interval(pos, size) \subseteq Nat
    BY Zenon, <1>3, InFreeBytes, InInterval
  <2> QED
    BY Zenon, <1>5, <2>1
<1> QED
  BY Zenon, <1>3, <1>4, <1>6 DEF G

-----------------------------------------------------------------------------

\* The test for a double deallocation looks at two regions of the map only;
\* it finds an overlap with any of them, and nothing else.
THEOREM OverlapFound ==
    ASSUME NEW F, Regular(F), Separated(F), NEW pos \in Nat, NEW size \in Nat \ {0}
    PROVE  DoubleDeallocation(F, pos, size) <=> Interval(pos, size) \cap FreeBytes(F) # {}
<1>1. \A p \in DOMAIN F : p \in Nat /\ F[p] \in Nat /\ F[p] > 0
  BY Zenon DEF Regular, Separated
<1>2. ASSUME NEW p \in Preceding(F, pos), p + F[p] > pos
      PROVE  Interval(pos, size) \cap FreeBytes(F) # {}
  <2>1. pos \in FreeBytes(F)
    BY Zenon, <1>1, <1>2, InFreeBytes DEF Preceding
  <2>2. pos \in Interval(pos, size)
    BY InInterval
  <2> QED
    BY Zenon, <2>1, <2>2
<1>3. ASSUME NEW q \in UpperBound(F, pos), pos + size > q
      PROVE  Interval(pos, size) \cap FreeBytes(F) # {}
  <2>1. q \in DOMAIN F /\ q > pos
    BY Zenon DEF UpperBound
  <2>2. q \in FreeBytes(F)
    BY <1>1, <2>1, InFreeBytes
  <2>3. q \in Interval(pos, size)
    BY <1>1, <1>3, <2>1, InInterval
  <2> QED
    BY Zenon, <2>2, <2>3
<1>4. ASSUME Interval(pos, size) \cap FreeBytes(F) # {}
      PROVE  DoubleDeallocation(F, pos, size)
  <2>1. PICK x : x \in Interval(pos, size) /\ x \in FreeBytes(F)
    BY Zenon, <1>4
  <2>2. x \in Nat /\ pos <= x /\ x < pos + size
    BY Zenon, <2>1, InInterval
  <2>3. PICK p \in DOMAIN F : p <= x /\ x < p + F[p]
    BY Zenon, <2>1, <2>2, InFreeBytes
  <2>4. CASE p <= pos
    <3>1. p + F[p] > pos
      BY <1>1, <2>2, <2>3
    <3>2. \A q \in DOMAIN F : q <= pos => q <= p
      BY <1>1, <3>1 DEF Separated
    <3> QED
      BY Zenon, <2>4, <3>1, <3>2 DEF Preceding, DoubleDeallocation
  <2>5. CASE p > pos
    <3> DEFINE S == {q \in DOMAIN F : q > pos}
    <3>1. S \subseteq Nat /\ p \in S
      BY Zenon, <1>1, <2>5
    <3>2. PICK q \in S : \A r \in S : q <= r
      <4> HIDE DEF S
      <4> QED
        BY Zenon, <3>1, LeastNumber
    <3>3. q \in UpperBound(F, pos)
      BY Zenon, <3>2 DEF UpperBound
    <3>4. pos + size > q
      BY <1>1, <2>2, <2>3, <3>1, <3>2
    <3> QED
      BY Zenon, <3>3, <3>4 DEF DoubleDeallocation
  <2> QED
    BY <1>1, <2>4, <2>5
<1> QED
  BY Zenon, <1>2, <1>3, <1>4 DEF DoubleDeallocation

\* first_fit finds a region whenever one is large enough.
LEMMA FitFound ==
    ASSUME NEW D, Regular(D.free_space), NEW size \in Nat
    PROVE  /\ FirstFit(D, size) \subseteq {p \in DOMAIN D.free_space : D.free_space[p] >= size}
           /\ (\E p \in DOMAIN D.free_space : D.free_space[p] >= size) => FirstFit(D, size) # {}
<1> DEFINE S == {p \in DOMAIN D.free_space : D.free_space[p] >= size}
<1>1. S \subseteq Nat
  BY Zenon DEF Regular
<1>2. ASSUME S # {}
      PROVE  FirstFit(D, size) # {}
  <2>1. PICK m \in S : \A n \in S : m <= n
    <3> HIDE DEF S
    <3> QED
      BY Zenon, <1>1, <1>2, LeastNumber
  <2> QED
    BY Zenon, <2>1 DEF FirstFit
<1> QED
  BY Zenon, <1>2 DEF FirstFit

-----------------------------------------------------------------------------
(* The record of a disk.                                                   *)

\* What holds of it between two critical sections.
Sound(D) ==
    /\ D = [free_space |-> D.free_space, free_bytes |-> D.free_bytes,
            disk_bytes |-> D.disk_bytes]
    /\ Regular(D.free_space) /\ Separated(D.free_space)
    /\ IsFiniteSet(FreeBytes(D.free_space))
    /\ D.free_bytes = Cardinality(FreeBytes(D.free_space))
    /\ D.disk_bytes \in Nat

LEMMA IntervalSize ==
    ASSUME NEW pos \in Nat, NEW size \in Nat
    PROVE  IsFiniteSet(Interval(pos, size)) /\ Cardinality(Interval(pos, size)) = size
<1>1. pos \in Int /\ pos + size - 1 \in Int
  OBVIOUS
<1>2. /\ IsFiniteSet(pos..(pos + size - 1))
      /\ Cardinality(pos..(pos + size - 1)) =
            IF pos > pos + size - 1 THEN 0 ELSE (pos + size - 1) - pos + 1
  BY Zenon, <1>1, FS_Interval
<1> QED
  BY <1>2 DEF Interval

\* add_free_region, on a region no byte of which is free.
THEOREM AddKeepsSound ==
    ASSUME NEW D, Sound(D), NEW pos \in Nat, NEW size \in Nat \ {0},
           Interval(pos, size) \cap FreeBytes(D.free_space) = {}
    PROVE  LET E == add_free_region(D, pos, size)
           IN  /\ Sound(E)
               /\ FreeBytes(E.free_space) = FreeBytes(D.free_space) \cup Interval(pos, size)
               /\ E.disk_bytes = D.disk_bytes
               /\ \E p \in DOMAIN E.free_space : E.free_space[p] >= size
<1> DEFINE F == D.free_space
           E == add_free_region(D, pos, size)
           B == FreeBytes(F)
           I == Interval(pos, size)
<1>1. /\ E = [free_space |-> Insert(F, pos, size), free_bytes |-> D.free_bytes + size,
              disk_bytes |-> D.disk_bytes]
      /\ Regular(F) /\ Separated(F) /\ IsFiniteSet(B) /\ D.free_bytes = Cardinality(B)
      /\ D.disk_bytes \in Nat
  <2>1. /\ D = [free_space |-> F, free_bytes |-> D.free_bytes, disk_bytes |-> D.disk_bytes]
        /\ Regular(F) /\ Separated(F) /\ IsFiniteSet(B) /\ D.free_bytes = Cardinality(B)
        /\ D.disk_bytes \in Nat
    BY Zenon DEF Sound
  <2>2. E = [D EXCEPT !.free_space = Insert(F, pos, size), !.free_bytes = @ + size]
    BY Zenon DEF add_free_region
  <2> HIDE DEF F, E, B
  <2>3. E = [free_space |-> Insert(F, pos, size), free_bytes |-> D.free_bytes + size,
             disk_bytes |-> D.disk_bytes]
    BY Zenon, <2>1, <2>2
  <2> QED
    BY Zenon, <2>1, <2>3
<1>2. /\ Regular(Insert(F, pos, size))
      /\ Separated(Insert(F, pos, size))
      /\ FreeBytes(Insert(F, pos, size)) = B \cup I
  BY Zenon, <1>1, InsertAdds
<1>3. PICK first, end : Merged(F, Insert(F, pos, size), pos, size, first, end)
  BY Zenon, <1>1, InsertMerges
<1>4. \E p \in DOMAIN Insert(F, pos, size) : Insert(F, pos, size)[p] >= size
  BY <1>3 DEF Merged
<1>5. IsFiniteSet(B \cup I) /\ Cardinality(B \cup I) = Cardinality(B) + size
  <2>1. IsFiniteSet(I) /\ Cardinality(I) = size
    BY Zenon, IntervalSize
  <2>2. /\ IsFiniteSet(B \cup I)
        /\ Cardinality(B \cup I) = Cardinality(B) + Cardinality(I) - Cardinality(B \cap I)
    BY Zenon, <1>1, <2>1, FS_Union
  <2>3. B \cap I = {} /\ Cardinality({}) = 0 /\ Cardinality(B) \in Nat
    BY Zenon, <1>1, FS_EmptySet, FS_CardinalityType
  <2> QED
    BY <2>1, <2>2, <2>3
<1> HIDE DEF F, E, B, I
<1>6. /\ E.free_space = Insert(F, pos, size) /\ E.free_bytes = D.free_bytes + size
      /\ E.disk_bytes = D.disk_bytes
      /\ E = [free_space |-> E.free_space, free_bytes |-> E.free_bytes,
              disk_bytes |-> E.disk_bytes]
  BY Zenon, <1>1
<1>7. Sound(E)
  BY Zenon, <1>1, <1>2, <1>5, <1>6 DEF Sound
<1>8. FreeBytes(E.free_space) = B \cup I
  BY Zenon, <1>2, <1>6
<1> QED
  BY Zenon, <1>4, <1>6, <1>7, <1>8 DEF E, B, I, F

\* grow_file: the new bytes are free, and one region holds them all.
THEOREM GrowKeepsSound ==
    ASSUME NEW D, Sound(D), FreeBytes(D.free_space) \subseteq 0..(D.disk_bytes - 1),
           NEW n \in Nat
    PROVE  LET E == grow_file(D, n)
           IN  /\ Sound(E)
               /\ FreeBytes(E.free_space) = FreeBytes(D.free_space) \cup Interval(D.disk_bytes, n)
               /\ FreeBytes(E.free_space) \subseteq 0..(E.disk_bytes - 1)
               /\ E.disk_bytes = D.disk_bytes + n
               /\ n > 0 => FirstFit(E, n) # {}
<1> DEFINE E == grow_file(D, n)
           A == add_free_region(D, D.disk_bytes, n)
<1>0. D.disk_bytes \in Nat
  BY Zenon DEF Sound
<1>1. CASE n = 0
  <2>1. E = D
    BY Zenon, <1>1 DEF grow_file
  <2>2. Interval(D.disk_bytes, n) = {}
    BY <1>0, <1>1 DEF Interval
  <2> QED
    BY <1>0, <1>1, <2>1, <2>2
<1>2. CASE n > 0
  <2>1. Interval(D.disk_bytes, n) \cap FreeBytes(D.free_space) = {}
    BY <1>0 DEF Interval
  <2>2. /\ Sound(A)
        /\ FreeBytes(A.free_space) = FreeBytes(D.free_space) \cup Interval(D.disk_bytes, n)
        /\ A.disk_bytes = D.disk_bytes
        /\ \E p \in DOMAIN A.free_space : A.free_space[p] >= n
    BY <1>0, <1>2, <2>1, AddKeepsSound
  <2>3. E = [A EXCEPT !.disk_bytes = @ + n]
    BY <1>2 DEF grow_file
  <2> HIDE DEF E, A
  <2>4. /\ E.free_space = A.free_space /\ E.free_bytes = A.free_bytes
        /\ E.disk_bytes = A.disk_bytes + n
        /\ E = [free_space |-> E.free_space, free_bytes |-> E.free_bytes,
                disk_bytes |-> E.disk_bytes]
    BY Zenon, <2>2, <2>3 DEF Sound
  <2>5. Sound(E)
    <3>1. /\ Regular(A.free_space) /\ Separated(A.free_space)
          /\ IsFiniteSet(FreeBytes(A.free_space))
          /\ A.free_bytes = Cardinality(FreeBytes(A.free_space))
      BY Zenon, <2>2 DEF Sound
    <3>2. E.disk_bytes \in Nat
      BY <1>0, <2>2, <2>4
    <3> QED
      BY Zenon, <2>4, <3>1, <3>2 DEF Sound
  <2>6. FirstFit(E, n) # {}
    <3>1. Regular(E.free_space) /\ \E p \in DOMAIN E.free_space : E.free_space[p] >= n
      BY Zenon, <2>2, <2>4, <2>5 DEF Sound
    <3> QED
      BY Zenon, <3>1, FitFound
  <2>7. Interval(D.disk_bytes, n) \subseteq 0..(D.disk_bytes + n - 1)
    BY <1>0 DEF Interval
  <2>8. 0..(D.disk_bytes - 1) \subseteq 0..(D.disk_bytes + n - 1)
    BY <1>0
  <2>9. FreeBytes(E.free_space) \subseteq 0..(E.disk_bytes - 1)
    <3>1. E.disk_bytes = D.disk_bytes + n
      BY Zenon, <2>2, <2>4
    <3>2. FreeBytes(E.free_space) = FreeBytes(D.free_space) \cup Interval(D.disk_bytes, n)
      BY Zenon, <2>2, <2>4
    <3>3. FreeBytes(E.free_space) \subseteq 0..(D.disk_bytes + n - 1)
      BY Zenon, <2>7, <2>8, <3>2
    <3>4. E.disk_bytes - 1 = D.disk_bytes + n - 1
      BY <1>0, <3>1
    <3> QED
      BY <3>3, <3>4, Zenon
  <2> QED
    BY Zenon, <2>2, <2>4, <2>5, <2>6, <2>9 DEF E
<1> QED
  BY <1>1, <1>2

\* What new_blocks cuts off a region: these bytes were free, and no others
\* cease to be.
THEOREM TakeKeepsSound ==
    ASSUME NEW D, Sound(D), NEW p \in DOMAIN D.free_space, NEW size \in Nat \ {0},
           D.free_space[p] >= size
    PROVE  LET E == TakeFrom(D, p, size)
           IN  /\ p \in Nat
               /\ Sound(E)
               /\ Interval(p, size) \subseteq FreeBytes(D.free_space)
               /\ FreeBytes(E.free_space) = FreeBytes(D.free_space) \ Interval(p, size)
               /\ E.disk_bytes = D.disk_bytes
<1> DEFINE F == D.free_space
           E == TakeFrom(D, p, size)
           rest == IF F[p] > size THEN {p + size} ELSE {}
           G == [q \in (DOMAIN F \ {p}) \cup rest |-> IF q \in rest THEN F[p] - size ELSE F[q]]
           B == FreeBytes(F)
           I == Interval(p, size)
<1>1. /\ E = [free_space |-> G, free_bytes |-> D.free_bytes - size, disk_bytes |-> D.disk_bytes]
      /\ Regular(F) /\ Separated(F) /\ IsFiniteSet(B) /\ D.free_bytes = Cardinality(B)
      /\ D.disk_bytes \in Nat
  <2>1. /\ D = [free_space |-> F, free_bytes |-> D.free_bytes, disk_bytes |-> D.disk_bytes]
        /\ Regular(F) /\ Separated(F) /\ IsFiniteSet(B) /\ D.free_bytes = Cardinality(B)
        /\ D.disk_bytes \in Nat
    BY Zenon DEF Sound
  <2>2. E = [D EXCEPT !.free_space = G, !.free_bytes = @ - size]
    BY Zenon DEF TakeFrom
  <2> HIDE DEF F, E, B, G
  <2>3. E = [free_space |-> G, free_bytes |-> D.free_bytes - size, disk_bytes |-> D.disk_bytes]
    BY Zenon, <2>1, <2>2
  <2> QED
    BY Zenon, <2>1, <2>3
<1>2. /\ p \in DOMAIN F /\ F[p] >= size
      /\ \A q \in DOMAIN F : q \in Nat /\ F[q] \in Nat /\ F[q] > 0
  BY Zenon, <1>1 DEF Regular, Separated
<1>3. /\ \A q \in rest : q = p + size /\ F[p] > size /\ G[q] = F[p] - size
      /\ F[p] > size => p + size \in rest
      /\ DOMAIN G = (DOMAIN F \ {p}) \cup rest
      /\ G = [q \in DOMAIN G |-> G[q]]
  BY Zenon, <1>2
<1>4. \A q \in DOMAIN F \ {p} : q \notin rest /\ G[q] = F[q]
  BY <1>1, <1>2 DEF Separated
<1> HIDE DEF F, G, B, I, E, rest
<1>5. Regular(G)
  BY <1>2, <1>3, <1>4 DEF Regular
<1>6. Separated(G)
  <2>1. \A q \in DOMAIN G : G[q] > 0
    BY <1>2, <1>3, <1>4
  <2>2. ASSUME NEW q \in DOMAIN G, NEW r \in DOMAIN G, q < r
        PROVE  q + G[q] < r
    <3>1. CASE q \in rest
      <4>1. r \in DOMAIN F \ {p}
        BY <1>2, <1>3, <2>2, <3>1
      <4> QED
        BY <1>1, <1>2, <1>3, <2>2, <3>1, <4>1 DEF Separated
    <3>2. CASE r \in rest
      <4>1. q \in DOMAIN F \ {p} /\ G[q] = F[q]
        BY <1>2, <1>3, <1>4, <2>2, <3>2
      <4>2. p < q => FALSE
        BY <1>1, <1>2, <1>3, <2>2, <3>2, <4>1 DEF Separated
      <4>3. q < p
        BY <1>2, <4>1, <4>2
      <4> QED
        BY <1>1, <1>2, <1>3, <3>2, <4>1, <4>3 DEF Separated
    <3>3. CASE q \notin rest /\ r \notin rest
      BY Zenon, <1>1, <1>3, <1>4, <2>2, <3>3 DEF Separated
    <3> QED
      BY Zenon, <3>1, <3>2, <3>3
  <2> QED
    BY Zenon, <2>1, <2>2 DEF Separated
<1>7. I \subseteq B
  <2>1. \A x \in Nat : x \in I => x \in B
    BY <1>1, <1>2, InFreeBytes, InInterval DEF I, B
  <2> QED
    BY Zenon, <1>2, <2>1, InInterval DEF I
<1>8. \A x \in Nat : x \in FreeBytes(G) <=> x \in B /\ x \notin I
  <2> TAKE x \in Nat
  <2>0. x \in I <=> p <= x /\ x < p + size
    BY Zenon, <1>2, InInterval DEF I
  <2>1. ASSUME x \in FreeBytes(G)
        PROVE  x \in B /\ x \notin I
    <3>1. PICK q \in DOMAIN G : q <= x /\ x < q + G[q]
      BY Zenon, <1>5, <2>1, InFreeBytes
    <3>2. CASE q \in rest
      <4>1. p <= x /\ x < p + F[p] /\ p + size <= x
        BY <1>2, <1>3, <3>1, <3>2
      <4> QED
        BY <1>1, <1>2, <2>0, <4>1, InFreeBytes DEF B
    <3>3. CASE q \notin rest
      <4>1. q \in DOMAIN F /\ q # p /\ G[q] = F[q]
        BY Zenon, <1>3, <1>4, <3>3
      <4>2. x \in B
        BY Zenon, <1>1, <3>1, <4>1, InFreeBytes DEF B
      <4>3. x \notin I
        BY <1>1, <1>2, <2>0, <3>1, <4>1 DEF Separated
      <4> QED
        BY Zenon, <4>2, <4>3
    <3> QED
      BY Zenon, <3>2, <3>3
  <2>2. ASSUME x \in B, x \notin I
        PROVE  x \in FreeBytes(G)
    <3>1. PICK q \in DOMAIN F : q <= x /\ x < q + F[q]
      BY Zenon, <1>1, <2>2, InFreeBytes DEF B
    <3>2. CASE q = p
      <4>1. p + size \in rest /\ p + size <= x /\ x < p + F[p]
        BY <1>2, <1>3, <2>0, <2>2, <3>1, <3>2
      <4>2. p + size \in DOMAIN G /\ x < (p + size) + G[p + size]
        BY <1>2, <1>3, <4>1
      <4> QED
        BY Zenon, <1>5, <4>1, <4>2, InFreeBytes
    <3>3. CASE q # p
      <4>1. q \in DOMAIN G /\ G[q] = F[q]
        BY Zenon, <1>3, <1>4, <3>3
      <4> QED
        BY Zenon, <1>5, <3>1, <4>1, InFreeBytes
    <3> QED
      BY Zenon, <3>2, <3>3
  <2> QED
    BY Zenon, <2>1, <2>2
<1>9. FreeBytes(G) = B \ I
  <2>1. FreeBytes(G) \subseteq Nat /\ B \subseteq Nat
    BY Zenon, <1>1, <1>5, InFreeBytes DEF B
  <2> QED
    BY Zenon, <1>8, <2>1
<1>10. IsFiniteSet(B \ I) /\ Cardinality(B \ I) = Cardinality(B) - size
  <2>1. /\ IsFiniteSet(B \ I)
        /\ Cardinality(B \ I) = Cardinality(B) - Cardinality(B \cap I)
    BY Zenon, <1>1, FS_Difference
  <2>2. B \cap I = I
    BY Zenon, <1>7
  <2>3. Cardinality(I) = size
    BY Zenon, <1>2, IntervalSize DEF I
  <2> QED
    BY Zenon, <2>1, <2>2, <2>3
<1>11. /\ E.free_space = G /\ E.free_bytes = D.free_bytes - size
       /\ E.disk_bytes = D.disk_bytes
       /\ E = [free_space |-> E.free_space, free_bytes |-> E.free_bytes,
               disk_bytes |-> E.disk_bytes]
  BY Zenon, <1>1
<1>12. Sound(E)
  BY Zenon, <1>1, <1>5, <1>6, <1>9, <1>10, <1>11 DEF Sound
<1> QED
  BY Zenon, <1>2, <1>7, <1>9, <1>11, <1>12 DEF E, B, I, F

=============================================================================
