------------------------- MODULE BlockManagerProofs -------------------------
(***************************************************************************)
(* The block manager for any number of threads, disks and block sizes: the *)
(* free maps are exact, every byte has one owner, and the block manager    *)
(* implements the ownership of bytes.                                      *)
(***************************************************************************)
EXTENDS BlockManager, FreeSpaceProofs

\* The fields of a block.
LEMMA BlockFields ==
    \A b \in Blocks : /\ b.disk \in Disks /\ b.pos \in Nat
                      /\ b.size \in BlockSizes /\ b.size \in Nat \ {0} /\ b.size > 0
<1> SUFFICES ASSUME NEW b \in Blocks
             PROVE  /\ b.disk \in Disks /\ b.pos \in Nat
                    /\ b.size \in BlockSizes /\ b.size \in Nat \ {0} /\ b.size > 0
  BY Zenon
<1>1. b.disk \in Disks /\ b.pos \in Nat /\ b.size \in BlockSizes
  BY Zenon DEF Blocks
<1>2. BlockSizes \subseteq Nat \ {0}
  BY Zenon, BlockManagerAssumption
<1>3. b.size \in Nat \ {0}
  BY Zenon, <1>1, <1>2
<1> QED
  BY <1>1, <1>3

\* Byte x of disk d is in block b.
Claims(b, d, x) == b.disk = d /\ b.pos <= x /\ x < b.pos + b.size

\* The blocks A and the free maps dk agree: a byte is free exactly when it
\* exists and is in no block, blocks lie on their disk, and do not overlap.
Consistent(A, dk) ==
    /\ A \subseteq Blocks
    /\ \A d \in Disks : dk[d].disk_bytes \in Nat
    /\ \A d \in Disks : FreeBytes(dk[d].free_space) \subseteq Nat
    /\ \A d \in Disks : \A x \in Nat :
         x \in FreeBytes(dk[d].free_space) <=> x < dk[d].disk_bytes /\ \A b \in A : ~Claims(b, d, x)
    /\ \A b \in A : b.pos + b.size <= dk[b.disk].disk_bytes
    /\ \A b, c \in A : b # c => \A x \in Nat : ~(Claims(b, b.disk, x) /\ Claims(c, b.disk, x))

\* Two families of disks that differ in disk d only.
SameButFor(d, dk, dk2) == \A e \in Disks : e # d => dk2[e] = dk[e]

\* The bytes that grow_file adds are free and in no block.
LEMMA ConsistentGrow ==
    ASSUME NEW A, NEW dk, NEW dk2, NEW d \in Disks, NEW g \in Nat,
           Consistent(A, dk), SameButFor(d, dk, dk2),
           FreeBytes(dk2[d].free_space)
             = FreeBytes(dk[d].free_space) \cup Interval(dk[d].disk_bytes, g),
           dk2[d].disk_bytes = dk[d].disk_bytes + g
    PROVE  Consistent(A, dk2)
<1>1. \A b \in A : b \in Blocks /\ b.disk \in Disks /\ b.pos \in Nat /\ b.size \in Nat
  BY Zenon, BlockFields DEF Consistent
<1>2. dk[d].disk_bytes \in Nat /\ \A e \in Disks : e # d => dk2[e] = dk[e]
  BY Zenon DEF Consistent, SameButFor
<1>3. \A e \in Disks : dk2[e].disk_bytes \in Nat /\ dk2[e].disk_bytes >= dk[e].disk_bytes
  BY <1>2 DEF Consistent
<1>4. \A b \in A : b.pos + b.size <= dk2[b.disk].disk_bytes
  <2> TAKE b \in A
  <2>1. b.pos + b.size <= dk[b.disk].disk_bytes
    BY Zenon DEF Consistent
  <2>2. dk[b.disk].disk_bytes \in Nat
    BY Zenon, <1>1 DEF Consistent
  <2>3. dk2[b.disk].disk_bytes \in Nat /\ dk2[b.disk].disk_bytes >= dk[b.disk].disk_bytes
    BY Zenon, <1>1, <1>3
  <2> QED
    BY <1>1, <2>1, <2>2, <2>3
<1>5. Interval(dk[d].disk_bytes, g) \subseteq Nat
      /\ \A x \in Nat : x \in Interval(dk[d].disk_bytes, g)
            <=> dk[d].disk_bytes <= x /\ x < dk[d].disk_bytes + g
  BY Zenon, <1>2, InInterval
<1>6. \A e \in Disks : FreeBytes(dk2[e].free_space) \subseteq Nat
  BY Zenon, <1>2, <1>5 DEF Consistent
<1>7. \A x \in Nat : x \in FreeBytes(dk2[d].free_space)
          <=> x < dk2[d].disk_bytes /\ \A b \in A : ~Claims(b, d, x)
  <2> TAKE x \in Nat
  <2>1. x \in FreeBytes(dk[d].free_space)
          <=> x < dk[d].disk_bytes /\ \A b \in A : ~Claims(b, d, x)
    BY Zenon DEF Consistent
  <2>2. ASSUME x >= dk[d].disk_bytes, NEW b \in A
        PROVE  ~Claims(b, d, x)
    <3>1. b.disk = d => b.pos + b.size <= dk[d].disk_bytes
      BY Zenon DEF Consistent
    <3> QED
      BY <1>1, <1>2, <2>2, <3>1 DEF Claims
  <2> QED
    BY <1>2, <1>5, <2>1, <2>2
<1>8. \A e \in Disks : \A x \in Nat : x \in FreeBytes(dk2[e].free_space)
          <=> x < dk2[e].disk_bytes /\ \A b \in A : ~Claims(b, e, x)
  BY <1>2, <1>7 DEF Consistent
<1> QED
  BY Zenon, <1>3, <1>4, <1>6, <1>8 DEF Consistent

\* The blocks N lie on disk d, side by side, and make up the bytes I.
Fills(N, I, d) ==
    /\ N \subseteq Blocks
    /\ \A b \in N : b.disk = d
    /\ \A x \in Nat : x \in I <=> \E b \in N : Claims(b, d, x)
    /\ \A b, c \in N : b # c => \A x \in Nat : ~(Claims(b, d, x) /\ Claims(c, d, x))

\* New blocks N are made of the free bytes I.
LEMMA ConsistentTake ==
    ASSUME NEW A, NEW N, NEW I, NEW dk, NEW dk2, NEW d \in Disks,
           Consistent(A, dk), SameButFor(d, dk, dk2),
           I \subseteq FreeBytes(dk[d].free_space),
           FreeBytes(dk2[d].free_space) = FreeBytes(dk[d].free_space) \ I,
           dk2[d].disk_bytes = dk[d].disk_bytes,
           Fills(N, I, d)
    PROVE  Consistent(A \cup N, dk2) /\ A \cap N = {}
<1>0. /\ N \subseteq Blocks
      /\ \A b \in N : b.disk = d
      /\ \A x \in Nat : x \in I <=> \E b \in N : Claims(b, d, x)
      /\ \A b, c \in N : b # c => \A x \in Nat : ~(Claims(b, d, x) /\ Claims(c, d, x))
  BY Zenon DEF Fills
<1> USE <1>0
<1>1. \A b \in Blocks : b.disk \in Disks /\ b.pos \in Nat /\ b.size \in Nat /\ b.size > 0
  BY Zenon, BlockFields
<1>2. A \subseteq Blocks /\ N \subseteq Blocks
  BY Zenon DEF Consistent
<1>3. \A e \in Disks : dk2[e].disk_bytes = dk[e].disk_bytes /\ dk[e].disk_bytes \in Nat
  BY Zenon DEF Consistent, SameButFor
<1>4. \A b \in N : \A x \in Nat : Claims(b, d, x) => x \in FreeBytes(dk[d].free_space)
  BY Zenon
<1>5. \A b \in N : \A x \in Nat : Claims(b, d, x) =>
          x < dk[d].disk_bytes /\ \A c \in A : ~Claims(c, d, x)
  BY Zenon, <1>4 DEF Consistent
<1>6. \A b \in N : b.pos + b.size <= dk2[b.disk].disk_bytes
  <2> TAKE b \in N
  <2>1. b.pos + b.size - 1 \in Nat /\ Claims(b, d, b.pos + b.size - 1)
    BY <1>1, <1>2 DEF Claims
  <2>2. b.pos + b.size - 1 < dk[d].disk_bytes
    BY Zenon, <1>5, <2>1
  <2>3. dk2[b.disk].disk_bytes = dk[d].disk_bytes /\ dk[d].disk_bytes \in Nat
    BY Zenon, <1>3
  <2>4. b.pos \in Nat /\ b.size \in Nat
    BY Zenon, <1>1, <1>2
  <2> QED
    BY <2>2, <2>3, <2>4
<1>7. \A b \in A : b.pos + b.size <= dk2[b.disk].disk_bytes
  <2> TAKE b \in A
  <2>1. b.disk \in Disks
    BY Zenon, <1>1, <1>2
  <2> QED
    BY Zenon, <1>3, <2>1 DEF Consistent
<1>8. \A b \in A : \A c \in N : \A x \in Nat : ~(Claims(b, d, x) /\ Claims(c, d, x))
  BY Zenon, <1>5
<1>9. \A b, c \in A \cup N : b # c => \A x \in Nat : ~(Claims(b, b.disk, x) /\ Claims(c, b.disk, x))
  <2> SUFFICES ASSUME NEW b \in A \cup N, NEW c \in A \cup N, b # c, NEW x \in Nat,
                      Claims(b, b.disk, x), Claims(c, b.disk, x)
               PROVE  FALSE
    BY Zenon
  <2>1. b.disk = c.disk
    BY Zenon DEF Claims
  <2>2. CASE b \in A /\ c \in A
    BY Zenon, <2>2 DEF Consistent
  <2>3. CASE b \in N /\ c \in N
    BY <2>3
  <2>4. CASE b \in A /\ c \in N
    BY <1>8, <2>1, <2>4
  <2>5. CASE b \in N /\ c \in A
    BY <1>8, <2>1, <2>5
  <2> QED
    BY Zenon, <2>2, <2>3, <2>4, <2>5
<1>10. \A x \in Nat : x \in FreeBytes(dk2[d].free_space)
          <=> x < dk2[d].disk_bytes /\ \A b \in A \cup N : ~Claims(b, d, x)
  <2> TAKE x \in Nat
  <2>1. x \in FreeBytes(dk[d].free_space)
          <=> x < dk[d].disk_bytes /\ \A b \in A : ~Claims(b, d, x)
    BY Zenon DEF Consistent
  <2>2. x \in I <=> \E b \in N : Claims(b, d, x)
    BY Zenon
  <2> QED
    BY Zenon, <1>3, <2>1, <2>2
<1>11. \A e \in Disks : \A x \in Nat : x \in FreeBytes(dk2[e].free_space)
          <=> x < dk2[e].disk_bytes /\ \A b \in A \cup N : ~Claims(b, e, x)
  <2> TAKE e \in Disks
  <2>1. CASE e = d
    BY Zenon, <1>10, <2>1
  <2>2. CASE e # d
    <3>1. dk2[e] = dk[e]
      BY Zenon, <2>2 DEF SameButFor
    <3>2. \A b \in N : \A x \in Nat : ~Claims(b, e, x)
      BY Zenon, <2>2 DEF Claims
    <3> QED
      BY Zenon, <3>1, <3>2 DEF Consistent
  <2> QED
    BY Zenon, <2>1, <2>2
<1>12. \A e \in Disks : FreeBytes(dk2[e].free_space) \subseteq Nat
  BY Zenon DEF Consistent, SameButFor
<1>13. A \cap N = {}
  <2> SUFFICES ASSUME NEW b \in A, b \in N PROVE FALSE
    BY Zenon
  <2>1. b.pos \in Nat /\ Claims(b, d, b.pos)
    BY <1>1, <1>2 DEF Claims
  <2> QED
    BY Zenon, <1>5, <2>1
<1> QED
  BY Zenon, <1>2, <1>3, <1>6, <1>7, <1>9, <1>11, <1>12, <1>13 DEF Consistent

\* A block is given back.
LEMMA ConsistentRelease ==
    ASSUME NEW A, NEW dk, NEW dk2, Consistent(A, dk), NEW b \in A,
           SameButFor(b.disk, dk, dk2),
           FreeBytes(dk2[b.disk].free_space)
             = FreeBytes(dk[b.disk].free_space) \cup Interval(b.pos, b.size),
           dk2[b.disk].disk_bytes = dk[b.disk].disk_bytes
    PROVE  Consistent(A \ {b}, dk2)
<1>1. \A c \in A : c.disk \in Disks /\ c.pos \in Nat /\ c.size \in Nat /\ c.size > 0
  BY Zenon, BlockFields DEF Consistent
<1>2. \A e \in Disks : dk2[e].disk_bytes = dk[e].disk_bytes /\ dk[e].disk_bytes \in Nat
  BY Zenon DEF Consistent, SameButFor
<1>3. Interval(b.pos, b.size) \subseteq Nat
      /\ \A x \in Nat : x \in Interval(b.pos, b.size) <=> Claims(b, b.disk, x)
  BY Zenon, <1>1, InInterval DEF Claims
<1>4. \A e \in Disks : FreeBytes(dk2[e].free_space) \subseteq Nat
  <2> TAKE e \in Disks
  <2>1. CASE e = b.disk
    BY Zenon, <1>3, <2>1 DEF Consistent
  <2>2. CASE e # b.disk
    BY Zenon, <2>2 DEF Consistent, SameButFor
  <2> QED
    BY Zenon, <2>1, <2>2
<1>5. \A x \in Nat : x \in FreeBytes(dk2[b.disk].free_space)
          <=> x < dk2[b.disk].disk_bytes /\ \A c \in A \ {b} : ~Claims(c, b.disk, x)
  <2> TAKE x \in Nat
  <2>1. x \in FreeBytes(dk[b.disk].free_space)
          <=> x < dk[b.disk].disk_bytes /\ \A c \in A : ~Claims(c, b.disk, x)
    BY Zenon, <1>1 DEF Consistent
  <2>2. Claims(b, b.disk, x) => x < dk[b.disk].disk_bytes
    <3>1. b.pos + b.size <= dk[b.disk].disk_bytes
      BY Zenon DEF Consistent
    <3> QED
      BY <1>1, <1>2, <3>1 DEF Claims
  <2>3. Claims(b, b.disk, x) => \A c \in A \ {b} : ~Claims(c, b.disk, x)
    BY Zenon DEF Consistent
  <2> QED
    BY Zenon, <1>1, <1>2, <1>3, <2>1, <2>2, <2>3
<1>6. \A e \in Disks : \A x \in Nat : x \in FreeBytes(dk2[e].free_space)
          <=> x < dk2[e].disk_bytes /\ \A c \in A \ {b} : ~Claims(c, e, x)
  <2> TAKE e \in Disks
  <2>1. CASE e = b.disk
    BY Zenon, <1>5, <2>1
  <2>2. CASE e # b.disk
    <3>1. dk2[e] = dk[e]
      BY Zenon, <2>2 DEF SameButFor
    <3>2. \A x \in Nat : ~Claims(b, e, x)
      BY Zenon, <2>2 DEF Claims
    <3> QED
      BY Zenon, <3>1, <3>2 DEF Consistent
  <2> QED
    BY Zenon, <2>1, <2>2
<1>7. \A c \in A \ {b} : c.pos + c.size <= dk2[c.disk].disk_bytes
  BY Zenon, <1>1, <1>2 DEF Consistent
<1> QED
  BY Zenon, <1>2, <1>4, <1>6, <1>7 DEF Consistent

-----------------------------------------------------------------------------
(* The blocks cut off a region.                                            *)

\* Multiples of s grow by s at least.
LEMMA Multiples ==
    ASSUME NEW s \in Nat \ {0}, NEW k \in Nat, NEW l \in Nat
    PROVE  /\ k * s \in Nat
           /\ (k + 1) * s = k * s + s
           /\ k < l => k * s + s <= l * s
<1>1. k * s \in Nat /\ l * s \in Nat
  OBVIOUS
<1>2. (k + 1) * s = k * s + s
  OBVIOUS
<1>3. k < l => k * s + s <= l * s
  <2> SUFFICES ASSUME k < l PROVE k * s + s <= l * s
    BY Zenon
  <2>1. PICK m \in Nat : l = k + 1 + m
    <3>1. l - k - 1 \in Nat /\ l = k + 1 + (l - k - 1)
      OBVIOUS
    <3> QED
      BY Zenon, <3>1
  <2>2. m * s \in Nat
    OBVIOUS
  <2>3. l * s = k * s + s + m * s
    BY <2>1
  <2> QED
    BY <1>1, <2>2, <2>3
<1> QED
  BY Zenon, <1>1, <1>2, <1>3

\* Every number lies between two consecutive multiples of s.
LEMMA Quotient ==
    ASSUME NEW s \in Nat \ {0}, NEW y \in Nat
    PROVE  \E k \in Nat : k * s <= y /\ y < k * s + s
<1> DEFINE S == {m \in Nat : y < m * s + s}
<1>1. y \in S
  <2>1. y * s \in Nat /\ y * s >= y
    <3>1. CASE y = 0
      BY <3>1
    <3>2. CASE y # 0
      <4>1. 0 < y => 0 * s + s <= y * s
        BY Zenon, Multiples
      <4>2. s - 1 \in Nat /\ y * s = y + y * (s - 1)
        OBVIOUS
      <4>3. y * (s - 1) \in Nat
        BY <4>2
      <4> QED
        BY <4>2, <4>3
    <3> QED
      BY Zenon, <3>1, <3>2
  <2> QED
    BY <2>1
<1>2. PICK m \in S : \A n \in S : m <= n
  <2>1. S \subseteq Nat /\ S # {}
    BY Zenon, <1>1
  <2> HIDE DEF S
  <2> QED
    BY Zenon, <2>1, LeastNumber
<1>3. m * s <= y
  <2>1. CASE m = 0
    BY <2>1
  <2>2. CASE m # 0
    <3>1. m - 1 \in Nat /\ m - 1 \notin S
      BY <1>2, <2>2
    <3>2. ~(y < (m - 1) * s + s)
      BY Zenon, <3>1
    <3>3. (m - 1) * s \in Nat /\ ((m - 1) + 1) * s = (m - 1) * s + s
      BY Zenon, <3>1, Multiples
    <3>4. m * s = (m - 1) * s + s
      BY <3>1, <3>3
    <3> QED
      BY <3>2, <3>3, <3>4
  <2> QED
    BY Zenon, <2>1, <2>2
<1> QED
  BY Zenon, <1>2, <1>3

Cut(d, p, n, s) == {[disk |-> d, pos |-> p + k * s, size |-> s] : k \in 0..(n - 1)}

\* new_blocks assigns the positions of a region to its blocks: they are made
\* of the bytes of the region, and do not overlap.
LEMMA CutRegion ==
    ASSUME NEW d \in Disks, NEW p \in Nat, NEW n \in Nat \ {0}, NEW s \in BlockSizes
    PROVE  /\ Cut(d, p, n, s) \subseteq Blocks
           /\ \A b \in Cut(d, p, n, s) : b.disk = d
           /\ \A x \in Nat : x \in Interval(p, n * s)
                <=> \E b \in Cut(d, p, n, s) : Claims(b, d, x)
           /\ \A b, c \in Cut(d, p, n, s) : b # c =>
                \A x \in Nat : ~(Claims(b, d, x) /\ Claims(c, d, x))
<1>0. s \in Nat \ {0}
  BY Zenon, BlockManagerAssumption
<1>1. \A k \in 0..(n - 1) : k \in Nat /\ k < n /\ k * s \in Nat /\ p + k * s \in Nat
  BY <1>0
<1>2. \A b \in Cut(d, p, n, s) : \E k \in 0..(n - 1) :
         b = [disk |-> d, pos |-> p + k * s, size |-> s]
  BY Zenon DEF Cut
<1>3. Cut(d, p, n, s) \subseteq Blocks
  BY <1>1 DEF Cut, Blocks
<1>4. \A b \in Cut(d, p, n, s) : b.disk = d
  BY <1>2
<1>5. ASSUME NEW x \in Nat, x \in Interval(p, n * s)
      PROVE  \E b \in Cut(d, p, n, s) : Claims(b, d, x)
  <2>1. n * s \in Nat
    BY <1>0
  <2>2. p <= x /\ x < p + n * s
    BY Zenon, <1>5, <2>1, InInterval
  <2>3. PICK k \in Nat : k * s <= x - p /\ x - p < k * s + s
    <3>1. x - p \in Nat
      BY <2>2
    <3> QED
      BY Zenon, <1>0, <3>1, Quotient
  <2>4. k * s \in Nat
    BY <1>0
  <2>5. k < n
    <3> SUFFICES ASSUME n <= k PROVE FALSE
      OBVIOUS
    <3>1. n < k => n * s + s <= k * s
      BY Zenon, <1>0, Multiples
    <3> QED
      BY <1>0, <2>1, <2>2, <2>3, <2>4, <3>1
  <2> DEFINE b == [disk |-> d, pos |-> p + k * s, size |-> s]
  <2>6. b \in Cut(d, p, n, s)
    BY <2>5 DEF Cut
  <2>7. b.disk = d /\ b.pos <= x /\ x < b.pos + b.size
    BY <1>0, <2>3, <2>4
  <2> QED
    BY Zenon, <2>6, <2>7 DEF Claims
<1>6. ASSUME NEW x \in Nat, NEW b \in Cut(d, p, n, s), Claims(b, d, x)
      PROVE  x \in Interval(p, n * s)
  <2>1. PICK k \in 0..(n - 1) : b = [disk |-> d, pos |-> p + k * s, size |-> s]
    BY Zenon, <1>2
  <2>2. k * s \in Nat /\ n * s \in Nat /\ k \in Nat /\ k < n
    BY <1>0, <1>1
  <2>3. k * s + s <= n * s
    BY Zenon, <1>0, <2>2, Multiples
  <2>4. p + k * s <= x /\ x < p + k * s + s
    BY <1>6, <2>1 DEF Claims
  <2>5. p <= x /\ x < p + n * s
    BY <1>0, <2>2, <2>3, <2>4
  <2> QED
    BY Zenon, <2>2, <2>5, InInterval
<1>7. ASSUME NEW b \in Cut(d, p, n, s), NEW c \in Cut(d, p, n, s), b # c, NEW x \in Nat,
             Claims(b, d, x), Claims(c, d, x)
      PROVE  FALSE
  <2>1. PICK k \in 0..(n - 1) : b = [disk |-> d, pos |-> p + k * s, size |-> s]
    BY Zenon, <1>2
  <2>2. PICK l \in 0..(n - 1) : c = [disk |-> d, pos |-> p + l * s, size |-> s]
    BY Zenon, <1>2
  <2>3. k \in Nat /\ l \in Nat /\ k * s \in Nat /\ l * s \in Nat /\ k # l
    BY Zenon, <1>1, <1>7, <2>1, <2>2
  <2>4. p + k * s <= x /\ x < p + k * s + s /\ p + l * s <= x /\ x < p + l * s + s
    BY Zenon, <1>7, <2>1, <2>2 DEF Claims
  <2>5. /\ k < l => k * s + s <= l * s
        /\ l < k => l * s + s <= k * s
    BY Zenon, <1>0, <2>3, Multiples
  <2>6. k < l \/ l < k
    BY <2>3
  <2> QED
    BY <1>0, <2>3, <2>4, <2>5, <2>6
<1> QED
  BY Zenon, <1>3, <1>4, <1>5, <1>6, <1>7

-----------------------------------------------------------------------------
(* The inductive invariant.                                                *)

\* Types, the soundness of every disk, and the block size of a call.
Shape ==
    /\ disk = [d \in Disks |-> disk[d]]
    /\ \A d \in Disks : Sound(disk[d])
    /\ pc \in [Threads -> {"idle", "alloc", "discard"}]
    /\ bsize \in [Threads -> BlockSizes \cup {0}]
    /\ todo \in [Threads -> [Disks -> Seq(1..MaxBlocks)]]
    /\ got \in [Threads -> SUBSET Blocks]
    /\ owned \in [Threads -> SUBSET Blocks]
    /\ del \in [Threads -> Blocks \cup {NoBlock}]
    /\ lost \subseteq Blocks
    /\ stored \subseteq Blocks
    /\ \A t \in Threads : pc[t] = "alloc" => bsize[t] \in BlockSizes

\* Every block belongs to one thread or is lost.
Owners ==
    /\ \A t, u \in Threads : t # u => Held(t) \cap Held(u) = {}
    /\ \A t \in Threads : got[t] \cap owned[t] = {} /\ Held(t) \cap lost = {}

BInv == Shape /\ Consistent(AllBlocks, disk) /\ Owners

LEMMA BytesOfBlock ==
    ASSUME NEW b \in Blocks
    PROVE  \A d, x : <<d, x>> \in BlockBytes(b) <=> x \in Nat /\ Claims(b, d, x)
<1>1. b.pos \in Nat /\ b.size \in Nat
  BY Zenon, BlockFields
<1>2. Interval(b.pos, b.size) \subseteq Nat
      /\ \A x \in Nat : x \in Interval(b.pos, b.size) <=> b.pos <= x /\ x < b.pos + b.size
  BY Zenon, <1>1, InInterval
<1>3. \A d, x : <<d, x>> \in BlockBytes(b) <=> d = b.disk /\ x \in Interval(b.pos, b.size)
  BY Zenon DEF BlockBytes
<1> QED
  BY Zenon, <1>2, <1>3 DEF Claims

LEMMA AllAreBlocks == Shape => AllBlocks \subseteq Blocks
  BY Zenon DEF Shape, AllBlocks, Held

\* The invariant that the runs check follows.
LEMMA BInvPartition == BInv => Partition
<1> SUFFICES ASSUME BInv PROVE Partition
  BY Zenon
<1>1. AllBlocks \subseteq Blocks /\ Consistent(AllBlocks, disk) /\ Owners
  BY Zenon DEF BInv, Consistent
<1>2. ASSUME NEW d \in Disks
      PROVE  FreeOn(d) = {x \in 0..(disk[d].disk_bytes - 1) :
                            \A b \in AllBlocks : <<d, x>> \notin BlockBytes(b)}
  <2>1. disk[d].disk_bytes \in Nat /\ FreeOn(d) \subseteq Nat
    BY Zenon, <1>1 DEF Consistent, FreeOn
  <2>2. \A x \in Nat : x \in FreeOn(d)
          <=> x < disk[d].disk_bytes /\ \A b \in AllBlocks : ~Claims(b, d, x)
    BY Zenon, <1>1 DEF Consistent, FreeOn
  <2>3. \A x \in Nat : \A b \in AllBlocks : <<d, x>> \notin BlockBytes(b) <=> ~Claims(b, d, x)
    BY Zenon, <1>1, BytesOfBlock
  <2>4. \A x : x \in 0..(disk[d].disk_bytes - 1) <=> x \in Nat /\ x < disk[d].disk_bytes
    BY <2>1
  <2> QED
    BY Zenon, <2>1, <2>2, <2>3, <2>4
<1>3. \A b \in AllBlocks : b.pos + b.size <= disk[b.disk].disk_bytes
  BY Zenon, <1>1 DEF Consistent
<1>4. ASSUME NEW b \in AllBlocks, NEW c \in AllBlocks, b # c
      PROVE  BlockBytes(b) \cap BlockBytes(c) = {}
  <2> SUFFICES ASSUME NEW z, z \in BlockBytes(b), z \in BlockBytes(c)
               PROVE  FALSE
    BY Zenon
  <2>1. PICK x : z = <<b.disk, x>>
    BY Zenon DEF BlockBytes
  <2>2. x \in Nat /\ Claims(b, b.disk, x) /\ Claims(c, b.disk, x)
    BY Zenon, <1>1, <2>1, BytesOfBlock
  <2> QED
    BY Zenon, <1>1, <1>4, <2>2 DEF Consistent
<1> QED
  BY Zenon, <1>1, <1>2, <1>3, <1>4 DEF Partition, Owners

-----------------------------------------------------------------------------
(* The disk that new_blocks has extended.                                  *)

\* E is D after some calls of grow_file.
Grown(D, E) ==
    /\ Sound(E)
    /\ FreeBytes(E.free_space) \subseteq 0..(E.disk_bytes - 1)
    /\ \E g \in Nat :
         /\ FreeBytes(E.free_space) = FreeBytes(D.free_space) \cup Interval(D.disk_bytes, g)
         /\ E.disk_bytes = D.disk_bytes + g

LEMMA GrownStep ==
    ASSUME NEW D, NEW E, Sound(D), Grown(D, E), NEW n \in Nat
    PROVE  /\ Grown(D, grow_file(E, n))
           /\ n > 0 => FirstFit(grow_file(E, n), n) # {}
<1> DEFINE G == grow_file(E, n)
<1>1. PICK g \in Nat :
         /\ FreeBytes(E.free_space) = FreeBytes(D.free_space) \cup Interval(D.disk_bytes, g)
         /\ E.disk_bytes = D.disk_bytes + g
  BY Zenon DEF Grown
<1>2. /\ Sound(G)
      /\ FreeBytes(G.free_space) = FreeBytes(E.free_space) \cup Interval(E.disk_bytes, n)
      /\ FreeBytes(G.free_space) \subseteq 0..(G.disk_bytes - 1)
      /\ G.disk_bytes = E.disk_bytes + n
      /\ n > 0 => FirstFit(G, n) # {}
  BY Zenon, GrowKeepsSound DEF Grown
<1> HIDE DEF G
<1>3. D.disk_bytes \in Nat
  BY Zenon DEF Sound
<1>4. Interval(D.disk_bytes, g) \cup Interval(E.disk_bytes, n) = Interval(D.disk_bytes, g + n)
  BY <1>1, <1>3 DEF Interval
<1>5. /\ FreeBytes(G.free_space) = FreeBytes(D.free_space) \cup Interval(D.disk_bytes, g + n)
      /\ G.disk_bytes = D.disk_bytes + (g + n)
      /\ g + n \in Nat
  BY <1>1, <1>2, <1>3, <1>4
<1>6. Grown(D, G)
  BY Zenon, <1>2, <1>5 DEF Grown
<1> QED
  BY Zenon, <1>2, <1>6 DEF G

LEMMA GrownSame ==
    ASSUME NEW D, Sound(D), FreeBytes(D.free_space) \subseteq 0..(D.disk_bytes - 1)
    PROVE  Grown(D, D)
<1>1. D.disk_bytes \in Nat
  BY Zenon DEF Sound
<1>2. Interval(D.disk_bytes, 0) = {}
  BY <1>1 DEF Interval
<1>3. D.disk_bytes = D.disk_bytes + 0
  BY <1>1
<1> QED
  BY Zenon, <1>2, <1>3 DEF Grown

LEMMA FreeWithin ==
    ASSUME BInv, NEW d \in Disks
    PROVE  Sound(disk[d]) /\ FreeBytes(disk[d].free_space) \subseteq 0..(disk[d].disk_bytes - 1)
<1>1. Sound(disk[d]) /\ Consistent(AllBlocks, disk)
  BY Zenon DEF BInv, Shape
<1>2. disk[d].disk_bytes \in Nat /\ FreeBytes(disk[d].free_space) \subseteq Nat
  BY Zenon, <1>1 DEF Consistent
<1>3. \A x \in FreeBytes(disk[d].free_space) : x \in Nat /\ x < disk[d].disk_bytes
  BY Zenon, <1>1, <1>2 DEF Consistent
<1>4. \A x \in Nat : x < disk[d].disk_bytes => x \in 0..(disk[d].disk_bytes - 1)
  BY <1>2
<1> QED
  BY Zenon, <1>1, <1>3, <1>4

LEMMA SeqParts ==
    ASSUME NEW S, NEW q \in Seq(S)
    PROVE  /\ q # <<>> => Head(q) \in S /\ Tail(q) \in Seq(S)
           /\ <<>> \in Seq(S)
           /\ \A x \in S : <<x>> \in Seq(S)
           /\ \A x, y \in S : <<x, y>> \o q \in Seq(S)
  OBVIOUS

\* The request at hand.
LEMMA HeadOfTodo ==
    ASSUME BInv, NEW t \in Threads, NEW d \in Disks, OnDisk(t, d)
    PROVE  /\ Head(todo[t][d]) \in 1..MaxBlocks /\ Head(todo[t][d]) \in Nat \ {0}
           /\ Tail(todo[t][d]) \in Seq(1..MaxBlocks)
           /\ bsize[t] \in BlockSizes /\ bsize[t] \in Nat \ {0}
<1>1. todo[t][d] \in Seq(1..MaxBlocks) /\ todo[t][d] # <<>> /\ bsize[t] \in BlockSizes
  BY Zenon DEF BInv, Shape, OnDisk
<1>2. Head(todo[t][d]) \in 1..MaxBlocks /\ Tail(todo[t][d]) \in Seq(1..MaxBlocks)
  BY Zenon, <1>1, SeqParts
<1>3. MaxBlocks \in Nat /\ BlockSizes \subseteq Nat \ {0}
  BY Zenon, BlockManagerAssumption
<1>4. \A m \in 1..MaxBlocks : m \in Nat \ {0}
  BY <1>3
<1> QED
  BY Zenon, <1>1, <1>2, <1>3, <1>4

\* new_blocks extends the file properly, and when it is asked for one block
\* there is then a region for it.
LEMMA ExtendedGrown ==
    ASSUME BInv, NEW t \in Threads, NEW d \in Disks, OnDisk(t, d)
    PROVE  /\ Grown(disk[d], Extended(t, d))
           /\ Head(todo[t][d]) = 1 => FirstFit(Extended(t, d), bsize[t]) # {}
<1> DEFINE n == Head(todo[t][d])
           s == bsize[t]
           D == IF disk[d].free_bytes < n * s THEN grow_file(disk[d], n * s) ELSE disk[d]
<1>1. n \in Nat \ {0} /\ s \in Nat \ {0}
  BY Zenon, HeadOfTodo
<1>2. n * s \in Nat /\ s > 0
  <2> HIDE DEF n, s
  <2> QED
    BY <1>1
<1>3. Grown(disk[d], disk[d]) /\ Sound(disk[d])
  BY Zenon, FreeWithin, GrownSame
<1>4. Grown(disk[d], D)
  BY Zenon, <1>2, <1>3, GrownStep
<1>5. Extended(t, d) = IF n = 1 /\ FirstFit(D, s) = {} THEN grow_file(D, s) ELSE D
  BY Zenon DEF Extended
<1> HIDE DEF n, s, D
<1>6. Grown(disk[d], grow_file(D, s)) /\ FirstFit(grow_file(D, s), s) # {}
  BY Zenon, <1>1, <1>2, <1>3, <1>4, GrownStep
<1> QED
  BY Zenon, <1>4, <1>5, <1>6 DEF n, s

LEMMA ExtendedConsistent ==
    ASSUME BInv, NEW t \in Threads, NEW d \in Disks, OnDisk(t, d)
    PROVE  Consistent(AllBlocks, [disk EXCEPT ![d] = Extended(t, d)])
<1> DEFINE dk == [disk EXCEPT ![d] = Extended(t, d)]
<1>1. PICK g \in Nat :
         /\ FreeBytes(Extended(t, d).free_space)
              = FreeBytes(disk[d].free_space) \cup Interval(disk[d].disk_bytes, g)
         /\ Extended(t, d).disk_bytes = disk[d].disk_bytes + g
  BY Zenon, ExtendedGrown DEF Grown
<1>2. disk = [e \in Disks |-> disk[e]] /\ Consistent(AllBlocks, disk)
  BY Zenon DEF BInv, Shape
<1>3. dk[d] = Extended(t, d) /\ SameButFor(d, disk, dk)
  BY Zenon, <1>2 DEF SameButFor
<1> HIDE DEF dk
<1>4. Consistent(AllBlocks, dk)
  BY Zenon, <1>1, <1>2, <1>3, ConsistentGrow
<1> QED
  BY Zenon, <1>4 DEF dk

-----------------------------------------------------------------------------
(* Every action keeps the invariant.                                       *)

\* The blocks of one thread change, by what becomes lost or is new; nobody
\* else's do.
LEMMA OwnersStep ==
    ASSUME BInv, NEW t \in Threads, got' \in [Threads -> SUBSET Blocks],
           owned' \in [Threads -> SUBSET Blocks],
           \A u \in Threads : u # t => got'[u] = got[u] /\ owned'[u] = owned[u],
           got'[t] \cap owned'[t] = {},
           Held(t)' \cap lost' = {},
           lost' \subseteq lost \cup Held(t),
           Held(t)' \cap AllBlocks \subseteq Held(t)
    PROVE  Owners'
<1>1. /\ \A u, v \in Threads : u # v => Held(u) \cap Held(v) = {}
      /\ \A u \in Threads : got[u] \cap owned[u] = {} /\ Held(u) \cap lost = {}
  BY Zenon DEF BInv, Owners
<1>2. \A u \in Threads : u # t => Held(u)' = Held(u) /\ Held(u) \subseteq AllBlocks
  BY Zenon DEF Held, AllBlocks
<1>3. \A u \in Threads : u # t => Held(u)' \cap Held(t)' = {}
  <2> TAKE u \in Threads
  <2> HAVE u # t
  <2>1. Held(u)' = Held(u) /\ Held(u) \subseteq AllBlocks /\ Held(u) \cap Held(t) = {}
    BY Zenon, <1>1, <1>2
  <2> QED
    BY Zenon, <2>1
<1>4. \A u, v \in Threads : u # v => Held(u)' \cap Held(v)' = {}
  <2> SUFFICES ASSUME NEW u \in Threads, NEW v \in Threads, u # v
               PROVE  Held(u)' \cap Held(v)' = {}
    BY Zenon
  <2>1. CASE u = t
    BY Zenon, <1>3, <2>1
  <2>2. CASE v = t
    BY Zenon, <1>3, <2>2
  <2>3. CASE u # t /\ v # t
    BY Zenon, <1>1, <1>2, <2>3
  <2> QED
    BY Zenon, <2>1, <2>2, <2>3
<1>5. \A u \in Threads : got'[u] \cap owned'[u] = {} /\ Held(u)' \cap lost' = {}
  <2> TAKE u \in Threads
  <2>1. CASE u = t
    BY Zenon, <2>1
  <2>2. CASE u # t
    <3>1. Held(u)' = Held(u) /\ Held(u) \cap lost = {} /\ Held(u) \cap Held(t) = {}
      BY Zenon, <1>1, <1>2, <2>2
    <3>2. got'[u] \cap owned'[u] = {}
      BY Zenon, <1>1, <2>2
    <3> QED
      BY Zenon, <3>1, <3>2
  <2> QED
    BY Zenon, <2>1, <2>2
<1> QED
  BY Zenon, <1>4, <1>5 DEF Owners

LEMMA InitialDisk ==
    ASSUME Init, NEW d \in Disks
    PROVE  Grown(NoDisk, disk[d]) /\ disk[d].disk_bytes = cfg_bytes[d]
           /\ FreeBytes(disk[d].free_space) = Interval(0, cfg_bytes[d])
<1>1. /\ Regular(NoDisk.free_space) /\ Separated(NoDisk.free_space)
      /\ FreeBytes(NoDisk.free_space) = {} /\ NoDisk.free_bytes = 0 /\ NoDisk.disk_bytes = 0
      /\ NoDisk = [free_space |-> NoDisk.free_space, free_bytes |-> NoDisk.free_bytes,
                   disk_bytes |-> NoDisk.disk_bytes]
  BY Zenon DEF NoDisk, Regular, Separated, FreeBytes
<1>2. Sound(NoDisk)
  BY <1>1, FS_EmptySet DEF Sound
<1>3. cfg_bytes[d] \in Nat
  BY Zenon, BlockManagerAssumption
<1>4. disk[d] = grow_file(NoDisk, cfg_bytes[d])
  BY Zenon DEF Init
<1>5. Grown(NoDisk, NoDisk)
  BY Zenon, <1>1, <1>2, GrownSame
<1>6. Grown(NoDisk, disk[d])
  BY Zenon, <1>2, <1>3, <1>4, <1>5, GrownStep
<1>7. /\ FreeBytes(disk[d].free_space)
           = FreeBytes(NoDisk.free_space) \cup Interval(NoDisk.disk_bytes, cfg_bytes[d])
      /\ disk[d].disk_bytes = NoDisk.disk_bytes + cfg_bytes[d]
  <2>1. FreeBytes(NoDisk.free_space) \subseteq 0..(NoDisk.disk_bytes - 1)
    BY Zenon, <1>1
  <2> QED
    BY Zenon, <1>2, <1>3, <1>4, <2>1, GrowKeepsSound
<1> QED
  BY <1>1, <1>3, <1>6, <1>7

LEMMA InitInv == Init => BInv
<1> SUFFICES ASSUME Init PROVE BInv
  BY Zenon
<1>1. ASSUME NEW d \in Disks
      PROVE  Grown(NoDisk, disk[d]) /\ disk[d].disk_bytes = cfg_bytes[d]
             /\ FreeBytes(disk[d].free_space) = Interval(0, cfg_bytes[d])
  BY Zenon, <1>1, InitialDisk
<1>2. AllBlocks = {} /\ \A t \in Threads : Held(t) = {}
  BY Zenon DEF Init, AllBlocks, Held
<1>3. Shape
  <2>1. \A d \in Disks : Sound(disk[d])
    BY Zenon, <1>1 DEF Grown
  <2>2. \A t \in Threads : pc[t] # "alloc"
    BY Zenon DEF Init
  <2>3. todo \in [Threads -> [Disks -> Seq(1..MaxBlocks)]]
    BY DEF Init
  <2>4. disk = [d \in Disks |-> disk[d]]
    BY Zenon DEF Init
  <2> QED
    BY Zenon, <2>1, <2>2, <2>3, <2>4 DEF Init, Shape
<1>4. Consistent(AllBlocks, disk)
  <2>1. \A d \in Disks : cfg_bytes[d] \in Nat
    BY Zenon, BlockManagerAssumption
  <2>2. \A d \in Disks : /\ FreeBytes(disk[d].free_space) \subseteq Nat
                         /\ \A x \in Nat : x \in FreeBytes(disk[d].free_space)
                               <=> 0 <= x /\ x < 0 + cfg_bytes[d]
    BY <1>1, <2>1, InInterval
  <2> QED
    BY <1>1, <1>2, <2>1, <2>2 DEF Consistent
<1>5. Owners
  BY Zenon, <1>2 DEF Owners, Held
<1> QED
  BY Zenon, <1>3, <1>4, <1>5 DEF BInv

\* A step that changes neither the free maps nor who holds which block.
LEMMA NothingMoves ==
    ASSUME BInv, disk' = disk, got' = got, owned' = owned, lost' = lost
    PROVE  Consistent(AllBlocks', disk') /\ Owners'
  BY Zenon DEF BInv, AllBlocks, Held, Owners

LEMMA NewBlocksKeeps ==
    ASSUME BInv, NEW t \in Threads, NewBlocks(t)
    PROVE  BInv'
<1>1. PICK s \in BlockSizes, bl \in [Disks -> 0..MaxBlocks] :
         /\ bsize' = [bsize EXCEPT ![t] = s]
         /\ todo' = [todo EXCEPT ![t] = [d \in Disks |-> IF bl[d] = 0 THEN <<>> ELSE <<bl[d]>>]]
  BY Zenon DEF NewBlocks
<1>2. /\ pc' = [pc EXCEPT ![t] = "alloc"]
      /\ disk' = disk /\ got' = got /\ owned' = owned /\ del' = del /\ lost' = lost
      /\ stored' = stored
  BY Zenon DEF NewBlocks, GoTo
<1>3. [d \in Disks |-> IF bl[d] = 0 THEN <<>> ELSE <<bl[d]>>] \in [Disks -> Seq(1..MaxBlocks)]
  <2>1. MaxBlocks \in Nat
    BY Zenon, BlockManagerAssumption
  <2>2. \A d \in Disks : bl[d] # 0 => bl[d] \in 1..MaxBlocks
    BY <2>1
  <2>3. \A x \in 1..MaxBlocks : <<x>> \in Seq(1..MaxBlocks)
    BY SeqParts
  <2>4. <<>> \in Seq(1..MaxBlocks)
    BY SeqParts
  <2>5. \A d \in Disks : (IF bl[d] = 0 THEN <<>> ELSE <<bl[d]>>) \in Seq(1..MaxBlocks)
    BY Zenon, <2>2, <2>3, <2>4
  <2> QED
    BY Zenon, <2>5
<1>4. todo' \in [Threads -> [Disks -> Seq(1..MaxBlocks)]]
  BY Zenon, <1>1, <1>3 DEF BInv, Shape
<1>5. /\ bsize' \in [Threads -> BlockSizes \cup {0}]
      /\ pc' \in [Threads -> {"idle", "alloc", "discard"}]
      /\ \A u \in Threads : pc'[u] = "alloc" => bsize'[u] \in BlockSizes
  BY Zenon, <1>1, <1>2 DEF BInv, Shape
<1>6. Shape'
  BY Zenon, <1>2, <1>4, <1>5 DEF BInv, Shape
<1> QED
  BY Zenon, <1>2, <1>6, NothingMoves DEF BInv

LEMMA NewBlocksThrowKeeps ==
    ASSUME BInv, NEW t \in Threads, NEW d \in Disks, NewBlocksThrow(t, d)
    PROVE  BInv'
<1>1. /\ pc' = [pc EXCEPT ![t] = "idle"]
      /\ todo' = [todo EXCEPT ![t] = [e \in Disks |-> <<>>]]
      /\ lost' = lost \cup got[t]
      /\ got' = [got EXCEPT ![t] = {}]
      /\ bsize' = [bsize EXCEPT ![t] = 0]
      /\ disk' = disk /\ owned' = owned /\ del' = del /\ stored' = stored
  BY Zenon DEF NewBlocksThrow
<1>2. todo' \in [Threads -> [Disks -> Seq(1..MaxBlocks)]]
  <2>1. [e \in Disks |-> <<>>] \in [Disks -> Seq(1..MaxBlocks)]
    OBVIOUS
  <2> QED
    BY Zenon, <1>1, <2>1 DEF BInv, Shape
<1>3. /\ bsize' \in [Threads -> BlockSizes \cup {0}]
      /\ pc' \in [Threads -> {"idle", "alloc", "discard"}]
      /\ \A u \in Threads : pc'[u] = "alloc" => bsize'[u] \in BlockSizes
  BY Zenon, <1>1 DEF BInv, Shape
<1>4. got' \in [Threads -> SUBSET Blocks] /\ lost' \subseteq Blocks
  BY Zenon, <1>1 DEF BInv, Shape
<1>5. Shape'
  BY Zenon, <1>1, <1>2, <1>3, <1>4 DEF BInv, Shape
<1>6. \A u \in Threads : u # t => got'[u] = got[u]
  BY Zenon, <1>1 DEF BInv, Shape
<1>7. got'[t] = {}
  BY Zenon, <1>1 DEF BInv, Shape
<1>8. AllBlocks' = AllBlocks
  <2>1. \A b : b \in AllBlocks <=> b \in lost \/ \E u \in Threads : b \in got[u] \/ b \in owned[u]
    BY DEF AllBlocks, Held
  <2>2. \A b : b \in AllBlocks' <=> b \in lost' \/ \E u \in Threads : b \in got'[u] \/ b \in owned'[u]
    BY DEF AllBlocks, Held
  <2>3. \A b : b \in AllBlocks' <=> b \in AllBlocks
    BY Zenon, <1>1, <1>6, <1>7, <2>1, <2>2
  <2> QED
    BY Zenon, <2>3
<1>9. Owners'
  <2>1. owned' \in [Threads -> SUBSET Blocks]
    BY Zenon, <1>1 DEF BInv, Shape
  <2>2. Held(t)' = owned[t] /\ Held(t) = got[t] \cup owned[t]
    BY Zenon, <1>1, <1>7 DEF Held
  <2>3. got[t] \cap owned[t] = {} /\ Held(t) \cap lost = {}
    BY Zenon DEF BInv, Owners
  <2>4. Held(t)' \cap lost' = {} /\ lost' \subseteq lost \cup Held(t)
    BY Zenon, <1>1, <2>2, <2>3
  <2> QED
    BY <1>1, <1>4, <1>6, <1>7, <2>1, <2>2, <2>4, OwnersStep
<1> QED
  BY Zenon, <1>1, <1>5, <1>8, <1>9 DEF BInv

LEMMA NewBlocksReturnKeeps ==
    ASSUME BInv, NEW t \in Threads, NewBlocksReturn(t)
    PROVE  BInv'
<1>1. /\ pc' = [pc EXCEPT ![t] = "idle"]
      /\ owned' = [owned EXCEPT ![t] = @ \cup got[t]]
      /\ got' = [got EXCEPT ![t] = {}]
      /\ bsize' = [bsize EXCEPT ![t] = 0]
      /\ disk' = disk /\ todo' = todo /\ del' = del /\ lost' = lost /\ stored' = stored
  BY Zenon DEF NewBlocksReturn, GoTo
<1>2. /\ bsize' \in [Threads -> BlockSizes \cup {0}]
      /\ pc' \in [Threads -> {"idle", "alloc", "discard"}]
      /\ \A u \in Threads : pc'[u] = "alloc" => bsize'[u] \in BlockSizes
  BY Zenon, <1>1 DEF BInv, Shape
<1>3. got' \in [Threads -> SUBSET Blocks] /\ owned' \in [Threads -> SUBSET Blocks]
  BY Zenon, <1>1 DEF BInv, Shape
<1>4. Shape'
  BY Zenon, <1>1, <1>2, <1>3 DEF BInv, Shape
<1>5. \A u \in Threads : u # t => got'[u] = got[u] /\ owned'[u] = owned[u]
  BY Zenon, <1>1 DEF BInv, Shape
<1>6. got'[t] = {} /\ owned'[t] = owned[t] \cup got[t]
  BY Zenon, <1>1 DEF BInv, Shape
<1>7. Held(t)' = Held(t)
  BY Zenon, <1>6 DEF Held
<1>8. AllBlocks' = AllBlocks
  <2>1. \A u \in Threads : Held(u)' = Held(u)
    BY Zenon, <1>5, <1>7 DEF Held
  <2> QED
    BY Zenon, <1>1, <2>1 DEF AllBlocks
<1>9. Owners'
  <2>1. Held(t) \cap lost = {}
    BY Zenon DEF BInv, Owners
  <2> QED
    BY <1>1, <1>3, <1>5, <1>6, <1>7, <2>1, OwnersStep
<1> QED
  BY Zenon, <1>1, <1>4, <1>8, <1>9 DEF BInv

\* What new_blocks does when a region holds the request, in terms of the
\* blocks N that it hands out.
LEMMA TakeFacts ==
    ASSUME BInv, NEW t \in Threads, NEW d \in Disks, NewBlocksTake(t, d)
    PROVE  \E N :
             /\ N \subseteq Blocks
             /\ N \cap AllBlocks = {}
             /\ got' = [got EXCEPT ![t] = @ \cup N]
             /\ Consistent(AllBlocks \cup N, disk')
             /\ disk' = [e \in Disks |-> disk'[e]]
             /\ \A e \in Disks : Sound(disk'[e]) /\ disk'[e].disk_bytes >= disk[e].disk_bytes
<1> DEFINE n == Head(todo[t][d])
           s == bsize[t]
           D == Extended(t, d)
           dk == [disk EXCEPT ![d] = D]
<1>1. OnDisk(t, d)
  BY Zenon DEF NewBlocksTake, MayProceed
<1>2. PICK p \in FirstFit(D, n * s) :
         /\ disk' = [disk EXCEPT ![d] = TakeFrom(D, p, n * s)]
         /\ got' = [got EXCEPT ![t] = @ \cup Cut(d, p, n, s)]
  BY Zenon DEF NewBlocksTake, Cut
<1>3. n \in Nat \ {0} /\ s \in BlockSizes /\ s \in Nat \ {0}
  BY Zenon, <1>1, HeadOfTodo
<1>4. Consistent(AllBlocks, dk)
  BY Zenon, <1>1, ExtendedConsistent
<1>5. Grown(disk[d], D)
  BY Zenon, <1>1, ExtendedGrown
<1>6. disk = [e \in Disks |-> disk[e]] /\ \A e \in Disks : Sound(disk[e])
  BY Zenon DEF BInv, Shape
<1>7. dk[d] = D /\ \A e \in Disks : e # d => dk[e] = disk[e]
  BY Zenon, <1>6
<1> HIDE DEF n, s, D, dk
<1>8. n * s \in Nat \ {0}
  <2>1. 0 < n => 0 * s + s <= n * s
    BY Zenon, <1>3, Multiples
  <2>2. n * s \in Nat
    BY <1>3
  <2> QED
    BY <1>3, <2>1, <2>2
<1>9. Sound(D) /\ D.disk_bytes \in Nat /\ D.disk_bytes >= disk[d].disk_bytes
  <2>1. disk[d].disk_bytes \in Nat
    BY Zenon, <1>6 DEF Sound
  <2> QED
    BY <1>5, <2>1 DEF Grown
<1>10. p \in DOMAIN D.free_space /\ D.free_space[p] >= n * s
  <2>1. Regular(D.free_space)
    BY Zenon, <1>9 DEF Sound
  <2> QED
    BY Zenon, <1>2, <1>8, <2>1, FitFound
<1> DEFINE E == TakeFrom(D, p, n * s)
<1>11. /\ p \in Nat
       /\ Sound(E)
       /\ Interval(p, n * s) \subseteq FreeBytes(D.free_space)
       /\ FreeBytes(E.free_space) = FreeBytes(D.free_space) \ Interval(p, n * s)
       /\ E.disk_bytes = D.disk_bytes
  BY Zenon, <1>8, <1>9, <1>10, TakeKeepsSound
<1> HIDE DEF E
<1>12. disk'[d] = E /\ (\A e \in Disks : e # d => disk'[e] = disk[e])
       /\ disk' = [e \in Disks |-> disk'[e]]
  BY Zenon, <1>2, <1>6 DEF E
<1>13. /\ Cut(d, p, n, s) \subseteq Blocks
       /\ \A b \in Cut(d, p, n, s) : b.disk = d
       /\ \A x \in Nat : x \in Interval(p, n * s) <=> \E b \in Cut(d, p, n, s) : Claims(b, d, x)
       /\ \A b, c \in Cut(d, p, n, s) : b # c =>
            \A x \in Nat : ~(Claims(b, d, x) /\ Claims(c, d, x))
  BY Zenon, <1>3, <1>11, CutRegion
<1> DEFINE N == Cut(d, p, n, s)
           I == Interval(p, n * s)
           A == AllBlocks
<1>14. SameButFor(d, dk, disk')
  BY Zenon, <1>7, <1>12 DEF SameButFor
<1>15. /\ I \subseteq FreeBytes(dk[d].free_space)
       /\ FreeBytes(disk'[d].free_space) = FreeBytes(dk[d].free_space) \ I
       /\ disk'[d].disk_bytes = dk[d].disk_bytes
  BY Zenon, <1>7, <1>11, <1>12
<1>16. Consistent(A \cup N, disk') /\ A \cap N = {}
  <2>1. Fills(N, I, d)
    BY Zenon, <1>13 DEF Fills
  <2>2. Consistent(A, dk)
    BY Zenon, <1>4
  <2> HIDE DEF N, I, A
  <2> QED
    BY <1>14, <1>15, <2>1, <2>2, ConsistentTake, ZenonT(30)
<1>17. \A e \in Disks : Sound(disk'[e]) /\ disk'[e].disk_bytes >= disk[e].disk_bytes
  <2> TAKE e \in Disks
  <2>1. CASE e = d
    BY Zenon, <1>9, <1>11, <1>12, <2>1
  <2>2. CASE e # d
    <3>1. disk'[e] = disk[e] /\ Sound(disk[e])
      BY Zenon, <1>6, <1>12, <2>2
    <3>2. disk[e].disk_bytes \in Nat
      BY Zenon, <3>1 DEF Sound
    <3> QED
      BY <3>1, <3>2
  <2> QED
    BY Zenon, <2>1, <2>2
<1> QED
  BY Zenon, <1>2, <1>12, <1>13, <1>16, <1>17

LEMMA NewBlocksTakeKeeps ==
    ASSUME BInv, NEW t \in Threads, NEW d \in Disks, NewBlocksTake(t, d)
    PROVE  BInv'
<1>1. PICK N :
         /\ N \subseteq Blocks
         /\ N \cap AllBlocks = {}
         /\ got' = [got EXCEPT ![t] = @ \cup N]
         /\ Consistent(AllBlocks \cup N, disk')
         /\ disk' = [e \in Disks |-> disk'[e]]
         /\ \A e \in Disks : Sound(disk'[e]) /\ disk'[e].disk_bytes >= disk[e].disk_bytes
  BY Zenon, TakeFacts
<1>2. /\ todo' = [todo EXCEPT ![t][d] = Tail(todo[t][d])]
      /\ pc' = pc /\ bsize' = bsize /\ owned' = owned /\ del' = del /\ lost' = lost
      /\ stored' = stored
  BY Zenon DEF NewBlocksTake
<1>3. todo' \in [Threads -> [Disks -> Seq(1..MaxBlocks)]]
  <2>1. OnDisk(t, d)
    BY Zenon DEF NewBlocksTake, MayProceed
  <2>2. Tail(todo[t][d]) \in Seq(1..MaxBlocks)
    BY Zenon, <2>1, HeadOfTodo
  <2>3. todo \in [Threads -> [Disks -> Seq(1..MaxBlocks)]]
    BY Zenon DEF BInv, Shape
  <2> QED
    BY Zenon, <1>2, <2>2, <2>3
<1>4. got' \in [Threads -> SUBSET Blocks]
  BY Zenon, <1>1 DEF BInv, Shape
<1>5. Shape'
  BY Zenon, <1>1, <1>2, <1>3, <1>4 DEF BInv, Shape
<1>6. got'[t] = got[t] \cup N /\ \A u \in Threads : u # t => got'[u] = got[u]
  BY Zenon, <1>1 DEF BInv, Shape
<1>7. AllBlocks' = AllBlocks \cup N
  <2>1. \A b : b \in AllBlocks <=> b \in lost \/ \E u \in Threads : b \in got[u] \/ b \in owned[u]
    BY DEF AllBlocks, Held
  <2>2. \A b : b \in AllBlocks' <=> b \in lost' \/ \E u \in Threads : b \in got'[u] \/ b \in owned'[u]
    BY DEF AllBlocks, Held
  <2>3. \A b : b \in AllBlocks' <=> b \in AllBlocks \/ b \in N
    BY Zenon, <1>2, <1>6, <2>1, <2>2
  <2> QED
    BY Zenon, <2>3
<1>8. Owners'
  <2>1. owned' \in [Threads -> SUBSET Blocks]
    BY Zenon, <1>2 DEF BInv, Shape
  <2>2. Held(t)' = Held(t) \cup N
    BY Zenon, <1>2, <1>6 DEF Held
  <2>3. lost \subseteq AllBlocks /\ owned[t] \subseteq AllBlocks /\ Held(t) \subseteq AllBlocks
    BY Zenon DEF AllBlocks, Held
  <2>4. got[t] \cap owned[t] = {} /\ Held(t) \cap lost = {}
    BY Zenon DEF BInv, Owners
  <2>5. got'[t] \cap owned'[t] = {}
    BY Zenon, <1>1, <1>2, <1>6, <2>3, <2>4
  <2>6. Held(t)' \cap lost' = {} /\ lost' \subseteq lost \cup Held(t)
    BY Zenon, <1>1, <1>2, <2>2, <2>3, <2>4
  <2>7. Held(t)' \cap AllBlocks \subseteq Held(t)
    BY Zenon, <1>1, <2>2
  <2> QED
    BY Zenon, <1>2, <1>4, <1>6, <2>1, <2>5, <2>6, <2>7, OwnersStep
<1> QED
  BY Zenon, <1>1, <1>5, <1>7, <1>8 DEF BInv

LEMMA NewBlocksSplitKeeps ==
    ASSUME BInv, NEW t \in Threads, NEW d \in Disks, NewBlocksSplit(t, d)
    PROVE  BInv'
<1> DEFINE n == Head(todo[t][d])
           D == Extended(t, d)
<1>1. /\ OnDisk(t, d) /\ FirstFit(D, n * bsize[t]) = {}
      /\ disk' = [disk EXCEPT ![d] = D]
      /\ todo' = [todo EXCEPT ![t][d] = <<n \div 2, n - n \div 2>> \o Tail(todo[t][d])]
      /\ pc' = pc /\ bsize' = bsize /\ got' = got /\ owned' = owned /\ del' = del
      /\ lost' = lost /\ stored' = stored
  BY Zenon DEF NewBlocksSplit, MayProceed
<1>2. /\ n \in 1..MaxBlocks /\ n \in Nat \ {0}
      /\ Tail(todo[t][d]) \in Seq(1..MaxBlocks)
      /\ bsize[t] \in Nat \ {0}
  BY Zenon, <1>1, HeadOfTodo
<1>3. Grown(disk[d], D) /\ (n = 1 => FirstFit(D, bsize[t]) # {})
  BY Zenon, <1>1, ExtendedGrown
<1>4. Consistent(AllBlocks, disk')
  BY Zenon, <1>1, ExtendedConsistent
<1> HIDE DEF n, D
<1>5. n # 1
  <2>1. n = 1 => n * bsize[t] = bsize[t]
    BY <1>2
  <2> QED
    BY Zenon, <1>1, <1>3, <2>1
<1>6. n \div 2 \in 1..MaxBlocks /\ n - n \div 2 \in 1..MaxBlocks
  <2>1. MaxBlocks \in Nat
    BY Zenon, BlockManagerAssumption
  <2> QED
    BY <1>2, <1>5, <2>1
<1>7. <<n \div 2, n - n \div 2>> \o Tail(todo[t][d]) \in Seq(1..MaxBlocks)
  BY Zenon, <1>2, <1>6, SeqParts
<1>8. todo' \in [Threads -> [Disks -> Seq(1..MaxBlocks)]]
  <2>1. todo \in [Threads -> [Disks -> Seq(1..MaxBlocks)]]
    BY Zenon DEF BInv, Shape
  <2> QED
    BY Zenon, <1>1, <1>7, <2>1
<1>9. disk' = [e \in Disks |-> disk'[e]] /\ \A e \in Disks : Sound(disk'[e])
  <2>1. disk = [e \in Disks |-> disk[e]] /\ \A e \in Disks : Sound(disk[e])
    BY Zenon DEF BInv, Shape
  <2>2. Sound(D)
    BY Zenon, <1>3 DEF Grown
  <2> QED
    BY Zenon, <1>1, <2>1, <2>2
<1>10. Shape'
  BY Zenon, <1>1, <1>8, <1>9 DEF BInv, Shape
<1>11. AllBlocks' = AllBlocks /\ Owners'
  BY Zenon, <1>1 DEF BInv, AllBlocks, Held, Owners
<1> QED
  BY Zenon, <1>4, <1>10, <1>11 DEF BInv

\* delete_block of a block that its thread holds returns its bytes.
LEMMA DeleteBlockFacts ==
    ASSUME BInv, NEW t \in Threads, NEW b \in owned[t], DeleteBlock(t, b)
    PROVE  /\ b \in AllBlocks /\ b \in Blocks
           /\ Consistent(AllBlocks \ {b}, disk')
           /\ disk' = [e \in Disks |-> disk'[e]]
           /\ \A e \in Disks : Sound(disk'[e]) /\ disk'[e].disk_bytes = disk[e].disk_bytes
<1> DEFINE d == b.disk
           D == disk[d]
           E == add_free_region(D, b.pos, b.size)
<1>1. b \in AllBlocks /\ b \in Blocks
  BY DEF BInv, Shape, AllBlocks, Held
<1>2. d \in Disks /\ b.pos \in Nat /\ b.size \in Nat \ {0}
  BY Zenon, <1>1, BlockFields
<1>3. disk = [e \in Disks |-> disk[e]] /\ \A e \in Disks : Sound(disk[e])
  BY Zenon DEF BInv, Shape
<1>4. disk' = [disk EXCEPT ![d] = E]
  BY Zenon DEF DeleteBlock
<1>5. ~DoubleDeallocation(D.free_space, b.pos, b.size)
  BY Zenon DEF DeleteBlock
<1>6. Interval(b.pos, b.size) \cap FreeBytes(D.free_space) = {}
  <2>1. Regular(D.free_space) /\ Separated(D.free_space)
    BY Zenon, <1>2, <1>3 DEF Sound
  <2> QED
    BY Zenon, <1>2, <1>5, <2>1, OverlapFound
<1>7. /\ Sound(E)
      /\ FreeBytes(E.free_space) = FreeBytes(D.free_space) \cup Interval(b.pos, b.size)
      /\ E.disk_bytes = D.disk_bytes
  <2>1. Sound(D)
    BY Zenon, <1>2, <1>3
  <2> DEFINE pos == b.pos
             size == b.size
  <2>2. pos \in Nat /\ size \in Nat \ {0}
    BY Zenon, <1>2
  <2>3. Interval(pos, size) \cap FreeBytes(D.free_space) = {}
    BY Zenon, <1>6
  <2> HIDE DEF D, pos, size
  <2>4. LET G == add_free_region(D, pos, size)
        IN  /\ Sound(G)
            /\ FreeBytes(G.free_space) = FreeBytes(D.free_space) \cup Interval(pos, size)
            /\ G.disk_bytes = D.disk_bytes
    BY Zenon, <2>1, <2>2, <2>3, AddKeepsSound
  <2> QED
    BY Zenon, <2>4 DEF pos, size
<1> HIDE DEF E
<1>8. disk'[d] = E /\ (\A e \in Disks : e # d => disk'[e] = disk[e])
      /\ disk' = [e \in Disks |-> disk'[e]]
  BY Zenon, <1>2, <1>3, <1>4
<1>9. Consistent(AllBlocks \ {b}, disk')
  <2> DEFINE A == AllBlocks
  <2>1. Consistent(A, disk) /\ b \in A
    BY Zenon, <1>1 DEF BInv
  <2>2. SameButFor(b.disk, disk, disk')
    BY Zenon, <1>8 DEF SameButFor
  <2>3. /\ FreeBytes(disk'[b.disk].free_space)
             = FreeBytes(disk[b.disk].free_space) \cup Interval(b.pos, b.size)
        /\ disk'[b.disk].disk_bytes = disk[b.disk].disk_bytes
    BY Zenon, <1>7, <1>8
  <2> HIDE DEF A
  <2>4. Consistent(A \ {b}, disk')
    BY Zenon, <2>1, <2>2, <2>3, ConsistentRelease
  <2> QED
    BY Zenon, <2>4 DEF A
<1>10. \A e \in Disks : Sound(disk'[e]) /\ disk'[e].disk_bytes = disk[e].disk_bytes
  BY Zenon, <1>3, <1>7, <1>8
<1> QED
  BY Zenon, <1>1, <1>8, <1>9, <1>10

LEMMA DeleteBlockKeeps ==
    ASSUME BInv, NEW t \in Threads, NEW b \in owned[t], DeleteBlock(t, b)
    PROVE  BInv'
<1>1. /\ b \in AllBlocks /\ b \in Blocks
      /\ Consistent(AllBlocks \ {b}, disk')
      /\ disk' = [e \in Disks |-> disk'[e]]
      /\ \A e \in Disks : Sound(disk'[e]) /\ disk'[e].disk_bytes = disk[e].disk_bytes
  BY Zenon, DeleteBlockFacts
<1>2. /\ pc[t] = "idle" /\ pc' = [pc EXCEPT ![t] = "discard"]
      /\ owned' = [owned EXCEPT ![t] = @ \ {b}]
      /\ del' = [del EXCEPT ![t] = b]
      /\ todo' = todo /\ got' = got /\ bsize' = bsize /\ lost' = lost /\ stored' = stored
  BY Zenon DEF DeleteBlock, GoTo
<1>3. pc' \in [Threads -> {"idle", "alloc", "discard"}]
      /\ \A u \in Threads : pc'[u] = "alloc" => bsize'[u] \in BlockSizes
  BY Zenon, <1>2 DEF BInv, Shape
<1>4. owned' \in [Threads -> SUBSET Blocks] /\ del' \in [Threads -> Blocks \cup {NoBlock}]
  BY Zenon, <1>1, <1>2 DEF BInv, Shape
<1>5. Shape'
  BY Zenon, <1>1, <1>2, <1>3, <1>4 DEF BInv, Shape
<1>6. owned'[t] = owned[t] \ {b} /\ \A u \in Threads : u # t => owned'[u] = owned[u]
  BY Zenon, <1>2 DEF BInv, Shape
<1>7. /\ b \notin lost /\ b \notin got[t]
      /\ \A u \in Threads : u # t => b \notin got[u] /\ b \notin owned[u]
  BY Zenon DEF BInv, Owners, Held
<1>8. AllBlocks' = AllBlocks \ {b}
  <2>1. \A c : c \in AllBlocks <=> c \in lost \/ \E u \in Threads : c \in got[u] \/ c \in owned[u]
    BY DEF AllBlocks, Held
  <2>2. \A c : c \in AllBlocks' <=> c \in lost' \/ \E u \in Threads : c \in got'[u] \/ c \in owned'[u]
    BY DEF AllBlocks, Held
  <2>3. \A c : c \in AllBlocks' <=> c \in AllBlocks /\ c # b
    BY Zenon, <1>2, <1>6, <1>7, <2>1, <2>2
  <2> QED
    BY Zenon, <2>3
<1>9. Owners'
  <2>1. got' \in [Threads -> SUBSET Blocks]
    BY Zenon, <1>2 DEF BInv, Shape
  <2>2. got[t] \cap owned[t] = {} /\ Held(t) \cap lost = {}
    BY Zenon DEF BInv, Owners
  <2>3. Held(t)' \subseteq Held(t) /\ got'[t] \cap owned'[t] = {}
    BY Zenon, <1>2, <1>6, <2>2 DEF Held
  <2>4. Held(t)' \cap lost' = {} /\ lost' \subseteq lost \cup Held(t)
    BY Zenon, <1>2, <2>2, <2>3
  <2>5. Held(t)' \cap AllBlocks \subseteq Held(t)
    BY Zenon, <2>3
  <2> QED
    BY Zenon, <1>2, <1>4, <1>6, <2>1, <2>3, <2>4, <2>5, OwnersStep
<1> QED
  BY Zenon, <1>1, <1>5, <1>8, <1>9 DEF BInv

\* A second deallocation is always noticed: delete_block leaves the disk alone.
LEMMA DeleteTwiceSame ==
    ASSUME BInv, NEW t \in Threads, NEW d \in Disks, DeleteTwice(t, d)
    PROVE  vars' = vars
<1>1. PICK s \in BlockSizes, x \in 0..(disk[d].disk_bytes - 1) :
         /\ Interval(x, s) \cap FreeBytes(disk[d].free_space) # {}
         /\ \/ disk' = disk
            \/ ~DoubleDeallocation(disk[d].free_space, x, s)
  BY Zenon DEF DeleteTwice
<1>2. Regular(disk[d].free_space) /\ Separated(disk[d].free_space) /\ disk[d].disk_bytes \in Nat
  BY Zenon DEF BInv, Shape, Sound
<1>3. s \in Nat \ {0} /\ x \in Nat
  BY <1>2, BlockManagerAssumption
<1>4. DoubleDeallocation(disk[d].free_space, x, s)
  BY Zenon, <1>1, <1>2, <1>3, OverlapFound
<1>5. disk' = disk
  BY Zenon, <1>1, <1>4
<1> QED
  BY Zenon, <1>5 DEF DeleteTwice, vars, allocvars

LEMMA DeleteDiscardKeeps ==
    ASSUME BInv, NEW t \in Threads, DeleteDiscard(t)
    PROVE  BInv'
<1>1. /\ pc' = [pc EXCEPT ![t] = "idle"]
      /\ del' = [del EXCEPT ![t] = NoBlock]
      /\ stored' \subseteq stored
      /\ disk' = disk /\ todo' = todo /\ got' = got /\ owned' = owned /\ lost' = lost
      /\ bsize' = bsize
  BY Zenon DEF DeleteDiscard, GoTo, allocvars
<1>2. Shape'
  BY Zenon, <1>1 DEF BInv, Shape
<1> QED
  BY Zenon, <1>1, <1>2, NothingMoves DEF BInv

LEMMA WriteBlockKeeps ==
    ASSUME BInv, NEW t \in Threads, NEW b \in owned[t], WriteBlock(t, b)
    PROVE  BInv'
<1>1. /\ stored' = stored \cup {b}
      /\ disk' = disk /\ todo' = todo /\ got' = got /\ owned' = owned /\ lost' = lost
      /\ bsize' = bsize /\ pc' = pc /\ del' = del
  BY Zenon DEF WriteBlock, allocvars
<1>2. b \in Blocks
  BY Zenon DEF BInv, Shape
<1>3. Shape'
  BY Zenon, <1>1, <1>2 DEF BInv, Shape
<1> QED
  BY Zenon, <1>1, <1>3, NothingMoves DEF BInv

LEMMA StutterKeeps ==
    ASSUME BInv, vars' = vars
    PROVE  BInv'
<1>1. /\ stored' = stored /\ bsize' = bsize /\ pc' = pc /\ del' = del
      /\ disk' = disk /\ todo' = todo /\ got' = got /\ owned' = owned /\ lost' = lost
  BY Zenon DEF vars, allocvars
<1>2. Shape'
  BY Zenon, <1>1 DEF BInv, Shape
<1> QED
  BY Zenon, <1>1, <1>2, NothingMoves DEF BInv

LEMMA NextKeeps == BInv /\ [Next]_vars => BInv'
<1> SUFFICES ASSUME BInv, [Next]_vars PROVE BInv'
  BY Zenon
<1>1. CASE vars' = vars
  BY Zenon, <1>1, StutterKeeps
<1>2. ASSUME NEW t \in Threads, NewBlocks(t) PROVE BInv'
  BY Zenon, <1>2, NewBlocksKeeps
<1>3. ASSUME NEW t \in Threads, NEW b \in owned[t], DeleteBlock(t, b) PROVE BInv'
  BY Zenon, <1>3, DeleteBlockKeeps
<1>4. ASSUME NEW t \in Threads, NEW d \in Disks, DeleteTwice(t, d) PROVE BInv'
  BY Zenon, <1>4, DeleteTwiceSame, StutterKeeps
<1>5. ASSUME NEW t \in Threads, NEW b \in owned[t], WriteBlock(t, b) PROVE BInv'
  BY Zenon, <1>5, WriteBlockKeeps
<1>6. ASSUME NEW t \in Threads, NEW d \in Disks, NewBlocksThrow(t, d) PROVE BInv'
  BY Zenon, <1>6, NewBlocksThrowKeeps
<1>7. ASSUME NEW t \in Threads, NEW d \in Disks, NewBlocksTake(t, d) PROVE BInv'
  BY Zenon, <1>7, NewBlocksTakeKeeps
<1>8. ASSUME NEW t \in Threads, NEW d \in Disks, NewBlocksSplit(t, d) PROVE BInv'
  BY Zenon, <1>8, NewBlocksSplitKeeps
<1>9. ASSUME NEW t \in Threads, NewBlocksReturn(t) PROVE BInv'
  BY Zenon, <1>9, NewBlocksReturnKeeps
<1>10. ASSUME NEW t \in Threads, DeleteDiscard(t) PROVE BInv'
  BY Zenon, <1>10, DeleteDiscardKeeps
<1> QED
  BY Zenon, <1>1, <1>2, <1>3, <1>4, <1>5, <1>6, <1>7, <1>8, <1>9, <1>10 DEF Next, Step

LEMMA Invariance == Spec => []BInv
<1>1. Init => BInv
  BY Zenon, InitInv
<1>2. BInv /\ [Next]_vars => BInv'
  BY Zenon, NextKeeps
<1> QED
  BY <1>1, <1>2, PTL DEF Spec

\* The state keeps its types, for any number of threads and disks, any block
\* sizes and any configured capacities.
THEOREM TypesKept == Spec => []TypeOK
<1>1. BInv => TypeOK
  <2> SUFFICES ASSUME BInv PROVE TypeOK
    BY Zenon
  <2>1. \A d \in Disks :
          /\ DOMAIN disk[d].free_space \subseteq Nat
          /\ \A p \in DOMAIN disk[d].free_space : disk[d].free_space[p] \in Nat \ {0}
          /\ disk[d].free_bytes \in Nat /\ disk[d].disk_bytes \in Nat
    <3> TAKE d \in Disks
    <3>1. Sound(disk[d])
      BY Zenon DEF BInv, Shape
    <3>2. /\ Regular(disk[d].free_space) /\ Separated(disk[d].free_space)
          /\ disk[d].disk_bytes \in Nat
      BY Zenon, <3>1 DEF Sound
    <3>3. disk[d].free_bytes \in Nat
      BY Zenon, <3>1, FS_CardinalityType DEF Sound
    <3>4. \A p \in DOMAIN disk[d].free_space : p \in Nat /\ disk[d].free_space[p] \in Nat \ {0}
      BY <3>2 DEF Regular, Separated
    <3> QED
      BY Zenon, <3>2, <3>3, <3>4
  <2>2. \A t \in Threads : got[t] \cup owned[t] \subseteq Blocks /\ del[t] \in Blocks \cup {NoBlock}
    BY Zenon DEF BInv, Shape
  <2> QED
    BY Zenon, <2>1, <2>2 DEF BInv, Shape, TypeOK
<1> QED
  BY <1>1, Invariance, PTL

\* Free regions stay merged and apart (add_free_region, new_blocks).
THEOREM SeparationKept == Spec => []RegionsSeparated
<1>1. BInv => RegionsSeparated
  BY Zenon DEF BInv, Shape, Sound, RegionsSeparated
<1> QED
  BY <1>1, Invariance, PTL

\* The counter free_bytes is the number of free bytes.
THEOREM CounterExact == Spec => []FreeBytesExact
<1>1. BInv => FreeBytesExact
  BY Zenon DEF BInv, Shape, Sound, FreeBytesExact, FreeOn
<1> QED
  BY <1>1, Invariance, PTL

\* Every byte is free, or in one block of one thread, or in a lost block.
THEOREM PartitionKept == Spec => []Partition
<1> QED
  BY BInvPartition, Invariance, PTL

\* add_free_region's test of two neighbours finds every double deallocation
\* of which a byte is still free, and refuses nothing else.
THEOREM DetectionExact == Spec => []OverlapDetected
<1>1. BInv => OverlapDetected
  <2> SUFFICES ASSUME BInv, NEW d \in Disks, NEW s \in BlockSizes,
                      NEW x \in 0..(disk[d].disk_bytes - s)
               PROVE  DoubleDeallocation(disk[d].free_space, x, s)
                        <=> Interval(x, s) \cap FreeOn(d) # {}
    BY Zenon DEF OverlapDetected
  <2>1. Regular(disk[d].free_space) /\ Separated(disk[d].free_space) /\ disk[d].disk_bytes \in Nat
    BY Zenon DEF BInv, Shape, Sound
  <2>2. s \in Nat \ {0}
    BY Zenon, BlockManagerAssumption
  <2>3. x \in Nat
    <3> DEFINE last == disk[d].disk_bytes - s
    <3>1. last \in Int /\ x \in 0..last
      BY <2>1, <2>2, SMTT(20)
    <3> HIDE DEF last
    <3> QED
      BY <3>1
  <2> QED
    BY Zenon, <2>1, <2>2, <2>3, OverlapFound DEF FreeOn
<1> QED
  BY <1>1, Invariance, PTL

-----------------------------------------------------------------------------
(* Growth. *)

\* A disk with fewer free bytes than size has no region of that size.
LEMMA TooFewNoFit ==
    ASSUME NEW D, Sound(D), NEW size \in Nat \ {0}, D.free_bytes < size
    PROVE  FirstFit(D, size) = {}
<1> SUFFICES ASSUME NEW p \in FirstFit(D, size) PROVE FALSE
  BY Zenon
<1>1. Regular(D.free_space) /\ IsFiniteSet(FreeBytes(D.free_space))
      /\ D.free_bytes = Cardinality(FreeBytes(D.free_space))
  BY Zenon DEF Sound
<1>2. p \in DOMAIN D.free_space /\ D.free_space[p] >= size
  BY Zenon, <1>1, FitFound
<1>3. p \in Nat /\ Interval(p, size) \subseteq FreeBytes(D.free_space)
  BY Zenon, <1>2, TakeKeepsSound
<1>4. Cardinality(Interval(p, size)) = size
  BY Zenon, <1>3, IntervalSize
<1>5. Cardinality(Interval(p, size)) <= Cardinality(FreeBytes(D.free_space))
  BY Zenon, <1>1, <1>3, FS_Subset
<1>6. Cardinality(FreeBytes(D.free_space)) \in Nat
  BY Zenon, <1>1, FS_CardinalityType
<1> QED
  BY <1>1, <1>4, <1>5, <1>6

\* new_blocks extends the file only when no region holds the request.
LEMMA ExtendedOnlyIfNeeded ==
    ASSUME BInv, NEW t \in Threads, NEW d \in Disks, OnDisk(t, d),
           Extended(t, d) # disk[d]
    PROVE  FirstFit(disk[d], Head(todo[t][d]) * bsize[t]) = {}
<1> DEFINE n == Head(todo[t][d])
           s == bsize[t]
<1>1. n \in Nat \ {0} /\ s \in Nat \ {0}
  BY Zenon, HeadOfTodo
<1>2. Sound(disk[d])
  BY Zenon DEF BInv, Shape
<1>3. disk[d].free_bytes < n * s \/ (n = 1 /\ FirstFit(disk[d], s) = {})
  BY Zenon DEF Extended
<1> HIDE DEF n, s
<1>4. n * s \in Nat \ {0}
  <2>1. 0 < n => 0 * s + s <= n * s
    BY Zenon, <1>1, Multiples
  <2>2. n * s \in Nat
    BY <1>1
  <2> QED
    BY <1>1, <2>1, <2>2
<1>5. n = 1 => n * s = s
  BY <1>1
<1>6. FirstFit(disk[d], n * s) = {}
  <2>1. CASE disk[d].free_bytes < n * s
    BY Zenon, <1>2, <1>4, <2>1, TooFewNoFit
  <2>2. CASE n = 1 /\ FirstFit(disk[d], s) = {}
    BY Zenon, <1>5, <2>2
  <2> QED
    BY Zenon, <1>3, <2>1, <2>2
<1> QED
  BY Zenon, <1>6 DEF n, s

\* A file is extended only when no region can hold the request.
THEOREM GrowthOnlyIfNeeded == Spec => GrowthNeeded
<1> DEFINE G == \A d \in Disks : disk'[d].disk_bytes > disk[d].disk_bytes =>
                  \E t \in Threads : /\ OnDisk(t, d)
                                     /\ FirstFit(disk[d], Head(todo[t][d]) * bsize[t]) = {}
<1>1. ASSUME BInv, disk' = disk PROVE G
  <2>1. \A d \in Disks : disk[d].disk_bytes \in Nat
    BY Zenon, <1>1 DEF BInv, Shape, Sound
  <2>2. \A d \in Disks : ~(disk'[d].disk_bytes > disk[d].disk_bytes)
    BY <1>1, <2>1
  <2> QED
    BY Zenon, <2>2
<1>2. ASSUME BInv, NEW t \in Threads, NEW e \in Disks, OnDisk(t, e), NEW E,
             E.disk_bytes = Extended(t, e).disk_bytes, disk' = [disk EXCEPT ![e] = E]
      PROVE  G
  <2> SUFFICES ASSUME NEW d \in Disks, disk'[d].disk_bytes > disk[d].disk_bytes
               PROVE  OnDisk(t, d) /\ FirstFit(disk[d], Head(todo[t][d]) * bsize[t]) = {}
    BY Zenon
  <2>1. disk = [c \in Disks |-> disk[c]] /\ disk[d].disk_bytes \in Nat
    BY Zenon, <1>2 DEF BInv, Shape, Sound
  <2>2. d = e
    <3>1. d # e => disk'[d] = disk[d]
      BY Zenon, <1>2, <2>1
    <3> QED
      BY <2>1, <3>1
  <2>3. disk'[d].disk_bytes = Extended(t, d).disk_bytes
    BY Zenon, <1>2, <2>1, <2>2
  <2>4. Extended(t, d) # disk[d]
    BY <2>1, <2>3
  <2> QED
    BY Zenon, <1>2, <2>2, <2>4, ExtendedOnlyIfNeeded
<1>3. ASSUME BInv, NEW t \in Threads, NEW e \in Disks, NewBlocksTake(t, e) PROVE G
  <2> DEFINE D == Extended(t, e)
  <2>1. OnDisk(t, e)
    BY Zenon, <1>3 DEF NewBlocksTake, MayProceed
  <2>2. PICK p : disk' = [disk EXCEPT ![e] = TakeFrom(D, p, Head(todo[t][e]) * bsize[t])]
    BY Zenon, <1>3 DEF NewBlocksTake
  <2>3. D.disk_bytes = TakeFrom(D, p, Head(todo[t][e]) * bsize[t]).disk_bytes
    <3>1. Sound(D)
      BY Zenon, <1>3, <2>1, ExtendedGrown DEF Grown
    <3> HIDE DEF D
    <3> QED
      BY Zenon, <3>1 DEF Sound, TakeFrom
  <2> QED
    BY Zenon, <1>2, <1>3, <2>1, <2>2, <2>3
<1>4. ASSUME BInv, NEW t \in Threads, NEW e \in Disks, NewBlocksSplit(t, e) PROVE G
  <2>1. OnDisk(t, e) /\ disk' = [disk EXCEPT ![e] = Extended(t, e)]
    BY Zenon, <1>4 DEF NewBlocksSplit, MayProceed
  <2> QED
    BY Zenon, <1>2, <1>4, <2>1
<1>5. ASSUME BInv, NEW t \in Threads, NEW b \in owned[t], DeleteBlock(t, b) PROVE G
  <2>1. \A d \in Disks : disk'[d].disk_bytes = disk[d].disk_bytes /\ disk[d].disk_bytes \in Nat
    BY Zenon, <1>5, DeleteBlockFacts DEF BInv, Shape, Sound
  <2> QED
    BY <2>1
<1>6. ASSUME BInv, NEW t \in Threads, NEW d \in Disks, DeleteTwice(t, d) PROVE G
  BY Zenon, <1>1, <1>6, DeleteTwiceSame DEF vars, allocvars
<1>7. ASSUME BInv, NEW t \in Threads,
             \/ NewBlocks(t) \/ NewBlocksReturn(t) \/ DeleteDiscard(t)
             \/ \E b \in owned[t] : WriteBlock(t, b)
             \/ \E d \in Disks : NewBlocksThrow(t, d)
      PROVE  G
  <2>1. disk' = disk
    BY Zenon, <1>7 DEF NewBlocks, NewBlocksReturn, DeleteDiscard, WriteBlock, NewBlocksThrow, allocvars
  <2> QED
    BY Zenon, <1>1, <1>7, <2>1
<1>8. BInv /\ [Next]_vars => [G]_vars
  <2> HIDE DEF G
  <2> QED
    BY Zenon, <1>3, <1>4, <1>5, <1>6, <1>7 DEF Next, Step
<1> QED
  BY <1>8, Invariance, PTL DEF Spec, GrowthNeeded

-----------------------------------------------------------------------------
(* Refinement of ByteOwnership. *)

LEMMA InBytesOf == \A B, y : y \in BytesOf(B) <=> \E b \in B : y \in BlockBytes(b)
  BY Zenon DEF BytesOf

LEMMA BytesOfUnion == \A A, B : BytesOf(A \cup B) = BytesOf(A) \cup BytesOf(B)
<1> TAKE A, B
<1>1. \A y : y \in BytesOf(A \cup B) <=> y \in BytesOf(A) \/ y \in BytesOf(B)
  BY InBytesOf
<1> QED
  BY Zenon, <1>1

\* Blocks that the partition keeps apart have no byte in common.
LEMMA BytesApart ==
    ASSUME NEW A, NEW dk, Consistent(A, dk), NEW B, NEW C, B \subseteq A, C \subseteq A,
           B \cap C = {}
    PROVE  BytesOf(B) \cap BytesOf(C) = {}
<1> SUFFICES ASSUME NEW y, NEW b \in B, NEW c \in C, y \in BlockBytes(b), y \in BlockBytes(c)
             PROVE  FALSE
  BY InBytesOf
<1>1. b \in Blocks /\ c \in Blocks /\ b # c /\ b \in A /\ c \in A
  BY Zenon DEF Consistent
<1>2. PICK x : y = <<b.disk, x>>
  BY Zenon DEF BlockBytes
<1>3. x \in Nat /\ Claims(b, b.disk, x)
  BY Zenon, <1>1, <1>2, BytesOfBlock
<1>4. Claims(c, b.disk, x)
  BY Zenon, <1>1, <1>2, BytesOfBlock
<1> QED
  BY Zenon, <1>1, <1>3, <1>4 DEF Consistent

\* Bytes of blocks are bytes of the disks.
LEMMA BytesExist ==
    ASSUME NEW A, NEW dk, Consistent(A, dk)
    PROVE  BytesOf(A) \subseteq UNION {{<<d, x>> : x \in 0..(dk[d].disk_bytes - 1)} : d \in Disks}
<1> SUFFICES ASSUME NEW b \in A, NEW y \in BlockBytes(b)
             PROVE  \E d \in Disks : \E x \in 0..(dk[d].disk_bytes - 1) : y = <<d, x>>
  BY InBytesOf
<1>1. b \in Blocks /\ b.disk \in Disks /\ b.pos \in Nat /\ b.size \in Nat
  BY Zenon, BlockFields DEF Consistent
<1>2. PICK x : y = <<b.disk, x>>
  BY Zenon DEF BlockBytes
<1>3. x \in Nat /\ Claims(b, b.disk, x)
  BY Zenon, <1>1, <1>2, BytesOfBlock
<1>4. b.pos + b.size <= dk[b.disk].disk_bytes /\ dk[b.disk].disk_bytes \in Nat
  BY Zenon, <1>1 DEF Consistent
<1>5. x \in 0..(dk[b.disk].disk_bytes - 1)
  BY <1>1, <1>3, <1>4 DEF Claims
<1> QED
  BY Zenon, <1>1, <1>2, <1>5

\* A step of t that leaves the blocks of the other threads alone.
LEMMA OthersHeld ==
    ASSUME NEW t \in Threads,
           \A u \in Threads : u # t => got'[u] = got[u] /\ owned'[u] = owned[u]
    PROVE  Ownership!OthersKeep(t)
<1>1. \A u \in Threads \ {t} : Held(u)' = Held(u)
  BY Zenon DEF Held
<1>2. \A u \in Threads \ {t} : BytesOf(Held(u))' = BytesOf(Held(u))
  BY Zenon, <1>1 DEF BytesOf, BlockBytes
<1> QED
  BY Zenon, <1>2 DEF Ownership!OthersKeep

\* The bytes that are taken are those of all blocks.
LEMMA TakenIsAll == Ownership!Taken = BytesOf(AllBlocks)
<1>1. \A y : y \in Ownership!Taken
               <=> y \in BytesOf(lost) \/ \E u \in Threads : y \in BytesOf(Held(u))
  BY Zenon DEF Ownership!Taken
<1>2. \A y : y \in BytesOf(AllBlocks)
               <=> y \in BytesOf(lost) \/ \E u \in Threads : y \in BytesOf(Held(u))
  BY InBytesOf DEF AllBlocks
<1> QED
  BY Zenon, <1>1, <1>2

LEMMA StutterMaps ==
    ASSUME BInv,
           \A d \in Disks : disk'[d].disk_bytes = disk[d].disk_bytes,
           \A u \in Threads : Held(u)' = Held(u), lost' = lost
    PROVE  UNCHANGED Ownership!vars
<1>1. \A u \in Threads : BytesOf(Held(u))' = BytesOf(Held(u))
  BY Zenon DEF BytesOf, BlockBytes
<1>2. BytesOf(lost)' = BytesOf(lost)
  BY Zenon DEF BytesOf, BlockBytes
<1> QED
  BY Zenon, <1>1, <1>2 DEF Ownership!vars

\* Blocks cut off a free region: t gets bytes that nobody holds.
LEMMA TakeMaps ==
    ASSUME BInv, NEW t \in Threads, NEW d \in Disks, NewBlocksTake(t, d)
    PROVE  Ownership!Get(t)
<1>1. PICK N :
         /\ N \subseteq Blocks
         /\ N \cap AllBlocks = {}
         /\ got' = [got EXCEPT ![t] = @ \cup N]
         /\ Consistent(AllBlocks \cup N, disk')
         /\ disk' = [e \in Disks |-> disk'[e]]
         /\ \A e \in Disks : Sound(disk'[e]) /\ disk'[e].disk_bytes >= disk[e].disk_bytes
  BY Zenon, TakeFacts
<1>2. owned' = owned /\ lost' = lost
  BY Zenon DEF NewBlocksTake
<1>3. got'[t] = got[t] \cup N /\ \A u \in Threads : u # t => got'[u] = got[u]
  BY Zenon, <1>1 DEF BInv, Shape
<1>4. Ownership!OthersKeep(t)
  BY Zenon, <1>2, <1>3, OthersHeld
<1>5. BytesOf(Held(t))' = BytesOf(Held(t)) \cup BytesOf(N)
  <2>1. Held(t)' = Held(t) \cup N
    BY Zenon, <1>2, <1>3 DEF Held
  <2>2. BytesOf(Held(t))' = BytesOf(Held(t) \cup N)
    BY Zenon, <2>1 DEF BytesOf, BlockBytes
  <2> QED
    BY Zenon, <2>2, BytesOfUnion
<1>6. BytesOf(N) \cap Ownership!Taken = {}
  <2>1. BytesOf(N) \cap BytesOf(AllBlocks) = {}
    BY <1>1, BytesApart
  <2> QED
    BY Zenon, <2>1, TakenIsAll
<1>7. BytesOf(N) \subseteq Ownership!Bytes'
  <2>1. BytesOf(AllBlocks \cup N)
          \subseteq UNION {{<<e, x>> : x \in 0..(disk'[e].disk_bytes - 1)} : e \in Disks}
    BY <1>1, BytesExist
  <2>2. BytesOf(N) \subseteq BytesOf(AllBlocks \cup N)
    BY BytesOfUnion
  <2>3. Ownership!Bytes' = UNION {{<<e, x>> : x \in 0..(disk'[e].disk_bytes - 1)} : e \in Disks}
    BY DEF Ownership!Bytes
  <2> QED
    BY Zenon, <2>1, <2>2, <2>3
<1>8. BytesOf(lost)' = BytesOf(lost)
  BY Zenon, <1>2 DEF BytesOf, BlockBytes
<1> DEFINE H == BytesOf(Held(t))
<1>9. H \subseteq H' /\ H' \ H \subseteq Ownership!Bytes' \ Ownership!Taken
  BY Zenon, <1>5, <1>6, <1>7
<1>10. \A e \in Disks : disk'[e].disk_bytes >= disk[e].disk_bytes
  BY Zenon, <1>1
<1> QED
  BY Zenon, <1>4, <1>8, <1>9, <1>10 DEF Ownership!Get

\* A split may extend the file and gives nothing to anyone.
LEMMA SplitMaps ==
    ASSUME BInv, NEW t \in Threads, NEW d \in Disks, NewBlocksSplit(t, d)
    PROVE  Ownership!Get(t)
<1> DEFINE D == Extended(t, d)
<1>1. /\ OnDisk(t, d) /\ disk' = [disk EXCEPT ![d] = D]
      /\ got' = got /\ owned' = owned /\ lost' = lost
  BY Zenon DEF NewBlocksSplit, MayProceed
<1>2. Grown(disk[d], D)
  BY Zenon, <1>1, ExtendedGrown
<1> HIDE DEF D
<1>3. \A e \in Disks : disk'[e].disk_bytes >= disk[e].disk_bytes
  <2> TAKE e \in Disks
  <2>1. disk = [c \in Disks |-> disk[c]] /\ disk[e].disk_bytes \in Nat
    BY Zenon DEF BInv, Shape, Sound
  <2>2. disk'[e] = IF e = d THEN D ELSE disk[e]
    BY Zenon, <1>1, <2>1
  <2> QED
    BY <1>2, <2>1, <2>2 DEF Grown
<1>4. Ownership!OthersKeep(t)
  BY Zenon, <1>1, OthersHeld
<1>5. BytesOf(Held(t))' = BytesOf(Held(t)) /\ BytesOf(lost)' = BytesOf(lost)
  BY Zenon, <1>1 DEF Held, BytesOf, BlockBytes
<1> QED
  BY Zenon, <1>3, <1>4, <1>5 DEF Ownership!Get

\* delete_block gives the bytes of one block back.
LEMMA DeleteMaps ==
    ASSUME BInv, NEW t \in Threads, NEW b \in owned[t], DeleteBlock(t, b)
    PROVE  Ownership!Put(t)
<1>1. owned' = [owned EXCEPT ![t] = @ \ {b}] /\ got' = got /\ lost' = lost
  BY Zenon DEF DeleteBlock
<1>2. owned'[t] \subseteq owned[t] /\ \A u \in Threads : u # t => owned'[u] = owned[u]
  BY Zenon, <1>1 DEF BInv, Shape
<1>3. Ownership!OthersKeep(t)
  BY Zenon, <1>1, <1>2, OthersHeld
<1>4. BytesOf(Held(t))' \subseteq BytesOf(Held(t))
  <2>1. Held(t)' \subseteq Held(t)
    BY Zenon, <1>1, <1>2 DEF Held
  <2>2. BytesOf(Held(t))' = UNION {BlockBytes(c) : c \in Held(t)'}
    BY Zenon DEF BytesOf, BlockBytes
  <2> QED
    BY Zenon, <2>1, <2>2 DEF BytesOf
<1>5. BytesOf(lost)' = BytesOf(lost)
  BY Zenon, <1>1 DEF BytesOf, BlockBytes
<1>6. \A e \in Disks : disk'[e].disk_bytes = disk[e].disk_bytes
  BY Zenon, DeleteBlockFacts
<1> QED
  BY Zenon, <1>3, <1>4, <1>5, <1>6 DEF Ownership!Put

\* The exception loses the bytes its thread had got, and only these.
LEMMA ThrowMaps ==
    ASSUME BInv, NEW t \in Threads, NEW d \in Disks, NewBlocksThrow(t, d)
    PROVE  Ownership!Lose(t)
<1>1. /\ lost' = lost \cup got[t] /\ got' = [got EXCEPT ![t] = {}]
      /\ owned' = owned /\ disk' = disk
  BY Zenon DEF NewBlocksThrow
<1>2. got'[t] = {} /\ \A u \in Threads : u # t => got'[u] = got[u]
  BY Zenon, <1>1 DEF BInv, Shape
<1>3. Ownership!OthersKeep(t)
  BY Zenon, <1>1, <1>2, OthersHeld
<1>4. BytesOf(Held(t))' = BytesOf(owned[t])
  <2>1. Held(t)' = owned[t]
    BY Zenon, <1>1, <1>2 DEF Held
  <2> QED
    BY Zenon, <2>1 DEF BytesOf, BlockBytes
<1>5. BytesOf(Held(t)) = BytesOf(got[t]) \cup BytesOf(owned[t])
  BY Zenon, BytesOfUnion DEF Held
<1>6. BytesOf(got[t]) \cap BytesOf(owned[t]) = {}
  <2>1. got[t] \subseteq AllBlocks /\ owned[t] \subseteq AllBlocks
    <3>1. Held(t) \subseteq AllBlocks
      BY Zenon DEF AllBlocks
    <3> QED
      BY Zenon, <3>1 DEF Held
  <2>2. got[t] \cap owned[t] = {} /\ Consistent(AllBlocks, disk)
    BY Zenon DEF BInv, Owners
  <2> QED
    BY Zenon, <2>1, <2>2, BytesApart
<1>7. BytesOf(lost)' = BytesOf(lost) \cup BytesOf(got[t])
  <2>1. BytesOf(lost)' = BytesOf(lost \cup got[t])
    BY Zenon, <1>1 DEF BytesOf, BlockBytes
  <2> QED
    BY Zenon, <2>1, BytesOfUnion
<1> DEFINE H == BytesOf(Held(t))
<1>8. H' \subseteq H /\ BytesOf(lost)' = BytesOf(lost) \cup (H \ H')
  BY Zenon, <1>4, <1>5, <1>6, <1>7
<1>9. \A e \in Disks : disk'[e].disk_bytes = disk[e].disk_bytes
  BY Zenon, <1>1
<1> QED
  BY Zenon, <1>3, <1>8, <1>9 DEF Ownership!Lose

\* The other steps change nothing that byte ownership sees.
LEMMA OthersMap ==
    ASSUME BInv, NEW t \in Threads,
           \/ NewBlocks(t) \/ NewBlocksReturn(t) \/ DeleteDiscard(t)
           \/ \E b \in owned[t] : WriteBlock(t, b)
           \/ \E d \in Disks : DeleteTwice(t, d)
    PROVE  UNCHANGED Ownership!vars
<1>1. CASE NewBlocksReturn(t)
  <2>1. /\ owned' = [owned EXCEPT ![t] = @ \cup got[t]] /\ got' = [got EXCEPT ![t] = {}]
        /\ disk' = disk /\ lost' = lost
    BY Zenon, <1>1 DEF NewBlocksReturn
  <2>2. \A u \in Threads : Held(u)' = Held(u)
    BY Zenon, <2>1 DEF BInv, Shape, Held
  <2> QED
    BY Zenon, <2>1, <2>2, StutterMaps
<1>2. CASE \E d \in Disks : DeleteTwice(t, d)
  <2>1. vars' = vars
    BY Zenon, <1>2, DeleteTwiceSame
  <2>2. disk' = disk /\ got' = got /\ owned' = owned /\ lost' = lost
    BY Zenon, <2>1 DEF vars, allocvars
  <2> QED
    BY Zenon, <2>2, StutterMaps DEF Held
<1>3. CASE NewBlocks(t) \/ DeleteDiscard(t) \/ \E b \in owned[t] : WriteBlock(t, b)
  <2>1. disk' = disk /\ got' = got /\ owned' = owned /\ lost' = lost
    BY Zenon, <1>3 DEF NewBlocks, DeleteDiscard, WriteBlock, allocvars
  <2> QED
    BY Zenon, <2>1, StutterMaps DEF Held
<1> QED
  BY Zenon, <1>1, <1>2, <1>3

\* The block manager implements the ownership of bytes: whatever its threads
\* do at the same time, a byte is only given to a thread when nobody has it.
THEOREM ImplementsOwnership == Spec => OwnershipSpec
<1>1. Init => Ownership!Init
  <2> SUFFICES ASSUME Init PROVE Ownership!Init
    BY Zenon
  <2>1. \A t \in Threads : BytesOf(Held(t)) = {}
    BY Zenon DEF Init, Held, BytesOf
  <2>2. BytesOf(lost) = {}
    BY Zenon DEF Init, BytesOf
  <2>3. \A d \in Disks : disk[d].disk_bytes = cfg_bytes[d]
    BY Zenon, InitialDisk DEF Init
  <2>4. cfg_bytes = [d \in Disks |-> cfg_bytes[d]]
    BY Zenon, BlockManagerAssumption
  <2> QED
    BY Zenon, <2>1, <2>2, <2>3, <2>4 DEF Ownership!Init
<1>2. BInv /\ [Next]_vars => [Ownership!Next]_(Ownership!vars)
  <2> SUFFICES ASSUME BInv, [Next]_vars PROVE [Ownership!Next]_(Ownership!vars)
    BY Zenon
  <2>1. CASE vars' = vars
    <3>1. disk' = disk /\ got' = got /\ owned' = owned /\ lost' = lost
      BY Zenon, <2>1 DEF vars, allocvars
    <3> QED
      BY Zenon, <3>1, StutterMaps DEF Held
  <2>2. ASSUME NEW t \in Threads, NEW d \in Disks, NewBlocksTake(t, d) \/ NewBlocksSplit(t, d)
        PROVE  Ownership!Next
    BY Zenon, <2>2, TakeMaps, SplitMaps DEF Ownership!Next
  <2>3. ASSUME NEW t \in Threads, NEW d \in Disks, NewBlocksThrow(t, d) PROVE Ownership!Next
    BY Zenon, <2>3, ThrowMaps DEF Ownership!Next
  <2>4. ASSUME NEW t \in Threads, NEW b \in owned[t], DeleteBlock(t, b) PROVE Ownership!Next
    BY Zenon, <2>4, DeleteMaps DEF Ownership!Next
  <2>5. ASSUME NEW t \in Threads,
               \/ NewBlocks(t) \/ NewBlocksReturn(t) \/ DeleteDiscard(t)
               \/ \E b \in owned[t] : WriteBlock(t, b)
               \/ \E d \in Disks : DeleteTwice(t, d)
        PROVE  UNCHANGED Ownership!vars
    BY Zenon, <2>5, OthersMap
  <2> QED
    BY Zenon, <2>1, <2>2, <2>3, <2>4, <2>5 DEF Next, Step
<1> QED
  BY <1>1, <1>2, Invariance, PTL DEF Spec, OwnershipSpec, Ownership!Spec
=============================================================================
