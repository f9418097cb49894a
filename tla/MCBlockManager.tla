--------------------------- MODULE MCBlockManager ---------------------------
(***************************************************************************)
(* Instances of the block manager for TLC.                                 *)
(***************************************************************************)
EXTENDS BlockManager, TLC

CONSTANTS t1, t2

MCThreads == {t1, t2}
MCSizes == {1, 2}
MCWritable == {[disk |-> 0, pos |-> 0, size |-> 1]}

\* A disk of three bytes that may not grow, and one that is empty and may.
MCBytes == [d \in Disks |-> IF d = 0 THEN 3 ELSE 0]
MCGrow == [d \in Disks |-> d # 0]

\* The threads are interchangeable.
MCSymmetry == Permutations(MCThreads)
=============================================================================
