------------------------------- MODULE MCPools -------------------------------
(***************************************************************************)
(* Instances of the pools for TLC: three blocks, and two places of one     *)
(* disk.                                                                   *)
(***************************************************************************)
EXTENDS Pools, TLC

CONSTANTS b1, b2, b3, x, y, one, two

MCBlocks == {b1, b2, b3}
MCPlaces == {x, y}
MCValues == {one, two}
MCDiskOf == [d \in Bids |-> 1]

\* Blocks and values are interchangeable, and so are the places of a disk.
MCSymmetry ==
    Permutations(MCBlocks) \cup Permutations(MCValues) \cup Permutations(MCPlaces)
=============================================================================
