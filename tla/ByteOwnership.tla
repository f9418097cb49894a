---------------------------- MODULE ByteOwnership ----------------------------
(***************************************************************************)
(* What the block manager promises its clients: a byte of a disk belongs   *)
(* to at most one thread at a time.  A thread is only ever given bytes     *)
(* that exist and that nobody holds, it alone gives them back, and a disk  *)
(* never shrinks.  Bytes may be lost, but only by the thread that held     *)
(* them.                                                                   *)
(***************************************************************************)
EXTENDS Integers

CONSTANTS Threads, Disks, Capacity

VARIABLES capacity, held, lost

vars == <<capacity, held, lost>>

\* The bytes that exist.
Bytes == UNION {{<<d, x>> : x \in 0..(capacity[d] - 1)} : d \in Disks}

Taken == lost \cup UNION {held[t] : t \in Threads}

Init ==
    /\ capacity = Capacity
    /\ held = [t \in Threads |-> {}]
    /\ lost = {}

OthersKeep(t) == \A u \in Threads \ {t} : held'[u] = held[u]

\* t gets bytes nobody holds; the disks may have been extended.
Get(t) ==
    /\ OthersKeep(t)
    /\ \A d \in Disks : capacity'[d] >= capacity[d]
    /\ held[t] \subseteq held'[t]
    /\ held'[t] \ held[t] \subseteq Bytes' \ Taken
    /\ UNCHANGED lost

\* t gives some of its bytes back.
Put(t) ==
    /\ OthersKeep(t)
    /\ held'[t] \subseteq held[t]
    /\ UNCHANGED <<capacity, lost>>

\* Some of t's bytes are lost for everyone.
Lose(t) ==
    /\ OthersKeep(t)
    /\ held'[t] \subseteq held[t]
    /\ lost' = lost \cup (held[t] \ held'[t])
    /\ UNCHANGED capacity

Next == \E t \in Threads : Get(t) \/ Put(t) \/ Lose(t)

Spec == Init /\ [][Next]_vars
=============================================================================
