---------------------------- MODULE BlockManager ----------------------------
(***************************************************************************)
(* The block manager: threads allocate and release blocks on several       *)
(* disks, each managed by a disk_allocator with a mutex of its own.        *)
(*                                                                         *)
(* new_blocks_int visits the disks in order.  On a disk, new_blocks tries  *)
(* to place its blocks in one region and otherwise unlocks and calls       *)
(* itself for the two halves, so that other threads run in between.  The   *)
(* recursion is the stack todo[t][d] of the sizes of the calls still to be *)
(* made; one step is one critical section.  delete_block releases the      *)
(* region first and tells the file to discard it afterwards, without a     *)
(* lock.                                                                   *)
(***************************************************************************)
EXTENDS FreeSpace, Sequences, Functions

CONSTANTS
    Threads,
    ndisks,
    BlockSizes,   \* the block sizes of the data structures in use
    MaxBlocks,    \* bound: blocks per call of new_blocks
    cfg_bytes,    \* the configured size of each disk
    autogrow,     \* whether it may grow
    MaxGrow,      \* bound: no call begins when a disk has grown by more
    Writable      \* bound: the blocks whose owners write to them

Disks == 0..(ndisks - 1)

ASSUME BlockManagerAssumption ==
    /\ ndisks \in Nat /\ MaxBlocks \in Nat /\ MaxGrow \in Nat
    /\ cfg_bytes \in [Disks -> Nat] /\ autogrow \in [Disks -> BOOLEAN]
    /\ BlockSizes \subseteq Nat \ {0}

VARIABLES
    disk,      \* the disk_allocators
    pc,        \* where each thread is
    bsize,     \* the block size of its call
    todo,      \* its calls of disk_allocator::new_blocks still to be made
    got,       \* the blocks its call has allocated so far
    owned,     \* the blocks it has been given
    del,       \* the block its delete_block is about
    lost,      \* blocks that no BID refers to any more
    stored     \* the blocks whose contents the files hold

allocvars == <<disk, todo, got, owned, lost>>
vars == <<allocvars, pc, bsize, del, stored>>

Blocks == [disk : Disks, pos : Nat, size : BlockSizes]
NoBlock == [disk |-> -1, pos |-> 0, size |-> 0]

TypeOK ==
    /\ \A d \in Disks :
         /\ DOMAIN disk[d].free_space \subseteq Nat
         /\ \A p \in DOMAIN disk[d].free_space : disk[d].free_space[p] \in Nat \ {0}
         /\ disk[d].free_bytes \in Nat /\ disk[d].disk_bytes \in Nat
    /\ pc \in [Threads -> {"idle", "alloc", "discard"}]
    /\ bsize \in [Threads -> BlockSizes \cup {0}]
    /\ todo \in [Threads -> [Disks -> Seq(1..MaxBlocks)]]
    /\ \A t \in Threads : got[t] \cup owned[t] \subseteq Blocks /\ del[t] \in Blocks \cup {NoBlock}
    /\ lost \subseteq Blocks /\ stored \subseteq Blocks

Init ==
    /\ disk = [d \in Disks |-> grow_file(NoDisk, cfg_bytes[d])]
    /\ pc = [t \in Threads |-> "idle"]
    /\ bsize = [t \in Threads |-> 0]
    /\ todo = [t \in Threads |-> [d \in Disks |-> <<>>]]
    /\ got = [t \in Threads |-> {}]
    /\ owned = [t \in Threads |-> {}]
    /\ del = [t \in Threads |-> NoBlock]
    /\ lost = {}
    /\ stored = {}

-----------------------------------------------------------------------------
(* new_blocks. *)

GoTo(t, from, to) == pc[t] = from /\ pc' = [pc EXCEPT ![t] = to]

\* The number of blocks, over all disks.
Total(bl) == FoldFunction(+, 0, bl)

\* block_manager::new_blocks_int: bl[d] blocks are to come from disk d.
NewBlocks(t) ==
    /\ GoTo(t, "idle", "alloc")
    /\ \A d \in Disks : disk[d].disk_bytes <= cfg_bytes[d] + MaxGrow
    /\ \E s \in BlockSizes, bl \in [Disks -> 0..MaxBlocks] :
         /\ Total(bl) \in 1..MaxBlocks
         /\ bsize' = [bsize EXCEPT ![t] = s]
         /\ todo' = [todo EXCEPT ![t] = [d \in Disks |-> IF bl[d] = 0 THEN <<>> ELSE <<bl[d]>>]]
    /\ UNCHANGED <<disk, got, owned, del, lost, stored>>

\* The call of disk_allocator::new_blocks that t makes next.
OnDisk(t, d) ==
    /\ pc[t] = "alloc"
    /\ todo[t][d] # <<>>
    /\ \A e \in Disks : e < d => todo[t][e] = <<>>

\* Mutant of Extended: the file grows although nothing is missing.
Extended_always(t, d) ==
    LET n == Head(todo[t][d])
    IN  IF autogrow[d] \/ (n = 1 /\ FirstFit(disk[d], bsize[t]) = {})
        THEN grow_file(disk[d], n * bsize[t]) ELSE disk[d]

\* The disk after new_blocks has extended the file: by the whole request when
\* too few bytes are free (with autogrow), or by one block when one block is
\* requested and no region can hold it (in any case).
Extended(t, d) ==
    LET n == Head(todo[t][d])
        D == IF disk[d].free_bytes < n * bsize[t] THEN grow_file(disk[d], n * bsize[t])
             ELSE disk[d]
    IN  IF n = 1 /\ FirstFit(D, bsize[t]) = {} THEN grow_file(D, bsize[t]) ELSE D

\* Too few bytes are free and the file may not grow: bad_ext_alloc leaves all
\* the calls, and the BIDs of the blocks allocated so far are gone.
NewBlocksThrow(t, d) ==
    /\ OnDisk(t, d)
    /\ disk[d].free_bytes < Head(todo[t][d]) * bsize[t] /\ ~autogrow[d]
    /\ pc' = [pc EXCEPT ![t] = "idle"]
    /\ todo' = [todo EXCEPT ![t] = [e \in Disks |-> <<>>]]
    /\ lost' = lost \cup got[t]
    /\ got' = [got EXCEPT ![t] = {}]
    /\ bsize' = [bsize EXCEPT ![t] = 0]
    /\ UNCHANGED <<disk, owned, del, stored>>

MayProceed(t, d) ==
    OnDisk(t, d) /\ (autogrow[d] \/ disk[d].free_bytes >= Head(todo[t][d]) * bsize[t])

\* A region holds the whole request: its blocks are cut off the region.
NewBlocksTake(t, d) ==
    LET D == Extended(t, d)
        n == Head(todo[t][d])
    IN  /\ MayProceed(t, d)
        /\ \E p \in FirstFit(D, n * bsize[t]) :
             /\ disk' = [disk EXCEPT ![d] = TakeFrom(D, p, n * bsize[t])]
             /\ got' = [got EXCEPT ![t] = @ \cup
                   {[disk |-> d, pos |-> p + k * bsize[t], size |-> bsize[t]] : k \in 0..(n - 1)}]
        /\ todo' = [todo EXCEPT ![t][d] = Tail(@)]
        /\ UNCHANGED <<pc, bsize, owned, del, lost, stored>>

\* Mutant of NewBlocksSplit: the middle is one too low.
NewBlocksSplit_low(t, d) ==
    LET n == Head(todo[t][d])
        parts == SelectSeq(<<(n - 1) \div 2, n - (n - 1) \div 2>>, LAMBDA x : x > 0)
    IN  /\ MayProceed(t, d)
        /\ FirstFit(Extended(t, d), n * bsize[t]) = {}
        /\ disk' = [disk EXCEPT ![d] = Extended(t, d)]
        /\ todo' = [todo EXCEPT ![t][d] = parts \o Tail(@)]
        /\ UNCHANGED <<pc, bsize, got, owned, del, lost, stored>>

\* No region does: unlock, then new_blocks for either half.
NewBlocksSplit(t, d) ==
    LET n == Head(todo[t][d])
    IN  /\ MayProceed(t, d)
        /\ FirstFit(Extended(t, d), n * bsize[t]) = {}
        /\ disk' = [disk EXCEPT ![d] = Extended(t, d)]
        /\ todo' = [todo EXCEPT ![t][d] = <<n \div 2, n - n \div 2>> \o Tail(@)]
        /\ UNCHANGED <<pc, bsize, got, owned, del, lost, stored>>

\* All disks are done: the BIDs are handed to the caller.
NewBlocksReturn(t) ==
    /\ \A d \in Disks : todo[t][d] = <<>>
    /\ GoTo(t, "alloc", "idle")
    /\ owned' = [owned EXCEPT ![t] = @ \cup got[t]]
    /\ got' = [got EXCEPT ![t] = {}]
    /\ bsize' = [bsize EXCEPT ![t] = 0]
    /\ UNCHANGED <<disk, todo, del, lost, stored>>

-----------------------------------------------------------------------------
(* delete_block. *)

BlockBytes(b) == {<<b.disk, x>> : x \in Interval(b.pos, b.size)}

\* disk_allocator::delete_block, under the mutex.
DeleteBlock(t, b) ==
    /\ b \in owned[t]
    /\ ~DoubleDeallocation(disk[b.disk].free_space, b.pos, b.size)
    /\ GoTo(t, "idle", "discard")
    /\ disk' = [disk EXCEPT ![b.disk] = add_free_region(@, b.pos, b.size)]
    /\ owned' = [owned EXCEPT ![t] = @ \ {b}]
    /\ del' = [del EXCEPT ![t] = b]
    /\ UNCHANGED <<todo, got, bsize, lost, stored>>

\* A BID is used again after its block was deleted, while a byte of it is
\* free: the exception leaves everything as it is.  (If all of it has been
\* allocated again, the caller takes another's block away, which no check can
\* tell.)
DeleteTwice(t, d) ==
    /\ pc[t] = "idle"
    /\ \E s \in BlockSizes, x \in 0..(disk[d].disk_bytes - 1) :
         /\ x + s <= disk[d].disk_bytes
         /\ Interval(x, s) \cap FreeBytes(disk[d].free_space) # {}
         /\ \/ /\ DoubleDeallocation(disk[d].free_space, x, s)
               /\ UNCHANGED disk
            \/ /\ ~DoubleDeallocation(disk[d].free_space, x, s)
               /\ disk' = [disk EXCEPT ![d] = add_free_region(@, x, s)]
    /\ UNCHANGED <<todo, got, owned, lost, pc, bsize, del, stored>>

\* file::discard destroys what the file holds at this offset (mem_file
\* overwrites it, fileperblock_file removes it, wbtl_file unmaps it).
DeleteDiscard(t) ==
    /\ GoTo(t, "discard", "idle")
    /\ stored' = {b \in stored : ~(b.disk = del[t].disk /\ b.pos = del[t].pos)}
    /\ del' = [del EXCEPT ![t] = NoBlock]
    /\ UNCHANGED <<allocvars, bsize>>

\* The owner writes a block.
WriteBlock(t, b) ==
    /\ pc[t] = "idle" /\ b \in (owned[t] \cap Writable) \ stored
    /\ stored' = stored \cup {b}
    /\ UNCHANGED <<allocvars, pc, bsize, del>>

-----------------------------------------------------------------------------

\* A step of a call that has begun.
Step(t) ==
    \/ \E d \in Disks : NewBlocksThrow(t, d) \/ NewBlocksTake(t, d) \/ NewBlocksSplit(t, d)
    \/ NewBlocksReturn(t)
    \/ DeleteDiscard(t)

Next ==
    \E t \in Threads :
        \/ NewBlocks(t)
        \/ \E b \in owned[t] : DeleteBlock(t, b)
        \/ \E d \in Disks : DeleteTwice(t, d)
        \/ \E b \in owned[t] : WriteBlock(t, b)
        \/ Step(t)

Spec == Init /\ [][Next]_vars

\* The operating system runs every thread that is inside a call.
FairSpec == Spec /\ \A t \in Threads : WF_vars(Step(t))
-----------------------------------------------------------------------------
(* Properties. *)

\* The blocks a thread has been given or is being given.
Held(t) == got[t] \cup owned[t]

\* The blocks that are not free.
AllBlocks == lost \cup UNION {Held(t) : t \in Threads}

BytesOf(B) == UNION {BlockBytes(b) : b \in B}

FreeOn(d) == FreeBytes(disk[d].free_space)

\* Whatever threads allocate, release and fail to allocate at the same time:
\* free regions stay merged and apart (add_free_region, new_blocks).
RegionsSeparated == \A d \in Disks : Separated(disk[d].free_space)

\* free_bytes, on which new_blocks decides whether to fail or to grow, is the
\* number of bytes in the free regions.
FreeBytesExact == \A d \in Disks : disk[d].free_bytes = Cardinality(FreeOn(d))

\* Every byte of a disk is in a free region, in one block of one thread, or
\* in a block lost to an exception, and in only one of these.
Partition ==
    /\ \A d \in Disks :
         FreeOn(d) = {x \in 0..(disk[d].disk_bytes - 1) :
                        \A b \in AllBlocks : <<d, x>> \notin BlockBytes(b)}
    /\ \A b \in AllBlocks : b.pos + b.size <= disk[b.disk].disk_bytes
    /\ \A b, c \in AllBlocks : b # c => BlockBytes(b) \cap BlockBytes(c) = {}
    /\ \A t, u \in Threads : t # u => Held(t) \cap Held(u) = {}
    /\ \A t \in Threads : got[t] \cap owned[t] = {} /\ Held(t) \cap lost = {}

\* The test in add_free_region for a double deallocation looks at two
\* regions only, and misses nothing: it refuses exactly the regions of which
\* some byte is free.
OverlapDetected ==
    \A d \in Disks : \A s \in BlockSizes : \A x \in 0..(disk[d].disk_bytes - s) :
        DoubleDeallocation(disk[d].free_space, x, s) <=> Interval(x, s) \cap FreeOn(d) # {}

\* A file is extended only when the blocks asked for do not fit: new_blocks
\* never grows a disk that has a large enough region for this request.
GrowthNeeded ==
    [][\A d \in Disks : disk'[d].disk_bytes > disk[d].disk_bytes =>
          \E t \in Threads : /\ OnDisk(t, d)
                             /\ FirstFit(disk[d], Head(todo[t][d]) * bsize[t]) = {}]_vars

\* A block that its owner has written is not discarded under it ("The I/O and
\* block management layers are thread-safe").
WrittenBlocksStay ==
    [][\A t \in Threads : stored \cap owned[t] \cap owned'[t] \subseteq stored']_vars

\* Every call of new_blocks and delete_block returns or throws: the recursion
\* ends although other threads take regions between its critical sections.
CallsReturn == \A t \in Threads : pc[t] # "idle" ~> pc[t] = "idle"

\* The block manager implements the ownership of bytes.
Ownership == INSTANCE ByteOwnership WITH
    Capacity <- cfg_bytes,
    capacity <- [d \in Disks |-> disk[d].disk_bytes],
    held <- [t \in Threads |-> BytesOf(Held(t))],
    lost <- BytesOf(lost)

\* What threads are given and give back respects byte ownership.
OwnershipSpec == Ownership!Spec
=============================================================================
