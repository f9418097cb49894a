------------------------------- MODULE MCContainers -------------------------------
(***************************************************************************)
(* The containers and their caches, and the write-behind file, one         *)
(* behaviour for each: which says whose object obj is, ref is the value it *)
(* should have.                                                            *)
(***************************************************************************)
EXTENDS Integers, Sequences, TLC

CONSTANTS Null, Readers

VARIABLES which, obj, ref
vars == <<which, obj, ref>>

S == INSTANCE Stacks WITH blocks_per_page <- 2, BlockElems <- 1, critical_size <- 3,
     MaxSize <- 8, MaxAggr <- 2, Values <- {0, 1}
Q == INSTANCE BlockSequence WITH B <- 2, MaxItems <- 7, Items <- {0, 1},
     blocks2prefetch <- 1
D == INSTANCE Deque WITH DefaultSize <- 2, MaxLength <- 5, DValues <- {0, 1}
V == INSTANCE PagedVector WITH BSize <- 2, PageSizes <- {1, 2}, NumPages <- 2,
     MaxElems <- 5, MaxBlocks <- 6, WatchSet <- {4}, MayShrink <- FALSE
T == INSTANCE BTree WITH max_size <- 4, max_value <- 40, BulkSizes <- {0, 9, 12, 17},
     Fills <- {2, 3}, OpKeys <- {2, 4, 5, 7, 24}, MaxOps <- 4
N == INSTANCE NodeCache WITH Size <- 3, NBids <- 4, MaySwap <- FALSE
H == INSTANCE HashMap WITH Hash <- <<3, 2, 2>>, HashMax <- 7, SubblockSize <- 2,
     SubblocksPerBlock <- 2, MaxBuffers <- {2, 3}, FirstBuckets <- 3, Watched <- 3,
     MaxOps <- 1, MaxTotal <- 3, May <- {}
HC == INSTANCE HashBlockCache WITH Size <- 2, NBlocks <- 3, NSubs <- 2,
     WriteBuffers <- 1, PageSize <- 1, PrefetchPages <- 2, May <- {}
WB == INSTANCE WriteBehind WITH SizeOf <- [o \in {0, 2, 3} |-> IF o = 2 THEN 1 ELSE 2],
     write_block_size <- 3, Sizes <- {6, 10}, MaxWrites <- 4, May <- {}

Init ==
    \/ which = "stack" /\ S!Init
    \/ which = "sequence" /\ Q!Init
    \/ which = "deque" /\ D!Init
    \/ which = "vector" /\ V!Init
    \/ which = "btree" /\ T!Init
    \/ which = "nodecache" /\ N!Init
    \/ which = "hashmap" /\ H!Init
    \/ which = "hashcache" /\ HC!Init
    \/ which = "writebehind" /\ WB!Init

StackStep == which = "stack" /\ S!Next /\ UNCHANGED which
SequenceStep == which = "sequence" /\ Q!Next /\ UNCHANGED which
DequeStep == which = "deque" /\ D!Next /\ UNCHANGED which
VectorStep == which = "vector" /\ V!Next /\ UNCHANGED which
BTreeStep == which = "btree" /\ T!Next /\ UNCHANGED which
NodeCacheStep == which = "nodecache" /\ N!Next /\ UNCHANGED which
HashMapStep == which = "hashmap" /\ H!Next /\ UNCHANGED which
HashCacheStep == which = "hashcache" /\ HC!Next /\ UNCHANGED which
WriteBehindStep == which = "writebehind" /\ WB!Next /\ UNCHANGED which

Next ==
    \/ StackStep \/ SequenceStep \/ DequeStep \/ VectorStep
    \/ BTreeStep \/ NodeCacheStep \/ HashMapStep \/ HashCacheStep
    \/ WriteBehindStep

Spec == Init /\ [][Next]_vars

\* The readers of the hash map's cache are alike.
Symmetry == Permutations(Readers)

\* Every object has the type its module states.
TypeOK ==
    /\ which = "stack" => S!TypeOK
    /\ which = "sequence" => Q!TypeOK
    /\ which = "deque" => D!TypeOK
    /\ which = "vector" => V!TypeOK
    /\ which = "btree" => T!TypeOK
    /\ which = "nodecache" => N!TypeOK
    /\ which = "hashmap" => H!TypeOK
    /\ which = "hashcache" => HC!TypeOK
    /\ which = "writebehind" => WB!TypeOK

\* Every container holds what the calls made of it say: no element is lost,
\* doubled, stale or out of place, wherever it is kept.
ContainersHold ==
    \* A stack holds what was pushed and not popped, whatever its requests
    \* do.
    /\ which = "stack" => S!StackHoldsPushed
    \* A queue or sequence holds what was pushed and not popped, in order.
    /\ which = "sequence" => Q!HoldsPushed
    \* A deque has its elements in order across growth and wrap-around.
    /\ which = "deque" => D!DequeHolds
    \* An element of a vector keeps its last value through evictions,
    \* resizes, flushes and buffered writers.
    /\ which = "vector" => V!VectorHolds
    \* A walk over a B-tree meets the elements of the map in order, each
    \* once.
    /\ which = "btree" => T!TreeHolds
    \* find, lower_bound and upper_bound agree with the map.
    /\ which = "btree" => T!LookupsRight
    \* A lookup finds the last value of a key.
    /\ which = "hashmap" => H!MapHolds
    \* The size of the hash map is right unless it is estimated.
    /\ which = "hashmap" => H!SizeExact
    \* A read of the write-behind file delivers the last write.
    /\ which = "writebehind" => WB!LatestRead

\* What a cache of blocks holds, what it takes for saved and what is on disk
\* agree, and no slot is used twice.
CachesCoherent ==
    \* Cache slots and pages are mapped to each other.
    /\ which = "vector" => V!SlotsMapped
    \* A dirty page is in the cache.
    /\ which = "vector" => V!DirtyIsCached
    \* The content of a B-tree node is never lost, in memory or on disk.
    /\ which = "nodecache" => N!NodesCurrent
    \* A clean slot of the node cache can be reused without writing it.
    /\ which = "nodecache" => N!CleanIsSaved
    \* Every slot of the node cache is free or has one block.
    /\ which = "nodecache" => N!SlotsAccounted
    \* A fixed node stays in its slot.
    /\ which = "nodecache" => N!FixedStays
    \* What was written last to a cached block is never lost.
    /\ which = "hashcache" => HC!LastWriteKept
    \* A block is retained as often as readers are at it.
    /\ which = "hashcache" => HC!RetainExact

\* Iterators and streams go through a container in order and stay at their
\* element while it changes under them.
IteratorsFollow ==
    \* Streams show the elements in order.
    /\ which = "sequence" => Q!StreamInOrder
    \* Iterator arithmetic is that of positions.
    /\ which = "deque" => D!IteratorsOrdered
    \* Buffered readers deliver any range in either direction.
    /\ which = "vector" => V!ReadersInOrder
    \* Stepping a blocked index is adding or subtracting one.
    /\ which = "vector" => V!IndexSteps
    \* An iterator keeps its element while others come and go.
    /\ which = "btree" => T!IteratorsStable
    \* A scan of the hash map meets every value once, in order.
    /\ which = "hashmap" => H!ScanInOrder
    \* An iterator follows its value through rebuilds and overwriting.
    /\ which = "hashmap" => H!IteratorFollows
    \* The subblock a reader points to is its own.
    /\ which = "hashcache" => HC!ReaderCurrent

\* No block is read, written, hinted or released while it belongs to somebody
\* else or another transfer of it is under way.
TransfersSafe ==
    \* No pending request concerns a block that is given back.
    /\ which = "stack" => S!NoTransferOfFreedBlock
    \* The pool holds only hints for blocks the stack owns.
    /\ which = "stack" => S!HintsAreOwned
    \* Blocks on disk lie between two blocks in memory.
    /\ which = "sequence" => Q!DiskOnlyBetween
    \* No read is under way to a slot that is free or loaded in part.
    /\ which = "hashcache" => HC!NoReadInFlight
    \* No region is given back twice.
    /\ which = "writebehind" => WB!NoDoubleFree

\* Blocks, nodes, buffers and free space are accounted for: each is in use by
\* one place or free.
NothingLeaked ==
    /\ TypeOK
    \* No buffer of the pool is lost or given back twice.
    /\ which = "sequence" => Q!BuffersAccounted
    \* The vector owns the blocks it allocated and no others.
    /\ which = "vector" => V!NoBlockLost
    \* The tree is a B-tree with nodes at least half full.
    /\ which = "btree" => T!Balanced
    \* Every node allocated and not deleted is in the tree.
    /\ which = "btree" => T!NoNodeLost
    \* The buffer of the hash map keeps its limit.
    /\ which = "hashmap" => H!BufferBounded
    \* Every unit of the disk is free, mapped or in the rest of the buffer.
    /\ which = "writebehind" => WB!SpaceExact
    \* The two address maps are inverse to each other.
    /\ which = "writebehind" => WB!MappingsInverse
=============================================================================
