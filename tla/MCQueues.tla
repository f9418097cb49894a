--------------------------------- MODULE MCQueues ---------------------------------
(***************************************************************************)
(* Mergers and priority queues, one behaviour for each: which says whose   *)
(* object obj is, ref is the value it should have.                         *)
(***************************************************************************)
EXTENDS Integers, Sequences

CONSTANTS Null

VARIABLES which, obj, ref
vars == <<which, obj, ref>>

LT == INSTANCE LoserTree WITH Kinds <- {[ext |-> FALSE, par |-> FALSE, arity |-> 4, keys
     |-> 3, items |-> 4], [ext |-> FALSE, par |-> TRUE, arity |-> 4, keys |-> 2, items
     |-> 4], [ext |-> TRUE, par |-> FALSE, arity |-> 5, keys |-> 2, items |-> 5], [ext
     |-> TRUE, par |-> TRUE, arity |-> 3, keys |-> 3, items |-> 5]}, BlockItems <- 2,
     MaxLen <- 3
PQ == INSTANCE PriorityQueue WITH Configs <- {[n |-> 1, del |-> 1, ints |-> 1, exts |->
     1, intk |-> 4, extk |-> 2, par |-> FALSE, keys |-> 1, items |-> 30], [n |-> 1, del
     |-> 1, ints |-> 1, exts |-> 1, intk |-> 4, extk |-> 2, par |-> FALSE, keys |-> 2,
     items |-> 8], [n |-> 2, del |-> 2, ints |-> 1, exts |-> 1, intk |-> 4, extk |-> 3,
     par |-> TRUE, keys |-> 2, items |-> 10], [n |-> 1, del |-> 1, ints |-> 2, exts |->
     1, intk |-> 4, extk |-> 3, par |-> FALSE, keys |-> 1, items |-> 28]},
     BlockItems <- 2
QP == INSTANCE QueueParts WITH Players <- 5, Keys <- {1, 2}, Width <- 8, Values <- 1..3,
     MaxSize <- 4, May <- {}
EA == INSTANCE ExternalArray WITH Configs <- {[cap |-> 5, items |-> 2, threads |-> 2],
     [cap |-> 7, items |-> 3, threads |-> 2], [cap |-> 4, items |-> 2, threads |-> 3],
     [cap |-> 5, items |-> 5, threads |-> 3], [cap |-> 1, items |-> 2, threads |-> 2],
     [cap |-> 3, items |-> 1, threads |-> 2]}, May <- {"rounds"}, Capacities <- {1, 4,
     5, 7}, BlockItems <- 2, Pool <- 3
PP == INSTANCE ParallelPriorityQueue WITH Configs <- {[heaps |-> 1, cap |-> 1, mem |->
     16, ialevel |-> 5, ealevel |-> 2, limit |-> 3, order |-> <<3, 5, 1, 6, 2>>, limits
     |-> {4}], [heaps |-> 1, cap |-> 1, mem |-> 20, ialevel |-> 5, ealevel |-> 3, limit
     |-> 3, order |-> <<1, 2, 3, 4, 5, 6>>, limits |-> {4}], [heaps |-> 2, cap |-> 1,
     mem |-> 40, ialevel |-> 2, ealevel |-> 3, limit |-> 3, order |-> <<2, 1, 2, 2>>,
     limits |-> {2}]}, BlockItems <- 1, Unit <- 4, ReadHalves <- 2, Levels <- 4,
     Zero <- FALSE, Known <- {"grow", "stale", "empty-array", "memory",
     "not-enough-memory", "read-pool", "no-progress"}

Init ==
    \/ which = "losertree" /\ LT!Init
    \/ which = "pqueue" /\ PQ!Init
    \/ which = "winnertree" /\ QP!Init
    \/ which = "swapvector" /\ QP!VectorInit
    \/ which = "arraywriter" /\ EA!WriterInit
    \/ which = "externalarray" /\ EA!Init
    \/ which = "ppq" /\ PP!Init

LoserTreeStep == which = "losertree" /\ LT!Next /\ UNCHANGED which
PriorityQueueStep == which = "pqueue" /\ PQ!Next /\ UNCHANGED which
WinnerTreeStep == which = "winnertree" /\ QP!Next /\ UNCHANGED which
SwapVectorStep == which = "swapvector" /\ QP!VectorNext /\ UNCHANGED which
ArrayWriterStep == which = "arraywriter" /\ EA!WriterNext /\ UNCHANGED which
ExternalArrayStep == which = "externalarray" /\ EA!Next /\ UNCHANGED which
ParallelQueueStep == which = "ppq" /\ PP!Next /\ UNCHANGED which

Next ==
    \/ LoserTreeStep \/ PriorityQueueStep \/ WinnerTreeStep \/ SwapVectorStep
    \/ ArrayWriterStep \/ ExternalArrayStep \/ ParallelQueueStep

Spec == Init /\ [][Next]_vars

\* Every object has the type its module states.
TypeOK ==
    /\ which = "losertree" => LT!TypeOK
    /\ which = "pqueue" => PQ!TypeOK
    /\ which = "winnertree" => QP!TypeOK
    /\ which = "swapvector" => QP!VectorTypeOK
    /\ which = "arraywriter" => EA!WriterTypeOK
    /\ which = "externalarray" => EA!TypeOK
    /\ which = "ppq" => PP!TypeOK

\* Mergers, arrays and priority queues hold the elements put in and not taken
\* out, and give the least first.
QueuesHold ==
    \* A merger gives its largest keys in order and keeps the others.
    /\ which = "losertree" => LT!MergeExact
    \* The unrolled merge does what the loop does.
    /\ which = "losertree" => LT!MergersAgree
    \* The top of a priority queue is its largest key, and none is lost.
    /\ which = "pqueue" => PQ!QueueHolds
    \* A vector of swapped elements holds what it should, in order.
    /\ which = "swapvector" => QP!VectorHolds
    \* What the threads write to a new external array is what the array
    \* holds.
    /\ which = "arraywriter" => EA!ItemsKept
    \* An external array loses only the items that are removed.
    /\ which = "externalarray" => EA!ItemsLeft
    \* The iterator over an external array points to the item of its index.
    /\ which = "externalarray" => EA!IteratorRight
    \* The parallel queue hands out its first elements, and none is lost.
    /\ which = "ppq" => PP!ParallelQueueHolds

\* Every tournament is up to date: losers, winners and the buffers in front
\* of the mergers show what lies below them.
TreesExact ==
    \* Every slot of a loser tree plays once, with the key it shows.
    /\ which = "losertree" => LT!TreeExact
    \* The buffers of a priority queue are ahead of what they are filled
    \* from.
    /\ which = "pqueue" => PQ!BuffersLead
    \* A group that is not active is empty.
    /\ which = "pqueue" => PQ!InactiveEmpty
    \* The top of a winner tree is a player with the least key.
    /\ which = "winnertree" => QP!WinnerRight
    \* Every node of a winner tree shows the winner of its game.
    /\ which = "winnertree" => QP!TreeValid
    \* The trees of the parallel queue show the array that comes next.
    /\ which = "ppq" => PP!TreesRight

\* Slots, segments, buffers and blocks are free or in use by one place, and
\* the counters are right.
MemoryAccounted ==
    /\ TypeOK
    \* The free slots of a merger are those without an array.
    /\ which = "losertree" => LT!SlotsAccounted
    \* The memory, blocks and items of a merger are counted right.
    /\ which = "losertree" => LT!MemoryAccounted
    \* A block somebody writes to is in memory.
    /\ which = "arraywriter" => EA!LiveInMemory
    \* A finished external array is on disk, with the minima of its blocks.
    /\ which = "arraywriter" => EA!AllWritten
    \* An external array owns the buffers and blocks it still needs.
    /\ which = "externalarray" => EA!BuffersExact
    \* The counters of the parallel queue agree with what they count.
    /\ which = "ppq" => PP!CountersExact

\* No assertion of the priority queues fails, but for those of the parallel
\* one that are listed as known to fail.
AssertionsHold ==
    \* No assertion of the priority queue fails.
    /\ which = "pqueue" => PQ!AssertionsHold
    \* No assertion of the parallel queue fails but the known ones.
    /\ which = "ppq" => PP!OnlyKnownFail
=============================================================================
