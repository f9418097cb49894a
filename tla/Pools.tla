-------------------------------- MODULE Pools --------------------------------
(***************************************************************************)
(* A read_write_pool: a write_pool, whose blocks are written               *)
(* asynchronously, and a prefetch_pool, whose blocks are read ahead, over  *)
(* the request queues of the disks.  One client thread owns the pool (it   *)
(* has no locks); the disks serve requests while the client runs.          *)
(*                                                                         *)
(* A block has at most one request at a time, so that requests are kept    *)
(* with their blocks.  The order of the lists of free blocks is left out;  *)
(* the list busy_blocks of the write pool keeps its order.  The client     *)
(* waits for a read before its next call.                                  *)
(***************************************************************************)
EXTENDS Integers, FiniteSets, Sequences

CONSTANTS
    Blocks,     \* the memory blocks
    Bids,       \* the places on the disks
    Disks,
    DiskOf,     \* the disk of a place
    Values,     \* the contents of blocks
    InitWrite,  \* initial size of the write pool
    InitPrefetch,
    MayFail,    \* whether transfers may raise io_error
    MayResize,  \* whether the client resizes the pools
    NoBlock,
    NoBid,
    NoValue     \* what no client has written

Ops == {"read", "write"}

ASSUME PoolsAssumption ==
    /\ IsFiniteSet(Blocks) /\ IsFiniteSet(Bids)
    /\ DiskOf \in [Bids -> Disks]
    /\ InitWrite \in Nat /\ InitPrefetch \in Nat
    /\ InitWrite + InitPrefetch <= Cardinality(Blocks)
    /\ MayFail \in BOOLEAN /\ MayResize \in BOOLEAN
    /\ NoBlock \notin Blocks /\ NoBid \notin Bids /\ NoValue \notin Values

VARIABLES
    w_free, w_busy,    \* the write_pool's lists
    p_free, p_busy,    \* the prefetch_pool's list and its hash map
    free_blocks_size,  \* the prefetch_pool's counter
    user,              \* the blocks of the client
    leaked,            \* the blocks no pointer refers to any more
    req,               \* the request of each block
    queue,             \* the queued requests of each disk, by type
    serving,           \* the block each disk transfers
    content,           \* what is in each block
    stored,            \* what is on the disks
    latest,            \* what the client wrote last
    failed,            \* the places whose last write failed
    cpc, cblk, cbid, cleft   \* the call the client is in

pools == <<w_free, w_busy, p_free, p_busy, free_blocks_size, user, leaked>>
io == <<req, queue, serving>>
data == <<content, stored, latest, failed>>
client == <<cpc, cblk, cbid, cleft>>
vars == <<pools, io, data, client>>

\* A request that is over, with or without an error.
Over(err) == [op |-> "none", bid |-> NoBid, done |-> TRUE, err |-> err]

Busy == {w_busy[i].block : i \in DOMAIN w_busy}
Cached == {p_busy[d] : d \in Bids} \ {NoBlock}
Reading == {cblk} \ {NoBlock}
Unused == Blocks \ (w_free \cup Busy \cup p_free \cup Cached \cup user \cup leaked \cup Reading)

TypeOK ==
    /\ w_free \subseteq Blocks /\ p_free \subseteq Blocks
    /\ user \subseteq Blocks /\ leaked \subseteq Blocks
    /\ w_busy \in Seq([block : Blocks, bid : Bids \cup {NoBid}])
    /\ p_busy \in [Bids -> Blocks \cup {NoBlock}]
    /\ free_blocks_size \in Nat /\ cleft \in Nat
    /\ req \in [Blocks -> [op : Ops \cup {"none"}, bid : Bids \cup {NoBid},
                           done : BOOLEAN, err : BOOLEAN]]
    /\ queue \in [Disks -> [Ops -> Seq(Blocks)]]
    /\ serving \in [Disks -> Blocks \cup {NoBlock}]
    /\ content \in [Blocks -> Values \cup {NoValue}]
    /\ stored \in [Bids -> Values \cup {NoValue}]
    /\ latest \in [Bids -> Values \cup {NoValue}]
    /\ failed \subseteq Bids
    /\ cpc \in {"idle", "steal", "shrink", "write", "invalidate", "read",
                "close_w", "close_p", "closed"}
    /\ cblk \in Blocks \cup {NoBlock} /\ cbid \in Bids \cup {NoBid}

Init ==
    /\ \E w \in SUBSET Blocks, p \in SUBSET Blocks :
         /\ Cardinality(w) = InitWrite /\ Cardinality(p) = InitPrefetch /\ w \cap p = {}
         /\ w_free = w /\ p_free = p /\ user = Blocks \ (w \cup p)
    /\ w_busy = <<>>
    /\ p_busy = [d \in Bids |-> NoBlock]
    /\ free_blocks_size = InitPrefetch
    /\ leaked = {}
    /\ req = [b \in Blocks |-> Over(FALSE)]
    /\ queue = [d \in Disks |-> [op \in Ops |-> <<>>]]
    /\ serving = [d \in Disks |-> NoBlock]
    /\ content = [b \in Blocks |-> NoValue]
    /\ stored = [d \in Bids |-> NoValue]
    /\ latest = [d \in Bids |-> NoValue]
    /\ failed = {}
    /\ cpc = "idle" /\ cblk = NoBlock /\ cbid = NoBid /\ cleft = 0

-----------------------------------------------------------------------------
(* The requests: block->read(bid), block->write(bid) and cancel().         *)

Queued(b) == req[b].op \in Ops /\ \E i \in DOMAIN queue[DiskOf[req[b].bid]][req[b].op] :
                 queue[DiskOf[req[b].bid]][req[b].op][i] = b

\* Mutant of Withdrawn: cancel() does not complete the request.
Withdrawn_silent(x) == req[x]

\* A request after cancel() has taken it out of its queue.
Withdrawn(x) == Over(FALSE)

\* Mutant of wait: it does not wait.
wait_not(b) == TRUE

\* request::wait() returns or throws.
wait(b) == req[b].done

\* Mutant of push_back: a request overtakes the queued ones.
push_back_front(q, b) == <<b>> \o q

\* add_request.
push_back(q, b) == Append(q, b)

\* list::erase at position i.
Erase(s, i) == [j \in 1..(Len(s) - 1) |-> IF j < i THEN s[j] ELSE s[j + 1]]

\* cancel_request: the request of a block of C is erased from its queue.  (No
\* call cancels two requests of one queue: busy_blocks has at most one entry
\* for a bid, and so has the hash map.)
cancel_request(q, C) ==
    IF \E i \in DOMAIN q : q[i] \in C
    THEN Erase(q, CHOOSE i \in DOMAIN q : q[i] \in C) ELSE q

\* The requests of the blocks C are canceled, those that are still queued;
\* then b is submitted, if it is a block.
CancelAndSubmit(C, b, op, bid) ==
    /\ queue' = [d \in Disks |-> [o \in Ops |->
                    IF b \in Blocks /\ d = DiskOf[bid] /\ o = op
                    THEN push_back(cancel_request(queue[d][o], C), b)
                    ELSE cancel_request(queue[d][o], C)]]
    /\ req' = [x \in Blocks |->
                  IF x = b THEN [op |-> op, bid |-> bid, done |-> FALSE, err |-> FALSE]
                  ELSE IF x \in C /\ Queued(x) THEN Withdrawn(x)
                  ELSE req[x]]

\* block->read(bid) and block->write(bid).
Submit(b, op, bid) == CancelAndSubmit({}, b, op, bid)

\* The worker of disk d takes the next request of either queue.
Serve(d) ==
    /\ serving[d] = NoBlock
    /\ \E op \in Ops :
         /\ queue[d][op] # <<>>
         /\ serving' = [serving EXCEPT ![d] = Head(queue[d][op])]
         /\ queue' = [queue EXCEPT ![d][op] = Tail(@)]
    /\ UNCHANGED <<pools, req, data, client>>

Completed(d, err) ==
    LET b == serving[d]
    IN  /\ b # NoBlock
        /\ req' = [req EXCEPT ![b] = Over(err)]
        /\ serving' = [serving EXCEPT ![d] = NoBlock]

\* The transfer succeeds.
Complete(d) ==
    LET b == serving[d]
    IN  /\ Completed(d, FALSE)
        /\ \/ /\ req[b].op = "write"
              /\ stored' = [stored EXCEPT ![req[b].bid] = content[b]]
              /\ failed' = failed \ {req[b].bid}
              /\ UNCHANGED content
           \/ /\ req[b].op = "read"
              /\ content' = [content EXCEPT ![b] = stored[req[b].bid]]
              /\ UNCHANGED <<stored, failed>>
        /\ UNCHANGED <<pools, queue, latest, client>>

\* The transfer raises io_error, which wait() and poll() throw from now on.
Fail(d) ==
    LET b == serving[d]
    IN  /\ MayFail /\ Completed(d, TRUE)
        /\ failed' = IF req[b].op = "write" THEN failed \cup {req[b].bid} ELSE failed
        /\ UNCHANGED <<pools, queue, content, stored, latest, client>>

-----------------------------------------------------------------------------
(* The write pool. *)

\* What is left in a block that is free or the client's does not matter.
Forget(S) == content' = [b \in Blocks |-> IF b \in S THEN NoValue ELSE content[b]]

Return == cpc' = "idle" /\ cblk' = NoBlock /\ cbid' = NoBid /\ cleft' = 0

Throw == Return

\* Mutant of TakeOut: resize deletes one block too many.
TakeOut_more(b) ==
    IF cpc = "shrink"
    THEN /\ cpc' = IF cleft = 0 THEN "idle" ELSE "shrink"
         /\ cleft' = cleft - 1
         /\ UNCHANGED <<user, cblk, cbid>>
    ELSE user' = user \cup {b} /\ Return

\* write_pool::steal: the block goes to the client, or resize deletes it.
TakeOut(b) ==
    IF cpc = "shrink"
    THEN /\ cpc' = IF cleft = 1 THEN "idle" ELSE "shrink"
         /\ cleft' = cleft - 1
         /\ UNCHANGED <<user, cblk, cbid>>
    ELSE user' = user \cup {b} /\ Return

\* steal() is called, with STXXL_ASSERT(size() > 0).
Steal ==
    /\ cpc = "idle" /\ w_free \cup Busy # {}
    /\ cpc' = "steal"
    /\ UNCHANGED <<pools, io, data, cblk, cbid, cleft>>

\* There is a free block.
StealFree ==
    /\ cpc \in {"steal", "shrink"}
    /\ \E b \in w_free : w_free' = w_free \ {b} /\ TakeOut(b)
    /\ UNCHANGED <<w_busy, p_free, p_busy, free_blocks_size, leaked, io, data>>

DoneAt(i) == req[w_busy[i].block].done
FailedAt(i) == DoneAt(i) /\ req[w_busy[i].block].err

\* check_all_busy: the blocks behind completed requests become free, up to
\* the first request whose poll() throws.
StopAt(s) ==
    LET bad == {i \in DOMAIN s : req[s[i].block].done /\ req[s[i].block].err}
    IN  IF bad = {} THEN Len(s) + 1 ELSE CHOOSE i \in bad : \A j \in bad : i <= j

CheckAllBusy(s) ==
    LET stop == StopAt(s)
        Freed(i) == i < stop /\ req[s[i].block].done
        kept == {i \in DOMAIN s : ~Freed(i)}
    IN  /\ w_free' = w_free \cup {s[i].block : i \in DOMAIN s \ kept}
        /\ \E f \in [1..Cardinality(kept) -> kept] :
             /\ \A i, j \in DOMAIN f : i < j => f[i] < f[j]
             /\ w_busy' = [k \in DOMAIN f |-> s[f[k]]]

\* wait_any returns one of the completed requests, and check_all_busy polls
\* the others.  If one of those has failed, the block is lost on the way.
StealCompleted ==
    /\ cpc \in {"steal", "shrink"} /\ w_free = {}
    /\ \E i \in DOMAIN w_busy :
         LET b == w_busy[i].block
             others == Erase(w_busy, i)
         IN  /\ DoneAt(i) /\ ~FailedAt(i)
             /\ CheckAllBusy(others)
             /\ Forget({b} \cup w_free')
             /\ IF StopAt(others) > Len(others)
                THEN TakeOut(b) /\ UNCHANGED leaked
                ELSE Throw /\ leaked' = leaked \cup {b} /\ UNCHANGED user
    /\ UNCHANGED <<p_free, p_busy, free_blocks_size, io, stored, latest, failed>>

\* wait_any throws what a failed request has raised.
StealThrow ==
    /\ cpc \in {"steal", "shrink"} /\ w_free = {}
    /\ \E i \in DOMAIN w_busy : FailedAt(i)
    /\ Throw
    /\ UNCHANGED <<pools, io, data>>

\* write_pool::resize.
ResizeWrite(n) ==
    LET size == Cardinality(w_free) + Len(w_busy)
    IN  /\ MayResize /\ cpc = "idle"
        /\ \/ /\ n > size
              /\ \E new \in SUBSET Unused :
                   Cardinality(new) = n - size /\ w_free' = w_free \cup new
              /\ UNCHANGED <<cpc, cleft>>
           \/ /\ n < size
              /\ cpc' = "shrink" /\ cleft' = size - n
              /\ UNCHANGED w_free
        /\ UNCHANGED <<w_busy, p_free, p_busy, free_blocks_size, user, leaked, io, data,
                       cblk, cbid>>

\* write_pool::add.
Add(b) ==
    /\ cpc = "idle" /\ b \in user
    /\ w_free' = w_free \cup {b} /\ user' = user \ {b}
    /\ UNCHANGED <<w_busy, p_free, p_busy, free_blocks_size, leaked, io, data, client>>

has_request(bid) == \E i \in DOMAIN w_busy : w_busy[i].bid = bid

\* The entry that steal_request takes out.
RequestAt(bid) ==
    CHOOSE i \in DOMAIN w_busy :
        w_busy[i].bid = bid /\ \A j \in 1..(i - 1) : w_busy[j].bid # bid

\* Mutant of steal_request: the entry stays.
steal_request_stays(bid) == w_busy

\* busy_blocks without that entry.
steal_request(bid) == Erase(w_busy, RequestAt(bid))

\* Mutant of InExchange: the write pool gets no block back.
InExchange_lost(b) == w_free

\* w_pool.add(block), "in exchange".
InExchange(b) == w_free \cup {b}

\* Mutant of Superseded: the stale request keeps its bid.
Superseded_not(bid) == w_busy

\* busy_blocks after a new write to bid: the entries for bid lose their bid,
\* so that nobody steals a stale block.
Superseded(bid) ==
    [i \in DOMAIN w_busy |->
        IF w_busy[i].bid = bid THEN [w_busy[i] EXCEPT !.bid = NoBid] ELSE w_busy[i]]

-----------------------------------------------------------------------------
(* The prefetch pool, and the calls of read_write_pool.                    *)

\* prefetch_pool::hint with the write pool, on the free blocks `free' and
\* the hints `busy'.
HintOn(free, nfree, busy, bid) ==
    IF busy[bid] # NoBlock \/ nfree = 0
    THEN /\ p_free' = free /\ free_blocks_size' = nfree /\ p_busy' = busy
         /\ UNCHANGED <<w_free, w_busy, req, queue>>
    ELSE \E b \in free :
           /\ p_free' = free \ {b} /\ free_blocks_size' = nfree - 1
           /\ IF has_request(bid)
              THEN /\ p_busy' = [busy EXCEPT ![bid] = w_busy[RequestAt(bid)].block]
                   /\ w_busy' = steal_request(bid)
                   /\ w_free' = InExchange(b)
                   /\ UNCHANGED <<req, queue>>
              ELSE /\ p_busy' = [busy EXCEPT ![bid] = b]
                   /\ Submit(b, "read", bid)
                   /\ UNCHANGED <<w_free, w_busy>>

Hint(bid) ==
    /\ cpc = "idle"
    /\ HintOn(p_free, free_blocks_size, p_busy, bid)
    /\ UNCHANGED <<user, leaked, serving, data, client>>

\* What invalidate(bid) cancels before it waits.
ToCancel(bid) == {b \in {p_busy[bid]} \ {NoBlock} : req[b].op = "read"}

\* write_pool::write, then prefetch_pool::invalidate up to its wait().
Write(b, bid, v) ==
    LET stale == {w_busy[i].block : i \in {j \in DOMAIN w_busy : w_busy[j].bid = bid}}
    IN  /\ cpc = "idle" /\ b \in user /\ v # latest[bid]
        /\ content' = [content EXCEPT ![b] = v]
        /\ latest' = [latest EXCEPT ![bid] = v]
        /\ CancelAndSubmit(stale \cup ToCancel(bid), b, "write", bid)
        /\ w_busy' = Append(Superseded(bid), [block |-> b, bid |-> bid])
        /\ user' = user \ {b}
        /\ IF p_busy[bid] = NoBlock THEN UNCHANGED client
           ELSE cpc' = "write" /\ cbid' = bid /\ UNCHANGED <<cblk, cleft>>
        /\ UNCHANGED <<w_free, p_free, p_busy, free_blocks_size, leaked, serving, stored, failed>>

\* prefetch_pool::invalidate up to its wait().
Invalidate(bid) ==
    /\ cpc = "idle" /\ p_busy[bid] # NoBlock
    /\ CancelAndSubmit(ToCancel(bid), NoBlock, "read", bid)
    /\ cpc' = "invalidate" /\ cbid' = bid
    /\ UNCHANGED <<pools, serving, data, cblk, cleft>>

\* The wait() is over: the block is free again, and write() hints anew.
Invalidated ==
    LET b == p_busy[cbid]
        busy == [p_busy EXCEPT ![cbid] = NoBlock]
    IN  /\ cpc \in {"write", "invalidate"}
        /\ wait(b) /\ ~req[b].err
        /\ IF cpc = "write"
           THEN HintOn(p_free \cup {b}, free_blocks_size + 1, busy, cbid)
           ELSE /\ p_free' = p_free \cup {b} /\ free_blocks_size' = free_blocks_size + 1
                /\ p_busy' = busy
                /\ UNCHANGED <<w_free, w_busy, req, queue>>
        /\ Forget({b})
        /\ Return
        /\ UNCHANGED <<user, leaked, serving, stored, latest, failed>>

InvalidateThrow ==
    /\ cpc \in {"write", "invalidate"}
    /\ req[p_busy[cbid]].err
    /\ Throw
    /\ UNCHANGED <<pools, io, data>>

\* prefetch_pool::read with the write pool; the client then waits.
Read(b, bid) ==
    /\ cpc = "idle" /\ b \in user
    /\ user' = user \ {b}
    /\ cpc' = "read" /\ cbid' = bid
    /\ IF p_busy[bid] # NoBlock
       THEN /\ p_free' = p_free \cup {b} /\ free_blocks_size' = free_blocks_size + 1
            /\ cblk' = p_busy[bid]
            /\ p_busy' = [p_busy EXCEPT ![bid] = NoBlock]
            /\ UNCHANGED <<w_free, w_busy, req, queue>>
       ELSE /\ UNCHANGED <<p_free, p_busy, free_blocks_size>>
            /\ IF has_request(bid)
               THEN /\ cblk' = w_busy[RequestAt(bid)].block
                    /\ w_busy' = steal_request(bid)
                    /\ w_free' = InExchange(b)
                    /\ UNCHANGED <<req, queue>>
               ELSE /\ cblk' = b
                    /\ Submit(b, "read", bid)
                    /\ UNCHANGED <<w_free, w_busy>>
    /\ UNCHANGED <<leaked, serving, data, cleft>>

\* wait() on the request returns or throws; the block is the client's.
ReadWait ==
    /\ cpc = "read" /\ wait(cblk)
    /\ user' = user \cup {cblk}
    /\ req' = [req EXCEPT ![cblk] = Over(FALSE)]
    /\ Forget({cblk})
    /\ Return
    /\ UNCHANGED <<w_free, w_busy, p_free, p_busy, free_blocks_size, leaked, queue, serving,
                   stored, latest, failed>>

\* prefetch_pool::add.
AddPrefetch(b) ==
    /\ cpc = "idle" /\ b \in user
    /\ p_free' = p_free \cup {b} /\ free_blocks_size' = free_blocks_size + 1
    /\ user' = user \ {b}
    /\ UNCHANGED <<w_free, w_busy, p_busy, leaked, io, data, client>>

\* prefetch_pool::steal, with STXXL_CHECK(!free_blocks.empty()).
StealPrefetch ==
    /\ cpc = "idle"
    /\ \E b \in p_free : p_free' = p_free \ {b} /\ user' = user \cup {b}
    /\ free_blocks_size' = free_blocks_size - 1
    /\ UNCHANGED <<w_free, w_busy, p_busy, leaked, io, data, client>>

\* prefetch_pool::resize: only free blocks can go.
ResizePrefetch(n) ==
    LET size == free_blocks_size + Cardinality({d \in Bids : p_busy[d] # NoBlock})
        gone == IF size - n < free_blocks_size THEN size - n ELSE free_blocks_size
    IN  /\ MayResize /\ cpc = "idle"
        /\ \/ /\ n > size
              /\ \E new \in SUBSET Unused :
                   Cardinality(new) = n - size /\ p_free' = p_free \cup new
              /\ free_blocks_size' = free_blocks_size + (n - size)
           \/ /\ n < size
              /\ \E old \in SUBSET p_free : Cardinality(old) = gone /\ p_free' = p_free \ old
              /\ free_blocks_size' = free_blocks_size - gone
        /\ UNCHANGED <<w_free, w_busy, p_busy, user, leaked, io, data, client>>

-----------------------------------------------------------------------------
(* The destructors: ~write_pool, then ~prefetch_pool.                      *)

Close ==
    /\ cpc = "idle"
    /\ cpc' = "close_w" /\ w_free' = {}
    /\ UNCHANGED <<w_busy, p_free, p_busy, free_blocks_size, user, leaked, io, data,
                   cblk, cbid, cleft>>

\* ~write_pool waits for one request after the other; at the first exception
\* it gives up, and the blocks that are left are never deleted.
CloseWrite ==
    /\ cpc = "close_w"
    /\ \/ /\ w_busy = <<>>
          /\ cpc' = "close_p" /\ p_free' = {} /\ free_blocks_size' = 0
          /\ UNCHANGED <<w_busy, leaked>>
       \/ /\ w_busy # <<>> /\ wait(w_busy[1].block)
          /\ w_busy' = IF FailedAt(1) THEN <<>> ELSE Tail(w_busy)
          /\ leaked' = IF FailedAt(1) THEN leaked \cup Busy ELSE leaked
          /\ UNCHANGED <<cpc, p_free, free_blocks_size>>
    /\ UNCHANGED <<w_free, p_busy, user, io, data, cblk, cbid, cleft>>

\* ~prefetch_pool likewise, in the order of the hash map.
ClosePrefetch ==
    /\ cpc = "close_p"
    /\ \/ /\ Cached = {}
          /\ cpc' = "closed"
          /\ UNCHANGED <<p_busy, leaked>>
       \/ \E bid \in Bids :
            LET b == p_busy[bid]
            IN  /\ b # NoBlock /\ wait(b)
                /\ p_busy' = IF req[b].err THEN [d \in Bids |-> NoBlock]
                             ELSE [p_busy EXCEPT ![bid] = NoBlock]
                /\ leaked' = IF req[b].err THEN leaked \cup Cached ELSE leaked
                /\ UNCHANGED cpc
    /\ UNCHANGED <<w_free, w_busy, p_free, free_blocks_size, user, io, data, cblk, cbid, cleft>>

-----------------------------------------------------------------------------

\* A call that has begun goes on.
Continue ==
    \/ StealFree \/ StealCompleted \/ StealThrow
    \/ Invalidated \/ InvalidateThrow
    \/ ReadWait
    \/ CloseWrite \/ ClosePrefetch

Disk(d) == Serve(d) \/ Complete(d) \/ Fail(d)

Next ==
    \/ Continue
    \/ \E d \in Disks : Disk(d)
    \/ Steal \/ StealPrefetch \/ Close
    \/ \E b \in Blocks : Add(b) \/ AddPrefetch(b)
    \/ \E b \in Blocks, bid \in Bids : Read(b, bid)
    \/ \E b \in Blocks, bid \in Bids, v \in Values : Write(b, bid, v)
    \/ \E bid \in Bids : Hint(bid) \/ Invalidate(bid)
    \/ \E n \in 0..Cardinality(Blocks) : ResizeWrite(n) \/ ResizePrefetch(n)

Spec == Init /\ [][Next]_vars

\* The client's thread runs, and the workers serve their queues.
FairSpec == Spec /\ WF_vars(Continue) /\ \A d \in Disks : WF_vars(Disk(d))

-----------------------------------------------------------------------------
(* Properties. *)

\* Every block is in one place only: no two lists of the pools, nor a list
\* and the client, share a block (the exchanges in hint, read and write).
OneOwner ==
    /\ Cardinality(w_free) + Len(w_busy) + Cardinality(p_free)
         + Cardinality({d \in Bids : p_busy[d] # NoBlock})
         + Cardinality(user) + Cardinality(leaked) + Cardinality(Reading)
         = Cardinality(w_free \cup Busy \cup p_free \cup Cached \cup user \cup leaked \cup Reading)
    /\ free_blocks_size = Cardinality(p_free)

\* No block gets lost in an exchange: apart from the destructors, only the
\* two calls of resize delete blocks.
NothingLost ==
    [][\/ cpc \in {"shrink", "close_w", "close_p"} \/ cpc' = "close_w"
       \/ \E n \in 0..Cardinality(Blocks) : ResizePrefetch(n)
       \/ Unused' \subseteq Unused]_vars

\* No block that the client or a list of free blocks holds is the buffer of
\* a request in flight (write_pool::steal, prefetch_pool::invalidate).
NoTransferIntoFree ==
    \A b \in w_free \cup p_free \cup user \cup Unused : req[b].done

\* A read whose wait() does not throw delivers what the client wrote last,
\* wherever it comes from: a hint that was overtaken by a write, a write in
\* flight, or the disk; unless that write itself has failed.
ReadsLatest ==
    (cpc = "read" /\ req[cblk].done /\ ~req[cblk].err /\ cbid \notin failed)
        => content[cblk] = latest[cbid]

\* When the destructors return and no write has failed, the disks hold what
\* the client wrote last.
ClosedIsDurable ==
    (cpc = "closed" /\ failed = {} /\ leaked = {}) => stored = latest

\* Every call returns or throws, although it may wait for a transfer.
CallsReturn == cpc \notin {"idle", "closed"} ~> cpc \in {"idle", "closed"}
=============================================================================
