----------------------------- MODULE MCLiveness -----------------------------
(***************************************************************************)
(* The liveness properties.  Each behaviour is one of the worker's queue,  *)
(* the block manager, the pools, the linuxaio queue, or of the waiting for *)
(* several requests (which); the other components stay in an initial       *)
(* state.  The asynchronous queue and the waiting are also checked for     *)
(* safety here.                                                            *)
(***************************************************************************)
EXTENDS Integers, Sequences, FiniteSets

CONSTANTS w1, w2, r1, NoReq, t1, t2, b1, b2, b3, x, one, NoPoolBlock, NoBid, NoValue, c1, c2

VARIABLES
    which,
    thread_state, sem, queue, wpc, wreq, write_phase, spc, cpc, rstate, m_file, m_error,
    served, handled, waited,
    disk, bpc, bsize, todo, got, owned, del, lost, bstored,
    w_free, w_busy, p_free, p_busy, free_blocks_size, user, leaked, req, pqueue, serving,
    content, stored, latest, failed, pcpc, cblk, cbid, cleft,
    phase, max_events, waiting, posted, num_waiting, num_free, num_posted, inflight, ready,
    apc, state, cur, count, events, acpc, completions, owner, refused,
    m_state, m_failed, m_waiters, m_on, call, kpc, wcur, wresult

\* Two writes and a read that may fail; nobody cancels.
RQ == INSTANCE RequestQueue WITH
    Requests <- {w1, w2, r1}, ReadReqs <- {r1}, Cancelers <- {}, Faulty <- {r1}, MayStop <- TRUE

\* A disk of three bytes that may not grow.
BM == INSTANCE BlockManager WITH
    Threads <- {t1, t2}, ndisks <- 1, BlockSizes <- {1}, MaxBlocks <- 2,
    cfg_bytes <- [d \in {0} |-> 3], autogrow <- [d \in {0} |-> FALSE],
    MaxGrow <- 0, Writable <- {}, pc <- bpc, stored <- bstored

\* Three blocks and one place.
PL == INSTANCE Pools WITH
    Blocks <- {b1, b2, b3}, Bids <- {x}, Disks <- {1}, DiskOf <- [b \in {x} |-> 1],
    Values <- {one}, InitWrite <- 1, InitPrefetch <- 1, MayFail <- TRUE, MayResize <- TRUE,
    NoBlock <- NoPoolBlock, queue <- pqueue, cpc <- pcpc

\* Two requests, one of which may be cancelled, and one or two events.
AQ == INSTANCE AioQueue WITH
    AioRequests <- 1..2, AioCancelers <- {1}, Desired <- {0, 1, 7}, DefaultLength <- 2,
    KernelMax <- 3, IntLimit <- 16, MayRefuse <- TRUE, MayCancelPosted <- TRUE,
    pc <- apc, cpc <- acpc

\* Two callers that wait for two requests.
WA == INSTANCE WaitAny WITH
    K <- 2, Callers <- {c1, c2}, Failing <- {2}, Spurious <- TRUE, wpc <- kpc

\* What the theorems on the two assume of the constants.
ASSUME ConstantsFit == AQ!AioConstants /\ WA!WaitConstants

qvars == <<thread_state, sem, queue, wpc, wreq, write_phase, spc, cpc, rstate, m_file,
           m_error, served, handled, waited>>
bvars == <<disk, bpc, bsize, todo, got, owned, del, lost, bstored>>
pvars == <<w_free, w_busy, p_free, p_busy, free_blocks_size, user, leaked, req, pqueue,
           serving, content, stored, latest, failed, pcpc, cblk, cbid, cleft>>
avars == <<phase, max_events, waiting, posted, num_waiting, num_free, num_posted, inflight,
           ready, apc, state, cur, count, events, acpc, completions, owner, refused>>
kvars == <<m_state, m_failed, m_waiters, m_on, call, kpc, wcur, wresult>>
vars == <<which, qvars, bvars, pvars, avars, kvars>>

Queue(step) == which = "queue" /\ step
               /\ UNCHANGED <<which, bvars, pvars, avars, kvars>>
Blocks(step) == which = "blocks" /\ step
               /\ UNCHANGED <<which, qvars, pvars, avars, kvars>>
Pool(step) == which = "pools" /\ step
               /\ UNCHANGED <<which, qvars, bvars, avars, kvars>>
Aio(step) == which = "aio" /\ step
               /\ UNCHANGED <<which, qvars, bvars, pvars, kvars>>
Waits(step) == which = "wait" /\ step
               /\ UNCHANGED <<which, qvars, bvars, pvars, avars>>

\* The calls of c1 and c2, up to an exchange of the two.
CallPairs ==
    {<<"wait_any", c>> : c \in {"wait_any", "wait_all", "poll_any"}}
        \cup {<<"wait_all", "wait_all">>, <<"wait_all", "poll_any">>, <<"poll_any", "poll_any">>}

Init ==
    /\ which \in {"queue", "blocks", "pools", "aio", "wait"}
    /\ RQ!Init /\ BM!Init /\ PL!Init /\ AQ!Init /\ WA!Init
    /\ w_free = {b1} /\ p_free = {b2}
    /\ which # "aio" => max_events = 2
    /\ <<call[c1], call[c2]>> \in
         IF which = "wait" THEN CallPairs ELSE {<<"poll_any", "poll_any">>}

Next ==
    \/ Queue(RQ!Next) \/ Blocks(BM!Next) \/ Pool(PL!Next) \/ Aio(AQ!Next) \/ Waits(WA!Next)

\* The fairness of each component's own specification.  Only one component
\* moves in a behaviour, so one condition serves an actor of each of them.
Fairness ==
    /\ WF_vars(\/ Queue(RQ!Worker) \/ Blocks(BM!Step(t1)) \/ Pool(PL!Continue)
               \/ Aio(AQ!PostStep) \/ Waits(WA!CallerStep(c1)))
    /\ WF_vars(\/ Queue(RQ!Stop) \/ Blocks(BM!Step(t2)) \/ Pool(PL!Disk(1))
               \/ Aio(AQ!WaitStep) \/ Waits(WA!CallerStep(c2)))
    /\ WF_vars(\/ Queue(RQ!ClientStep(w1)) \/ Aio(AQ!KernelDone(1))
               \/ Waits(WA!notify_waiters(1)))
    /\ WF_vars(\/ Queue(RQ!ClientStep(w2)) \/ Aio(AQ!KernelDone(2))
               \/ Waits(WA!notify_waiters(2)))
    /\ WF_vars(Queue(RQ!ClientStep(r1)) \/ Aio(AQ!Negotiate) \/ Waits(WA!SetReady(1)))
    /\ WF_vars(Aio(AQ!Construct) \/ Waits(WA!SetReady(2)))

FairSpec == Init /\ [][Next]_vars /\ Fairness
-----------------------------------------------------------------------------
\* linuxaio_queue: every event of the io context is free, belongs to a
\* submitted request whose completion is not handled yet, or is held by the
\* posting thread.  The two counters of requests are exact, up to what the
\* threads and a cancel have in transit.  A request is in one place, and
\* completed() runs for it once, except after a cancel that the kernel grants.
\* The constructor provides the length asked for or throws.
AioAccounted == AQ!AioAccounted

\* wait_any, wait_all, poll_any: what a call returns is right and stays so, and
\* a call that returns has taken its switch, which lives on its stack, out of
\* every request.
WaitReturnsRight == WA!WaitReturnsRight

\* request_queue_impl_qwqr and linuxaio_queue: every request whose submission
\* returned is completed, as long as nobody cancels, the kernel refuses nothing
\* and the queue is not destroyed.
EveryRequestCompletes == RQ!EveryRequestCompletes /\ AQ!AddedCompletes

\* The destructor of a queue returns, and every call of new_blocks, of
\* delete_block and of the pools returns or throws.
CallsReturn == RQ!StopReturns /\ BM!CallsReturn /\ PL!CallsReturn

\* wait_any: no caller sleeps through the completion of one of its requests.
NoLostWakeUp == WA!NoLostWakeUp
=============================================================================
