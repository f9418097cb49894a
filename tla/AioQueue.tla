------------------------------ MODULE AioQueue ------------------------------
(***************************************************************************)
(* The queue of linuxaio files: clients hand requests to waiting_requests, *)
(* the posting thread submits them to the kernel (io_submit), the waiting  *)
(* thread reaps their completion events (io_getevents).  Three semaphores  *)
(* count waiting requests, free kernel events and posted requests.  The    *)
(* kernel is external: it completes submitted requests in any order, may   *)
(* refuse a submission (EAGAIN) and may or may not cancel one.             *)
(***************************************************************************)
EXTENDS Integers, Sequences, FiniteSets

CONSTANTS
    AioRequests,     \* the requests of the run
    AioCancelers,    \* those whose client may call cancel()
    Desired,         \* the possible values of desired_queue_length
    DefaultLength,   \* the length used for desired_queue_length = 0
    KernelMax,       \* the number of events io_setup grants at most
    IntLimit,        \* 2^31 for a 32 bit int: max_events <<= 1 overflows there
    MayRefuse,       \* whether io_submit may fail with EAGAIN
    MayCancelPosted  \* whether io_cancel may succeed

\* What the theorems assume of the constants; desired_queue_length is an int.
AioConstants ==
    /\ IsFiniteSet(AioRequests)
    /\ IntLimit \in Nat /\ KernelMax \in Nat
    /\ DefaultLength \in 1..(IntLimit - 1)
    /\ Desired \subseteq (-IntLimit)..(IntLimit - 1)

VARIABLES
    phase,       \* "setup", "run", or "throw" when the constructor threw
    max_events,
    waiting,     \* waiting_requests
    posted,      \* posted_requests: only a cancel erases from it
    num_waiting, num_free, num_posted,   \* the semaphores
    inflight,    \* requests submitted and not finished (in the kernel)
    ready,       \* completion events not yet reaped (in the kernel)
    pc,          \* of the two threads
    state,       \* post_thread_state and wait_thread_state
    cur,         \* req of post_requests, as a set of at most one
    count,       \* the value the last semaphore-- returned, per thread
    events,      \* the events array of each thread, as a set
    cpc,         \* where the client of each request is
    completions, \* how often completed() ran for a request
    owner,       \* where ~linuxaio_queue is
    refused      \* some io_submit failed with EAGAIN

vars == <<phase, max_events, waiting, posted, num_waiting, num_free, num_posted,
              inflight, ready, pc, state, cur, count, events, cpc, completions,
              owner, refused>>

Threads == {"post", "wait"}
ClientPcs == {"new", "queued", "wait_sem", "posted_sem", "cancelled", "not_cancelled", "segv"}

TypeOK ==
    /\ phase \in {"setup", "run", "throw"}
    /\ max_events \in Int
    /\ waiting \in Seq(AioRequests) /\ posted \subseteq AioRequests
    /\ {num_waiting, num_free, num_posted} \subseteq Nat
    /\ inflight \subseteq AioRequests /\ ready \subseteq AioRequests
    /\ pc \in [Threads -> {"sem", "check", "pop", "free", "submit", "get", "restore",
                           "event", "dec", "push", "exit"}]
    /\ state \in [Threads -> {"RUNNING", "TERMINATING"}]
    /\ cur \subseteq AioRequests /\ count \in [Threads -> Nat]
    /\ events \in [Threads -> SUBSET AioRequests]
    /\ cpc \in [AioRequests -> ClientPcs]
    /\ completions \in [AioRequests -> Nat]
    /\ owner \in {"alive", "stop_post", "join_post", "stop_wait", "join_wait", "gone"}
    /\ refused \in BOOLEAN

\* The queue lengths a client may ask for.
Lengths == {IF d = 0 THEN DefaultLength ELSE d : d \in Desired}

Init ==
    /\ phase = "setup"
    /\ max_events \in Lengths
    /\ waiting = <<>> /\ posted = {}
    /\ num_waiting = 0 /\ num_free = 0 /\ num_posted = 0
    /\ inflight = {} /\ ready = {}
    /\ pc = [t \in Threads |-> "sem"] /\ state = [t \in Threads |-> "RUNNING"]
    /\ cur = {} /\ count = [t \in Threads |-> 0]
    /\ events = [t \in Threads |-> {}]
    /\ cpc = [r \in AioRequests |-> "new"]
    /\ completions = [r \in AioRequests |-> 0]
    /\ owner = "alive" /\ refused = FALSE

\* Null dereference in a second completed() ends the process.
Running == phase = "run" /\ \A r \in AioRequests : cpc[r] # "segv"

\* cancel_request blocks in a semaphore-- with a mutex held.
WaitingLocked == \E r \in AioRequests : cpc[r] = "wait_sem"
PostedLocked == \E r \in AioRequests : cpc[r] = "posted_sem"

Goto(t, l) == Running /\ pc' = [pc EXCEPT ![t] = l]

-----------------------------------------------------------------------------
(* The constructor: negotiation of the number of events, start of threads. *)

\* A mutant: what the comment says.
ShiftRight(n) == n \div 2

\* max_events <<= 1 on a two's complement int.
ShiftLeft(n) ==
    LET m == (2 * n) % (2 * IntLimit)
    IN  IF m >= IntLimit THEN m - 2 * IntLimit ELSE m

Negotiate ==
    /\ phase = "setup"
    /\ max_events > KernelMax /\ max_events > 1
    /\ max_events' = ShiftLeft(max_events)
    /\ UNCHANGED <<phase, waiting, posted, num_waiting, num_free, num_posted, inflight,
                   ready, pc, state, cur, count, events, cpc, completions, owner, refused>>

\* io_setup succeeds for 1..KernelMax events; EINVAL otherwise ends the loop.
Construct ==
    /\ phase = "setup"
    /\ ~(max_events > KernelMax /\ max_events > 1)
    /\ IF max_events \in 1..KernelMax
       THEN phase' = "run" /\ num_free' = max_events
       ELSE phase' = "throw" /\ num_free' = num_free
    /\ UNCHANGED <<max_events, waiting, posted, num_waiting, num_posted, inflight,
                   ready, pc, state, cur, count, events, cpc, completions, owner, refused>>

-----------------------------------------------------------------------------
(* The clients. *)

add_request(r) ==
    /\ Running /\ owner = "alive" /\ cpc[r] = "new" /\ ~WaitingLocked
    /\ waiting' = Append(waiting, r)
    /\ num_waiting' = num_waiting + 1
    /\ cpc' = [cpc EXCEPT ![r] = "queued"]
    /\ UNCHANGED <<phase, max_events, posted, num_free, num_posted, inflight, ready, pc,
                   state, cur, count, events, completions, owner, refused>>

\* list::erase at position i.
Erase(s, i) == [j \in 1..(Len(s) - 1) |-> IF j < i THEN s[j] ELSE s[j + 1]]

\* std::find finds r.
Contains(s, r) == \E i \in 1..Len(s) : s[i] = r

\* The part of cancel_request under waiting_mtx, up to num_waiting_requests--.
CancelWaiting(r) ==
    /\ Running /\ owner = "alive" /\ r \in AioCancelers /\ cpc[r] = "queued" /\ ~WaitingLocked
    /\ \E i \in DOMAIN waiting :      \* std::find, then erase
          /\ waiting[i] = r /\ \A j \in 1..(i - 1) : waiting[j] # r
          /\ waiting' = Erase(waiting, i)
    /\ completions' = [completions EXCEPT ![r] = @ + 1]
    /\ cpc' = [cpc EXCEPT ![r] = "wait_sem"]
    /\ UNCHANGED <<phase, max_events, posted, num_waiting, num_free, num_posted, inflight,
                   ready, pc, state, cur, count, events, owner, refused>>

\* A mutant: the unit of the erased request stays in the semaphore.
CancelWaitingKeep(r) ==
    /\ Running /\ cpc[r] = "wait_sem"
    /\ cpc' = [cpc EXCEPT ![r] = "cancelled"]
    /\ UNCHANGED <<phase, max_events, waiting, posted, num_waiting, num_free, num_posted,
                   inflight, ready, pc, state, cur, count, events, completions, owner, refused>>

CancelWaitingDec(r) ==
    /\ Running /\ cpc[r] = "wait_sem"
    /\ num_waiting > 0
    /\ num_waiting' = num_waiting - 1
    /\ cpc' = [cpc EXCEPT ![r] = "cancelled"]
    /\ UNCHANGED <<phase, max_events, waiting, posted, num_free, num_posted, inflight,
                   ready, pc, state, cur, count, events, completions, owner, refused>>

\* The request is not waiting: it is searched in posted_requests, and
\* cancel_aio asks the kernel.  m_file = 0 once completed() ran.
CancelPosted(r) ==
    /\ Running /\ owner = "alive" /\ r \in AioCancelers /\ cpc[r] = "queued"
    /\ ~Contains(waiting, r) /\ ~WaitingLocked /\ ~PostedLocked
    /\ \/ /\ cpc' = [cpc EXCEPT ![r] = "not_cancelled"]
          /\ UNCHANGED <<posted, inflight, completions, num_free>>
       \/ /\ MayCancelPosted /\ r \in posted /\ r \in inflight
          /\ inflight' = inflight \ {r}
          /\ completions' = [completions EXCEPT ![r] = @ + 1]   \* in handle_events
          /\ num_free' = num_free + 1
          /\ cpc' = [cpc EXCEPT ![r] = "posted_sem"]
          /\ UNCHANGED posted
    /\ UNCHANGED <<phase, max_events, waiting, num_waiting, num_posted, ready, pc, state,
                   cur, count, events, owner, refused>>

\* num_posted_requests-- in handle_events, then erase and completed() once
\* more, whose m_file->delete_request_ref() finds m_file = 0.
CancelPostedDec(r) ==
    /\ Running /\ cpc[r] = "posted_sem"
    /\ num_posted > 0
    /\ num_posted' = num_posted - 1
    /\ posted' = posted \ {r}
    /\ completions' = [completions EXCEPT ![r] = @ + 1]
    /\ cpc' = [cpc EXCEPT ![r] = "segv"]
    /\ UNCHANGED <<phase, max_events, waiting, num_waiting, num_free, inflight, ready,
                   pc, state, cur, count, events, owner, refused>>

-----------------------------------------------------------------------------
(* post_requests. *)

SemWait(t) ==
    /\ Running /\ pc[t] = "sem"
    /\ IF t = "post"
       THEN /\ num_waiting > 0 /\ num_waiting' = num_waiting - 1
            /\ count' = [count EXCEPT ![t] = num_waiting - 1]
            /\ UNCHANGED num_posted
       ELSE /\ num_posted > 0 /\ num_posted' = num_posted - 1
            /\ count' = [count EXCEPT ![t] = num_posted - 1]
            /\ UNCHANGED num_waiting
    /\ Goto(t, "check")
    /\ UNCHANGED <<phase, max_events, waiting, posted, num_free, inflight, ready, state,
                   cur, events, cpc, completions, owner, refused>>

CheckState(t) ==
    /\ pc[t] = "check"
    /\ Goto(t, IF state[t] = "TERMINATING" /\ count[t] = 0 THEN "exit"
               ELSE IF t = "post" THEN "pop" ELSE "get")
    /\ UNCHANGED <<phase, max_events, waiting, posted, num_waiting, num_free, num_posted,
                   inflight, ready, state, cur, count, events, cpc, completions, owner, refused>>

\* A mutant: the request stays at the front of waiting_requests.
PostPopKeeps ==
    /\ pc["post"] = "pop" /\ ~WaitingLocked /\ waiting # <<>>
    /\ cur' = {Head(waiting)}
    /\ Goto("post", "free")
    /\ UNCHANGED <<phase, max_events, waiting, num_waiting, posted, num_free, num_posted,
                   inflight, ready, state, count, events, cpc, completions, owner, refused>>

PostPop ==
    /\ pc["post"] = "pop" /\ ~WaitingLocked
    /\ IF waiting # <<>>
       THEN /\ cur' = {Head(waiting)} /\ waiting' = Tail(waiting)
            /\ Goto("post", "free") /\ UNCHANGED num_waiting
       ELSE /\ num_waiting' = num_waiting + 1   \* compensation
            /\ Goto("post", "sem") /\ UNCHANGED <<cur, waiting>>
    /\ UNCHANGED <<phase, max_events, posted, num_free, num_posted, inflight, ready, state,
                   count, events, cpc, completions, owner, refused>>

\* A mutant: a request is submitted without taking a free event.
PostTakeEventFree ==
    /\ pc["post"] = "free"
    /\ Goto("post", "submit")
    /\ UNCHANGED <<phase, max_events, waiting, posted, num_waiting, num_posted, num_free, inflight,
                   ready, state, cur, count, events, cpc, completions, owner, refused>>

PostTakeEvent ==
    /\ pc["post"] = "free" /\ num_free > 0
    /\ num_free' = num_free - 1
    /\ Goto("post", "submit")
    /\ UNCHANGED <<phase, max_events, waiting, posted, num_waiting, num_posted, inflight,
                   ready, state, cur, count, events, cpc, completions, owner, refused>>

\* linuxaio_request::post
PostSubmit ==
    /\ pc["post"] = "submit"
    /\ \/ inflight' = inflight \cup cur /\ Goto("post", "push") /\ UNCHANGED refused
       \/ MayRefuse /\ refused' = TRUE /\ Goto("post", "get") /\ UNCHANGED inflight
    /\ UNCHANGED <<phase, max_events, waiting, posted, num_waiting, num_free, num_posted,
                   ready, state, cur, count, events, cpc, completions, owner>>

\* A mutant: the waiting thread is not told of the request.
PostPushSilent ==
    /\ pc["post"] = "push" /\ ~PostedLocked
    /\ posted' = posted \cup cur
    /\ cur' = {}
    /\ Goto("post", "sem")
    /\ UNCHANGED <<phase, max_events, waiting, num_waiting, num_free, num_posted, inflight,
                   ready, state, count, events, cpc, completions, owner, refused>>

PostPush ==
    /\ pc["post"] = "push" /\ ~PostedLocked
    /\ posted' = posted \cup cur
    /\ num_posted' = num_posted + 1
    /\ cur' = {}
    /\ Goto("post", "sem")
    /\ UNCHANGED <<phase, max_events, waiting, num_waiting, num_free, inflight, ready,
                   state, count, events, cpc, completions, owner, refused>>

-----------------------------------------------------------------------------
(* io_getevents and handle_events, run by both threads; wait_requests.     *)

\* At least one event; as many as are ready, up to max_events.
GetEvents(t) ==
    /\ pc[t] = "get" /\ ready # {}
    /\ events' = [events EXCEPT ![t] = ready]
    /\ ready' = {}
    /\ Goto(t, IF t = "wait" THEN "restore" ELSE "event")
    /\ UNCHANGED <<phase, max_events, waiting, posted, num_waiting, num_free, num_posted,
                   inflight, state, cur, count, cpc, completions, owner, refused>>

\* A mutant: the compensation is forgotten.
WaitNoRestore ==
    /\ pc["wait"] = "restore"
    /\ Goto("wait", "event")
    /\ UNCHANGED <<phase, max_events, waiting, posted, num_waiting, num_free, inflight, num_posted,
                   ready, state, cur, count, events, cpc, completions, owner, refused>>

\* num_posted_requests++, for the decrement the waiting thread started with.
WaitRestore ==
    /\ pc["wait"] = "restore"
    /\ num_posted' = num_posted + 1
    /\ Goto("wait", "event")
    /\ UNCHANGED <<phase, max_events, waiting, posted, num_waiting, num_free, inflight,
                   ready, state, cur, count, events, cpc, completions, owner, refused>>

HandleEvent(t) ==
    /\ pc[t] = "event"
    /\ \E r \in events[t] :
          /\ completions' = [completions EXCEPT ![r] = @ + 1]
          /\ events' = [events EXCEPT ![t] = @ \ {r}]
    /\ num_free' = num_free + 1
    /\ Goto(t, "dec")
    /\ UNCHANGED <<phase, max_events, waiting, posted, num_waiting, num_posted, inflight,
                   ready, state, cur, count, cpc, owner, refused>>

\* A mutant: a decrement that really never blocks.
HandleDecUnguarded(t) ==
    /\ pc[t] = "dec"
    /\ num_posted' = num_posted - 1
    /\ Goto(t, IF events[t] # {} THEN "event" ELSE IF t = "wait" THEN "sem" ELSE "submit")
    /\ UNCHANGED <<phase, max_events, waiting, posted, num_waiting, num_free, inflight,
                   ready, state, cur, count, events, cpc, completions, owner, refused>>

\* num_posted_requests--; // will never block
HandleDec(t) ==
    /\ pc[t] = "dec" /\ num_posted > 0
    /\ num_posted' = num_posted - 1
    /\ Goto(t, IF events[t] # {} THEN "event" ELSE IF t = "wait" THEN "sem" ELSE "submit")
    /\ UNCHANGED <<phase, max_events, waiting, posted, num_waiting, num_free, inflight,
                   ready, state, cur, count, events, cpc, completions, owner, refused>>

\* The kernel finishes a request.
KernelDone(r) ==
    /\ Running /\ r \in inflight
    /\ inflight' = inflight \ {r} /\ ready' = ready \cup {r}
    /\ UNCHANGED <<phase, max_events, waiting, posted, num_waiting, num_free, num_posted,
                   pc, state, cur, count, events, cpc, completions, owner, refused>>

-----------------------------------------------------------------------------
(* ~linuxaio_queue: stop_thread for the posting, then the waiting thread.  *)

\* The threads in the order they are stopped, and where the owner waits.
StopTarget == [stop_post |-> "post", stop_wait |-> "wait"]
JoinTarget == [join_post |-> "post", join_wait |-> "wait"]

Destroy ==
    /\ Running /\ owner = "alive"
    /\ \A r \in AioRequests : cpc[r] \notin {"wait_sem", "posted_sem"}
    /\ owner' = "stop_post" /\ state' = [state EXCEPT !["post"] = "TERMINATING"]
    /\ UNCHANGED <<phase, max_events, waiting, posted, num_waiting, num_free, num_posted,
                   inflight, ready, pc, cur, count, events, cpc, completions, refused>>

\* stop_thread's semaphore++ that wakes the thread.
StopWake ==
    /\ Running /\ owner \in DOMAIN StopTarget
    /\ IF owner = "stop_post"
       THEN num_waiting' = num_waiting + 1 /\ owner' = "join_post" /\ UNCHANGED num_posted
       ELSE num_posted' = num_posted + 1 /\ owner' = "join_wait" /\ UNCHANGED num_waiting
    /\ UNCHANGED <<phase, max_events, waiting, posted, num_free, inflight, ready, pc,
                   state, cur, count, events, cpc, completions, refused>>

Join ==
    /\ Running /\ owner \in DOMAIN JoinTarget /\ pc[JoinTarget[owner]] = "exit"
    /\ IF owner = "join_post"
       THEN owner' = "stop_wait" /\ state' = [state EXCEPT !["wait"] = "TERMINATING"]
       ELSE owner' = "gone" /\ UNCHANGED state
    /\ UNCHANGED <<phase, max_events, waiting, posted, num_waiting, num_free, num_posted,
                   inflight, ready, pc, cur, count, events, cpc, completions, refused>>

-----------------------------------------------------------------------------
ThreadStep(t) ==
    SemWait(t) \/ CheckState(t) \/ GetEvents(t) \/ HandleEvent(t) \/ HandleDec(t)
PostStep == ThreadStep("post") \/ PostPop \/ PostTakeEvent \/ PostSubmit \/ PostPush
WaitStep == ThreadStep("wait") \/ WaitRestore

Next ==
    \/ Negotiate \/ Construct
    \/ \E r \in AioRequests : \/ add_request(r)
                              \/ CancelWaiting(r) \/ CancelWaitingDec(r)
                              \/ CancelPosted(r) \/ CancelPostedDec(r)
                              \/ KernelDone(r)
    \/ PostStep \/ WaitStep
    \/ Destroy \/ StopWake \/ Join

\* The threads run, and the kernel finishes what it accepted.
Fairness ==
    /\ WF_vars(Negotiate) /\ WF_vars(Construct)
    /\ WF_vars(PostStep) /\ WF_vars(WaitStep)
    /\ \A r \in AioRequests : WF_vars(KernelDone(r))

Spec == Init /\ [][Next]_vars /\ Fairness
-----------------------------------------------------------------------------
(* Properties. *)

B(p) == IF p THEN 1 ELSE 0

InKernel == inflight \cup ready \cup events["post"] \cup events["wait"]

\* num_free_events is exact: every event of the io context is free, belongs to
\* a submitted request whose completion is not handled yet, or is held by the
\* posting thread for the request it is submitting.  So io_submit is never
\* called with more requests in the kernel than io_setup granted.
FreeEventsExact ==
    phase = "run" =>
        num_free + Cardinality(InKernel)
          + B(pc["post"] \in {"submit", "get", "event", "dec"}) = max_events

\* num_waiting_requests is exact up to what is in transit: the decrement of
\* the posting thread that has not yet popped, the erase of a cancel that has
\* not yet decremented, and the wake-up of stop_thread.
WaitingExact ==
    num_waiting + B(pc["post"] \in {"check", "pop", "exit"}) =
        Len(waiting) + Cardinality({r \in AioRequests : cpc[r] = "wait_sem"})
          + B(owner \notin {"alive", "stop_post"})

\* num_posted_requests is exact up to what is in transit: the decrement the
\* waiting thread starts with, a request in the kernel that is not yet counted,
\* and a handled event whose decrement is still to come.
PostedExact ==
    phase = "run" =>
        num_posted + B(pc["wait"] \in {"check", "get", "restore", "exit"})
          + B(pc["post"] = "push")
        = Cardinality(InKernel) + B(pc["post"] = "dec") + B(pc["wait"] = "dec")
          + Cardinality({r \in AioRequests : cpc[r] = "posted_sem"})
          + B(owner \in {"join_wait", "gone"})

\* Every submitted request is in exactly one place: waiting, in the hands of
\* the posting thread, in the kernel, in an events array, or completed, and
\* completed() runs for it once.  The exception is a cancel that the kernel
\* grants, whose second completed() ends the process.
OnePlace ==
    \A r \in AioRequests :
        LET places == B(Contains(waiting, r)) + B(r \in cur \ InKernel /\ pc["post"] # "push")
                        + B(r \in inflight) + B(r \in ready)
                        + B(r \in events["post"]) + B(r \in events["wait"])
                        + completions[r]
        IN  places = IF cpc[r] = "new" THEN 0 ELSE IF cpc[r] = "segv" THEN 2 ELSE 1

\* The constructor starts the queue with exactly the length asked for, or
\* throws: max_events <<= 1 never finds a smaller length that io_setup grants.
SetupAllOrNothing ==
    phase = "run" => max_events \in Lengths

\* linuxaio_queue: every event of the io context is free, belongs to a
\* submitted request whose completion is not handled yet, or is held by the
\* posting thread.  The two counters of requests are exact, up to what the
\* threads and a cancel have in transit.  A request is in one place, and
\* completed() runs for it once, except after a cancel that the kernel grants.
\* The constructor provides the length asked for or throws.
AioAccounted ==
    /\ TypeOK
    /\ FreeEventsExact /\ WaitingExact /\ PostedExact
    /\ OnePlace
    /\ SetupAllOrNothing

\* As long as nothing is cancelled, no submission is refused and the queue is
\* not destroyed, every request that is added completes.
AddedCompletes ==
    \A r \in AioRequests :
        cpc[r] = "queued" ~>
            \/ completions[r] = 1
            \/ refused \/ owner # "alive"
            \/ \E q \in AioRequests : cpc[q] \notin {"new", "queued"}

\* What the comment on num_posted_requests-- in handle_events says: the
\* decrement never blocks.
NeverBlocks == \A t \in Threads : pc[t] = "dec" => num_posted > 0
=============================================================================
