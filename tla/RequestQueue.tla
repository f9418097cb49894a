---------------------------- MODULE RequestQueue ----------------------------
(***************************************************************************)
(* The default request queue of one disk, request_queue_impl_qwqr: a read  *)
(* queue and a write queue with a mutex each, one semaphore that counts    *)
(* the queued requests, and one worker thread that serves them.  The       *)
(* clients construct requests (request_with_state), submit them, cancel    *)
(* them and wait for them; the owner of the queue destroys it, which stops *)
(* the worker (request_queue_impl_worker::stop_thread).                    *)
(*                                                                         *)
(* Each request has a client thread of its own that submits it and may     *)
(* cancel it once; any other thread may wait for it at the same time.  A   *)
(* critical section is one step, except the one of cancel_request, which   *)
(* blocks on the semaphore with the mutex held.                            *)
(***************************************************************************)
EXTENDS Integers, Sequences, FiniteSets

CONSTANTS
    Requests,    \* the requests of the run
    ReadReqs,    \* those of type READ; the others are of type WRITE
    Cancelers,   \* the requests whose client may call cancel()
    Faulty,      \* the requests whose transfer may raise an io_error
    MayStop,     \* whether the owner may destroy the queue
    NoReq        \* the worker's empty request_ptr

ASSUME RequestsAssumption ==
    /\ IsFiniteSet(Requests)
    /\ ReadReqs \subseteq Requests
    /\ Cancelers \subseteq Requests
    /\ Faulty \subseteq Requests
    /\ MayStop \in BOOLEAN
    /\ NoReq \notin Requests

VARIABLES
    thread_state,  \* m_thread_state
    sem,           \* m_sem
    queue,         \* m_read_queue and m_write_queue
    wpc,           \* where the worker is
    wreq,          \* the request the worker serves
    write_phase,   \* the worker's local variable
    spc,           \* where stop_thread is
    cpc,           \* where the client of each request is
    rstate,        \* request_with_state::m_state
    m_file,        \* whether request::m_file is not null
    m_error,       \* whether request::m_error is set
    served,        \* how often file::serve transferred the request
    handled,       \* how often the completion handler was called
    waited         \* what wait() returned, or "no"

wvars == <<wpc, wreq, write_phase>>
rvars == <<rstate, m_file, m_error, served, handled>>
vars == <<thread_state, sem, queue, wvars, spc, cpc, rvars, waited>>

Ops == {"READ", "WRITE"}
get_type(r) == IF r \in ReadReqs THEN "READ" ELSE "WRITE"
OtherOp(op) == IF op = "READ" THEN "WRITE" ELSE "READ"

InSeq(r, s) == \E i \in 1..Len(s) : s[i] = r

\* list::erase at position i.
Erase(s, i) == [j \in 1..(Len(s) - 1) |-> IF j < i THEN s[j] ELSE s[j + 1]]

\* The only code that blocks with a queue's mutex held is cancel_request,
\* between the erase and the end of m_sem--.
Locked(op) == \E r \in Requests : cpc[r] = "cancel_sem" /\ get_type(r) = op

\* The client is inside add_request or cancel_request.
InCall(r) == cpc[r] \in {"scan", "push", "post", "cancel_id", "cancel_lock", "cancel_sem"}

\* The client's cancel() found the request in the queue and took it out.
Canceled(r) == cpc[r] \in {"cancel_sem", "cancel_done", "cancel_unref",
                           "cancel_ready", "canceled"}

ThreadStates == {"NOT_RUNNING", "RUNNING", "TERMINATING", "TERMINATED"}
RequestStates == {"OP", "DONE", "READY2DIE"}
WorkerPcs == {"dec", "pick", "inc", "serve", "done", "handler", "unref", "ready",
              "check", "tdec", "tinc", "exit", "dead"}
ClientPcs == {"idle", "scan", "push", "post", "pending", "rejected",
              "cancel_id", "cancel_lock", "cancel_sem", "cancel_done",
              "cancel_unref", "cancel_ready", "canceled", "not_canceled", "segv"}

TypeOK ==
    /\ thread_state \in ThreadStates
    /\ sem \in Nat
    /\ queue \in [Ops -> Seq(Requests)]
    /\ wpc \in WorkerPcs
    /\ wreq \in Requests \cup {NoReq}
    /\ write_phase \in BOOLEAN
    /\ spc \in {"running", "post", "join", "stopped"}
    /\ cpc \in [Requests -> ClientPcs]
    /\ rstate \in [Requests -> RequestStates]
    /\ m_file \in [Requests -> BOOLEAN]
    /\ m_error \in [Requests -> BOOLEAN]
    /\ served \in [Requests -> Nat]
    /\ handled \in [Requests -> Nat]
    /\ waited \in [Requests -> {"no", "returned", "threw"}]

Init ==
    /\ thread_state = "RUNNING"
    /\ sem = 0
    /\ queue = [op \in Ops |-> <<>>]
    /\ wpc = "dec" /\ wreq = NoReq /\ write_phase = TRUE
    /\ spc = "running"
    /\ cpc = [r \in Requests |-> "idle"]
    /\ rstate = [r \in Requests |-> "OP"]
    /\ m_file = [r \in Requests |-> FALSE]
    /\ m_error = [r \in Requests |-> FALSE]
    /\ served = [r \in Requests |-> 0]
    /\ handled = [r \in Requests |-> 0]
    /\ waited = [r \in Requests |-> "no"]

-----------------------------------------------------------------------------
(* The clients. *)

\* A null dereference ends the process.
Alive == \A r \in Requests : cpc[r] # "segv"

\* A step of the client of r.
GoTo(r, pc) == Alive /\ cpc' = [cpc EXCEPT ![r] = pc]

\* The request's constructor, then add_request up to its test of the state.
NewRequest(r) ==
    /\ cpc[r] = "idle"
    /\ m_file' = [m_file EXCEPT ![r] = TRUE]
    /\ GoTo(r, IF thread_state = "RUNNING" THEN "scan" ELSE "rejected")
    /\ UNCHANGED <<thread_state, sem, queue, wvars, spc, rstate, m_error, served, handled, waited>>

\* The search of the other queue for a request for the same block: it only
\* reports, but it takes the other queue's mutex.
AddScan(r) ==
    /\ cpc[r] = "scan"
    /\ ~Locked(OtherOp(get_type(r)))
    /\ GoTo(r, "push")
    /\ UNCHANGED <<thread_state, sem, queue, wvars, spc, rvars, waited>>

AddPush(r) ==
    /\ cpc[r] = "push"
    /\ ~Locked(get_type(r))
    /\ queue' = [queue EXCEPT ![get_type(r)] = Append(@, r)]
    /\ GoTo(r, "post")
    /\ UNCHANGED <<thread_state, sem, wvars, spc, rvars, waited>>

\* Mutant of AddPost: posts only when the queue was empty before the push.
AddPost_if_first(r) ==
    /\ cpc[r] = "post"
    /\ sem' = IF Len(queue[get_type(r)]) = 1 THEN sem + 1 ELSE sem
    /\ GoTo(r, "pending")
    /\ UNCHANGED <<thread_state, queue, wvars, spc, rvars, waited>>

\* m_sem++, after the mutex was released.
AddPost(r) ==
    /\ cpc[r] = "post"
    /\ sem' = sem + 1
    /\ GoTo(r, "pending")
    /\ UNCHANGED <<thread_state, queue, wvars, spc, rvars, waited>>

\* cancel() returns false at once when the request has let go of its file.
CancelBegin(r) ==
    /\ cpc[r] = "pending" /\ r \in Cancelers
    /\ GoTo(r, IF m_file[r] THEN "cancel_id" ELSE "not_canceled")
    /\ UNCHANGED <<thread_state, sem, queue, wvars, spc, rvars, waited>>

\* m_file->get_queue_id() reads m_file a second time; then cancel_request
\* tests the thread state (and throws when it is not RUNNING).
CancelQueueId(r) ==
    /\ cpc[r] = "cancel_id"
    /\ GoTo(r, IF ~m_file[r] THEN "segv"
               ELSE IF thread_state = "RUNNING" THEN "cancel_lock" ELSE "not_canceled")
    /\ UNCHANGED <<thread_state, sem, queue, wvars, spc, rvars, waited>>

\* Mutant of CancelErase: the request is found but not erased.
CancelErase_kept(r) ==
    /\ cpc[r] = "cancel_lock"
    /\ ~Locked(get_type(r))
    /\ GoTo(r, IF InSeq(r, queue[get_type(r)]) THEN "cancel_sem" ELSE "not_canceled")
    /\ UNCHANGED <<thread_state, sem, queue, wvars, spc, rvars, waited>>

\* Mutant of CancelErase: was_still_in_queue is true whatever find() returns.
CancelErase_always(r) ==
    /\ cpc[r] = "cancel_lock"
    /\ ~Locked(get_type(r))
    /\ queue' = [queue EXCEPT ![get_type(r)] = SelectSeq(@, LAMBDA x : x # r)]
    /\ GoTo(r, IF InSeq(r, queue[get_type(r)]) THEN "cancel_sem" ELSE "cancel_done")
    /\ UNCHANGED <<thread_state, sem, wvars, spc, rvars, waited>>

\* Under the mutex of its queue: find the request and erase it.
CancelErase(r) ==
    /\ cpc[r] = "cancel_lock"
    /\ ~Locked(get_type(r))
    /\ LET op == get_type(r) IN
         \/ /\ ~InSeq(r, queue[op])
            /\ GoTo(r, "not_canceled")
            /\ UNCHANGED queue
         \/ \E i \in 1..Len(queue[op]) :
              /\ queue[op][i] = r
              /\ queue' = [queue EXCEPT ![op] = Erase(@, i)]
              /\ GoTo(r, "cancel_sem")
    /\ UNCHANGED <<thread_state, sem, wvars, spc, rvars, waited>>

\* Mutant of CancelSem: the decrement does not wait for a unit.
CancelSem_nowait(r) ==
    /\ cpc[r] = "cancel_sem"
    /\ sem' = sem - 1
    /\ GoTo(r, "cancel_done")
    /\ UNCHANGED <<thread_state, queue, wvars, spc, rvars, waited>>

\* m_sem-- blocks until there is something to take; the mutex is released
\* when it returns.
CancelSem(r) ==
    /\ cpc[r] = "cancel_sem"
    /\ sem > 0
    /\ sem' = sem - 1
    /\ GoTo(r, "cancel_done")
    /\ UNCHANGED <<thread_state, queue, wvars, spc, rvars, waited>>

CancelDone(r) ==
    /\ cpc[r] = "cancel_done"
    /\ rstate' = [rstate EXCEPT ![r] = "DONE"]
    /\ GoTo(r, "cancel_unref")
    /\ UNCHANGED <<thread_state, sem, queue, wvars, spc, m_file, m_error, served, handled, waited>>

CancelUnref(r) ==
    /\ cpc[r] = "cancel_unref"
    /\ m_file' = [m_file EXCEPT ![r] = FALSE]
    /\ GoTo(r, "cancel_ready")
    /\ UNCHANGED <<thread_state, sem, queue, wvars, spc, rstate, m_error, served, handled, waited>>

CancelReady(r) ==
    /\ cpc[r] = "cancel_ready"
    /\ rstate' = [rstate EXCEPT ![r] = "READY2DIE"]
    /\ GoTo(r, "canceled")
    /\ UNCHANGED <<thread_state, sem, queue, wvars, spc, m_file, m_error, served, handled, waited>>

\* wait() in some thread: blocked until READY2DIE, then check_errors().
WaitReturn(r) ==
    /\ Alive /\ waited[r] = "no"
    /\ rstate[r] = "READY2DIE"
    /\ waited' = [waited EXCEPT ![r] = IF m_error[r] THEN "threw" ELSE "returned"]
    /\ UNCHANGED <<thread_state, sem, queue, wvars, spc, cpc, rvars>>

\* The steps of a client that is inside a call.
ClientStep(r) ==
    \/ AddScan(r) \/ AddPush(r) \/ AddPost(r)
    \/ CancelQueueId(r) \/ CancelErase(r) \/ CancelSem(r)
    \/ CancelDone(r) \/ CancelUnref(r) \/ CancelReady(r)

-----------------------------------------------------------------------------
(* The worker thread. *)

\* A step of the worker.
WorkerGoTo(from, to) == Alive /\ wpc = from /\ wpc' = to

WorkerDec ==
    /\ WorkerGoTo("dec", "pick")
    /\ sem > 0
    /\ sem' = sem - 1
    /\ UNCHANGED <<thread_state, queue, wreq, write_phase, spc, cpc, rvars, waited>>

\* Mutant of WorkerPick: front() without pop_front().
WorkerPick_nopop ==
    LET op == IF write_phase THEN "WRITE" ELSE "READ" IN
    /\ Alive /\ wpc = "pick"
    /\ ~Locked(op)
    /\ IF queue[op] # <<>>
       THEN wreq' = Head(queue[op]) /\ wpc' = "serve" /\ write_phase' = TRUE
       ELSE wpc' = "inc" /\ write_phase' = ~write_phase /\ UNCHANGED wreq
    /\ UNCHANGED <<thread_state, sem, queue, spc, cpc, rvars, waited>>

\* Mutant of WorkerPick: an empty write queue does not end the write phase.
WorkerPick_writeonly ==
    LET op == IF write_phase THEN "WRITE" ELSE "READ" IN
    /\ Alive /\ wpc = "pick"
    /\ ~Locked(op)
    /\ IF queue[op] # <<>>
       THEN /\ wreq' = Head(queue[op])
            /\ queue' = [queue EXCEPT ![op] = Tail(@)]
            /\ wpc' = "serve"
       ELSE wpc' = "inc" /\ UNCHANGED <<queue, wreq>>
    /\ UNCHANGED <<thread_state, sem, write_phase, spc, cpc, rvars, waited>>

\* Under the mutex of the phase's queue: take its first request, if any.
\* m_priority_op is WRITE: the write phase lasts until the write queue is
\* found empty, the read phase lasts for one look at the read queue.
WorkerPick ==
    LET op == IF write_phase THEN "WRITE" ELSE "READ" IN
    /\ Alive /\ wpc = "pick"
    /\ ~Locked(op)
    /\ \/ /\ queue[op] # <<>>
          /\ wreq' = Head(queue[op])
          /\ queue' = [queue EXCEPT ![op] = Tail(@)]
          /\ wpc' = "serve"
          /\ write_phase' = TRUE
       \/ /\ queue[op] = <<>>
          /\ wpc' = "inc"
          /\ write_phase' = ~write_phase
          /\ UNCHANGED <<queue, wreq>>
    /\ UNCHANGED <<thread_state, sem, spc, cpc, rvars, waited>>

\* Mutant of WorkerInc: the unit taken for an empty phase is not given back.
WorkerInc_lost ==
    /\ WorkerGoTo("inc", "check")
    /\ UNCHANGED <<thread_state, sem, queue, wreq, write_phase, spc, cpc, rvars, waited>>

WorkerInc ==
    /\ WorkerGoTo("inc", "check")
    /\ sem' = sem + 1
    /\ UNCHANGED <<thread_state, queue, wreq, write_phase, spc, cpc, rvars, waited>>

\* serving_request::serve: the file's transfer, which may raise an io_error.
WorkerServe ==
    /\ WorkerGoTo("serve", "done")
    /\ \/ served' = [served EXCEPT ![wreq] = @ + 1] /\ UNCHANGED m_error
       \/ wreq \in Faulty /\ m_error' = [m_error EXCEPT ![wreq] = TRUE] /\ UNCHANGED served
    /\ UNCHANGED <<thread_state, sem, queue, wreq, write_phase, spc, cpc,
                   rstate, m_file, handled, waited>>

\* Mutant of WorkerDone: the request is declared READY2DIE before its handler.
WorkerDone_early ==
    /\ WorkerGoTo("done", "handler")
    /\ rstate' = [rstate EXCEPT ![wreq] = "READY2DIE"]
    /\ UNCHANGED <<thread_state, sem, queue, wreq, write_phase, spc, cpc,
                   m_file, m_error, served, handled, waited>>

WorkerDone ==
    /\ WorkerGoTo("done", "handler")
    /\ rstate' = [rstate EXCEPT ![wreq] = "DONE"]
    /\ UNCHANGED <<thread_state, sem, queue, wreq, write_phase, spc, cpc,
                   m_file, m_error, served, handled, waited>>

WorkerHandler ==
    /\ WorkerGoTo("handler", "unref")
    /\ handled' = [handled EXCEPT ![wreq] = @ + 1]
    /\ UNCHANGED <<thread_state, sem, queue, wreq, write_phase, spc, cpc,
                   rstate, m_file, m_error, served, waited>>

WorkerUnref ==
    /\ WorkerGoTo("unref", "ready")
    /\ m_file' = [m_file EXCEPT ![wreq] = FALSE]
    /\ UNCHANGED <<thread_state, sem, queue, wreq, write_phase, spc, cpc,
                   rstate, m_error, served, handled, waited>>

WorkerReady ==
    /\ WorkerGoTo("ready", "check")
    /\ rstate' = [rstate EXCEPT ![wreq] = "READY2DIE"]
    /\ wreq' = NoReq
    /\ UNCHANGED <<thread_state, sem, queue, write_phase, spc, cpc,
                   m_file, m_error, served, handled, waited>>

WorkerCheck ==
    /\ WorkerGoTo("check", IF thread_state = "TERMINATING" THEN "tdec" ELSE "dec")
    /\ UNCHANGED <<thread_state, sem, queue, wreq, write_phase, spc, cpc, rvars, waited>>

\* if ((m_sem--) == 0) break; the operator returns the decremented value.
WorkerTDec ==
    /\ WorkerGoTo("tdec", IF sem = 1 THEN "exit" ELSE "tinc")
    /\ sem > 0
    /\ sem' = sem - 1
    /\ UNCHANGED <<thread_state, queue, wreq, write_phase, spc, cpc, rvars, waited>>

WorkerTInc ==
    /\ WorkerGoTo("tinc", "dec")
    /\ sem' = sem + 1
    /\ UNCHANGED <<thread_state, queue, wreq, write_phase, spc, cpc, rvars, waited>>

WorkerExit ==
    /\ WorkerGoTo("exit", "dead")
    /\ thread_state' = "TERMINATED"
    /\ UNCHANGED <<sem, queue, wreq, write_phase, spc, cpc, rvars, waited>>

Worker ==
    \/ WorkerDec \/ WorkerPick \/ WorkerInc
    \/ WorkerServe \/ WorkerDone \/ WorkerHandler \/ WorkerUnref \/ WorkerReady
    \/ WorkerCheck \/ WorkerTDec \/ WorkerTInc \/ WorkerExit

-----------------------------------------------------------------------------
(* The owner: ~request_queue_impl_qwqr.  A destructor does not run while   *)
(* another thread is inside a member function of the same object.          *)

StopBegin ==
    /\ Alive /\ MayStop /\ spc = "running"
    /\ \A r \in Requests : ~InCall(r)
    /\ spc' = "post"
    /\ thread_state' = "TERMINATING"
    /\ UNCHANGED <<sem, queue, wvars, cpc, rvars, waited>>

\* Mutant of StopPost: stop_thread does not wake the worker.
StopPost_nowake ==
    /\ Alive /\ spc = "post" /\ spc' = "join"
    /\ UNCHANGED <<thread_state, sem, queue, wvars, cpc, rvars, waited>>

StopPost ==
    /\ Alive /\ spc = "post" /\ spc' = "join"
    /\ sem' = sem + 1
    /\ UNCHANGED <<thread_state, queue, wvars, cpc, rvars, waited>>

StopJoin ==
    /\ Alive /\ spc = "join" /\ spc' = "stopped"
    /\ wpc = "dead"
    /\ thread_state' = "NOT_RUNNING"
    /\ UNCHANGED <<sem, queue, wvars, cpc, rvars, waited>>

Stop == StopPost \/ StopJoin

-----------------------------------------------------------------------------

\* Every client is done and the worker sleeps or is gone: the only states in
\* which the program may rest.
Quiescent ==
    /\ \A r \in Requests : waited[r] # "no" \/ cpc[r] = "rejected"
    /\ spc \in {"running", "stopped"}
    /\ UNCHANGED vars

Next ==
    \/ \E r \in Requests :
         NewRequest(r) \/ CancelBegin(r) \/ ClientStep(r) \/ WaitReturn(r)
    \/ Worker
    \/ StopBegin \/ Stop
    \/ Quiescent

Spec == Init /\ [][Next]_vars

\* The operating system runs every thread that can run.  Nothing makes a
\* client submit, cancel or wait, or the owner destroy the queue.
Fairness ==
    /\ WF_vars(Worker)
    /\ WF_vars(Stop)
    /\ \A r \in Requests : WF_vars(ClientStep(r))

FairSpec == Spec /\ Fairness
-----------------------------------------------------------------------------
(* What the semaphore counts. *)

ClientsAt(pc) == {r \in Requests : cpc[r] = pc}

\* The worker has taken a unit that it has not yet turned into a request
\* or given back.
WorkerUnit == IF wpc \in {"pick", "inc", "tinc", "exit", "dead"} THEN 1 ELSE 0

\* The unit stop_thread adds to wake the worker.
StopUnit == IF spc \in {"join", "stopped"} THEN 1 ELSE 0

\* m_sem is the number of queued requests, up to the units in transit: of
\* clients that pushed and have not posted, of clients that erased and have
\* not taken their unit, of the worker and of stop_thread (m_sem in
\* add_request, cancel_request, worker and stop_thread).
SemAccounting ==
    sem = Len(queue["READ"]) + Len(queue["WRITE"])
          + Cardinality(ClientsAt("cancel_sem")) - Cardinality(ClientsAt("post"))
          + StopUnit - WorkerUnit

\* A worker asleep on m_sem with no add_request under way has left no
\* request behind: neither the ++/-- of an empty phase nor a cancellation
\* ever loses the wake-up of a queued request.
NoStrandedRequest ==
    wpc = "dec" /\ sem = 0 /\ ClientsAt("post") = {} => \A op \in Ops : queue[op] = <<>>

\* cancel_request blocks on the semaphore only while the worker holds a unit
\* or another client has yet to post its own.
CancelBlockedOnlyByTransit ==
    \A r \in Requests :
        cpc[r] = "cancel_sem" /\ sem = 0 => WorkerUnit = 1 \/ ClientsAt("post") # {}

-----------------------------------------------------------------------------
(* The stages of a request: before it is queued, in its queue, in the      *)
(* hands of the worker, finished, or canceled.                             *)

InQueue(r) == InSeq(r, queue[get_type(r)])

\* The client's submission returned or is about to; it has not canceled.
Submitted(r) == cpc[r] \in {"post", "pending", "cancel_id", "cancel_lock", "not_canceled"}

Fresh(r) == rstate[r] = "OP" /\ served[r] = 0 /\ handled[r] = 0 /\ ~m_error[r]

\* The transfer took place, or its error was recorded.
Transferred(r) == served[r] = IF m_error[r] THEN 0 ELSE 1

NotQueued(r) ==
    /\ cpc[r] \in {"idle", "scan", "push", "rejected"}
    /\ cpc[r] # "idle" => m_file[r]
    /\ Fresh(r) /\ ~InQueue(r) /\ wreq # r

Waiting(r) ==
    /\ Submitted(r)
    /\ Fresh(r) /\ m_file[r] /\ InQueue(r) /\ wreq # r

InService(r) ==
    /\ Submitted(r) \/ cpc[r] = "segv"
    /\ wreq = r /\ ~InQueue(r)
    /\ \/ wpc = "serve" /\ Fresh(r) /\ m_file[r]
       \/ wpc = "done" /\ rstate[r] = "OP" /\ handled[r] = 0 /\ Transferred(r) /\ m_file[r]
       \/ wpc = "handler" /\ rstate[r] = "DONE" /\ handled[r] = 0 /\ Transferred(r) /\ m_file[r]
       \/ wpc = "unref" /\ rstate[r] = "DONE" /\ handled[r] = 1 /\ Transferred(r) /\ m_file[r]
       \/ wpc = "ready" /\ rstate[r] = "DONE" /\ handled[r] = 1 /\ Transferred(r) /\ ~m_file[r]

Finished(r) ==
    /\ Submitted(r) \/ cpc[r] = "segv"
    /\ wreq # r /\ ~InQueue(r)
    /\ rstate[r] = "READY2DIE" /\ handled[r] = 1 /\ Transferred(r) /\ ~m_file[r]

Withdrawn(r) ==
    /\ wreq # r /\ ~InQueue(r)
    /\ served[r] = 0 /\ handled[r] = 0 /\ ~m_error[r]
    /\ \/ cpc[r] \in {"cancel_sem", "cancel_done"} /\ rstate[r] = "OP"
       \/ cpc[r] = "cancel_unref" /\ rstate[r] = "DONE"
       \/ cpc[r] = "cancel_ready" /\ rstate[r] = "DONE" /\ ~m_file[r]
       \/ cpc[r] = "canceled" /\ rstate[r] = "READY2DIE" /\ ~m_file[r]

\* Every request is at one stage of its life and nowhere else: it is in the
\* right queue at most once, the worker and a canceler never both have it,
\* and what its fields say agrees with where it is.
LifeCycle ==
    /\ \A op \in Ops : \A i \in 1..Len(queue[op]) :
         /\ get_type(queue[op][i]) = op
         /\ \A j \in 1..Len(queue[op]) : queue[op][i] = queue[op][j] => i = j
    /\ wpc \in {"serve", "done", "handler", "unref", "ready"} <=> wreq \in Requests
    /\ \A r \in Requests :
         /\ NotQueued(r) \/ Waiting(r) \/ InService(r) \/ Finished(r) \/ Withdrawn(r)
         /\ waited[r] # "no" => /\ rstate[r] = "READY2DIE"
                                /\ waited[r] = "threw" <=> m_error[r]

-----------------------------------------------------------------------------
(* What a request goes through. *)

\* A request is transferred and reported to its completion handler at most
\* once, and neither happens to one that cancel() took out of the queue
\* (request_interface::cancel: "the completion handler will not be called").
AtMostOnce ==
    \A r \in Requests :
        /\ served[r] + handled[r] > 0 => ~Canceled(r)
        /\ served[r] <= 1 /\ handled[r] <= 1

\* When wait() comes back the request is finished for good: the handler has
\* run or the request was canceled, the transfer took place or its error is
\* what wait() threw, and the file is no longer referenced, so that the
\* buffer and the file may be deleted.
WaitSeesCompletion ==
    \A r \in Requests :
        waited[r] # "no" =>
            /\ ~m_file[r]
            /\ handled[r] = (IF Canceled(r) THEN 0 ELSE 1)
            /\ waited[r] = "threw" <=> m_error[r]
            /\ ~Canceled(r) => served[r] = (IF m_error[r] THEN 0 ELSE 1)

\* m_state only moves forward: a waiter that saw DONE or READY2DIE never
\* finds the request in operation again.
StateForward ==
    [][\A r \in Requests :
          /\ rstate[r] = "DONE" => rstate'[r] # "OP"
          /\ rstate[r] = "READY2DIE" => rstate'[r] = "READY2DIE"]_vars

\* Every request whose submission returned is completed, as long as nobody
\* cancels and the queue is not destroyed: writes that keep arriving do not
\* keep a read waiting for ever, and no wake-up is lost.
EveryRequestCompletes ==
    \A r \in Requests :
        cpc[r] = "pending" ~> rstate[r] = "READY2DIE" \/ spc # "running"

\* The destructor of the queue returns: whatever the worker is doing when
\* stop_thread sets TERMINATING, it finds out and leaves its loop.
StopReturns == spc = "post" ~> spc = "stopped"

-----------------------------------------------------------------------------
(* What the repository says and the code does not do. *)

\* A client that is inside cancel() gets an answer ("\return true iff the
\* request was canceled successfully").
CancelReturns ==
    \A r \in Requests :
        cpc[r] = "cancel_id" ~> cpc[r] \in {"canceled", "not_canceled"} \/ ~Alive

\* "terminate if it has been requested and queues are empty".
DrainedAtTermination == wpc = "dead" => \A op \in Ops : queue[op] = <<>>

\* cancel() may be called while the request is being processed.
NoNullFile == Alive
=============================================================================
