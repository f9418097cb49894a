------------------------------- MODULE WaitAny -------------------------------
(***************************************************************************)
(* The operations on several requests of request_operations.h, the         *)
(* onoff_switch a waiting thread sleeps on, and the set of switches a      *)
(* request wakes when it completes (request_with_waiters).  Each caller    *)
(* makes one call, wait_any, wait_all or poll_any, on the whole array of   *)
(* requests; a server completes the requests in any order.  A critical     *)
(* section of m_waiters_mutex is one step: add_waiter polls and inserts    *)
(* with it held, notify_waiters turns all switches on with it held.        *)
(***************************************************************************)
EXTENDS Integers, FiniteSets, TLAPS

CONSTANTS
    K,        \* length of the request array; K + 1 is reqs_end
    Callers,
    Failing,  \* the requests whose transfer may fail (error_occured)
    Spurious  \* whether a condition variable may wake up without a notify

Reqs == 1..K
reqs_end == K + 1

\* What the theorem assumes: there is a request to wait for.
WaitConstants == K \in Nat \ {0}

VARIABLES
    m_state,   \* request_with_state::m_state
    m_failed,  \* whether request::m_error is set
    m_waiters, \* the callers whose switch is in request_with_waiters::m_waiters
    m_on,      \* onoff_switch::m_on of each caller
    call,      \* which call the caller makes
    wpc,       \* where the caller is
    wcur,      \* cur (or reqs_begin, which wait_all and poll_any advance)
    wresult    \* result, reqs_end at first

vars == <<m_state, m_failed, m_waiters, m_on, call, wpc, wcur, wresult>>
server_vars == <<m_state, m_failed>>

TypeOK ==
    /\ m_state \in [Reqs -> {"OP", "DONE", "NOTIFIED", "READY2DIE"}]
    /\ m_failed \in [Reqs -> BOOLEAN]
    /\ m_waiters \in [Reqs -> SUBSET Callers]
    /\ m_on \in [Callers -> BOOLEAN]
    /\ call \in [Callers -> {"wait_any", "wait_all", "poll_any"}]
    /\ wpc \in [Callers -> {"first", "undo", "check", "switch", "asleep", "delete", "poll",
                            "returned", "threw"}]
    /\ wcur \in [Callers -> 1..reqs_end]
    /\ wresult \in [Callers -> 1..reqs_end]

Init ==
    /\ m_state = [r \in Reqs |-> "OP"] /\ m_failed = [r \in Reqs |-> FALSE]
    /\ m_waiters = [r \in Reqs |-> {}]
    /\ m_on = [w \in Callers |-> FALSE]
    /\ call \in [Callers -> {"wait_any", "wait_all", "poll_any"}]
    /\ wpc = [w \in Callers |-> "first"]
    /\ wcur = [w \in Callers |-> 1]
    /\ wresult = [w \in Callers |-> reqs_end]

Done(r) == m_state[r] # "OP"

At(w, c, l) == call[w] = c /\ wpc[w] = l
Go(w, l) == wpc' = [wpc EXCEPT ![w] = l]
MoveTo(w, c) == wcur' = [wcur EXCEPT ![w] = c]

-----------------------------------------------------------------------------
(* The server of the requests: serve() and completed(), in the order of    *)
(* their effects.                                                          *)

\* The transfer raised an io_error, before completed() is called.
error_occured(r) ==
    /\ m_state[r] = "OP" /\ r \in Failing
    /\ m_failed' = [m_failed EXCEPT ![r] = TRUE]
    /\ UNCHANGED <<m_state, m_waiters, m_on, call, wpc, wcur, wresult>>

SetDone(r) ==
    /\ m_state[r] = "OP"
    /\ m_state' = [m_state EXCEPT ![r] = "DONE"]
    /\ UNCHANGED <<m_failed, m_waiters, m_on, call, wpc, wcur, wresult>>

\* onoff_switch::on for every waiter.
notify_waiters(r) ==
    /\ m_state[r] = "DONE"
    /\ m_on' = [w \in Callers |-> m_on[w] \/ w \in m_waiters[r]]
    /\ m_state' = [m_state EXCEPT ![r] = "NOTIFIED"]
    /\ UNCHANGED <<m_failed, m_waiters, call, wpc, wcur, wresult>>

SetReady(r) ==
    /\ m_state[r] = "NOTIFIED"
    /\ m_state' = [m_state EXCEPT ![r] = "READY2DIE"]
    /\ UNCHANGED <<m_failed, m_waiters, m_on, call, wpc, wcur, wresult>>

-----------------------------------------------------------------------------
(* wait_any *)

\* A mutant: the request is polled before the lock is taken, so it may
\* complete and notify in between.
AddWaiterLate(w) ==
    LET r == wcur[w] IN
    /\ At(w, "wait_any", "first")
    /\ IF r = reqs_end
       THEN Go(w, "switch") /\ UNCHANGED <<m_waiters, wcur>>
       ELSE /\ m_waiters' = [m_waiters EXCEPT ![r] = @ \cup {w}]
            /\ MoveTo(w, r + 1) /\ UNCHANGED wpc
    /\ UNCHANGED <<server_vars, m_on, call, wresult>>

\* request_with_waiters::add_waiter(&sw) for the request at cur, and what the
\* loop does with its result.  poll() throws when the request failed.
AddWaiter(w) ==
    LET r == wcur[w] IN
    /\ At(w, "wait_any", "first")
    /\ CASE r = reqs_end ->
              Go(w, "switch") /\ UNCHANGED <<m_waiters, wcur, wresult>>
         [] r # reqs_end /\ m_failed[r] ->
              Go(w, "threw") /\ UNCHANGED <<m_waiters, wcur, wresult>>
         [] r # reqs_end /\ ~m_failed[r] /\ Done(r) ->
              /\ wresult' = [wresult EXCEPT ![w] = r]
              /\ Go(w, IF r = 1 THEN "check" ELSE "undo")
              /\ UNCHANGED <<m_waiters, wcur>>
         [] OTHER ->
              /\ m_waiters' = [m_waiters EXCEPT ![r] = @ \cup {w}]
              /\ MoveTo(w, r + 1)
              /\ UNCHANGED <<wpc, wresult>>
    /\ UNCHANGED <<server_vars, m_on, call>>

\* A mutant: the loop ends at the first request and forgets it.
UndoWaiterShort(w) ==
    /\ At(w, "wait_any", "undo")
    /\ MoveTo(w, wcur[w] - 1)
    /\ m_waiters' = [m_waiters EXCEPT ![wcur[w] - 1] = IF wcur[w] = 2 THEN @ ELSE @ \ {w}]
    /\ Go(w, IF wcur[w] - 1 = 1 THEN "check" ELSE "undo")
    /\ UNCHANGED <<server_vars, m_on, call, wresult>>

\* The loop that takes the switch out of the requests before result again.
UndoWaiter(w) ==
    /\ At(w, "wait_any", "undo")
    /\ MoveTo(w, wcur[w] - 1)
    /\ m_waiters' = [m_waiters EXCEPT ![wcur[w] - 1] = @ \ {w}]
    /\ Go(w, IF wcur[w] - 1 = 1 THEN "check" ELSE "undo")
    /\ UNCHANGED <<server_vars, m_on, call, wresult>>

CheckResult(w) ==
    /\ At(w, "wait_any", "check")
    /\ Go(w, IF m_failed[wresult[w]] THEN "threw" ELSE "returned")
    /\ UNCHANGED <<server_vars, m_waiters, m_on, call, wcur, wresult>>

\* onoff_switch::wait_for_on: one test of m_on, then at most one sleep.
wait_for_on(w) ==
    /\ At(w, "wait_any", "switch")
    /\ Go(w, IF m_on[w] THEN "delete" ELSE "asleep")
    /\ MoveTo(w, 1)
    /\ UNCHANGED <<server_vars, m_waiters, m_on, call, wresult>>

\* m_cond.wait returns: after the notify of on(), or without one.
Wake(w) ==
    /\ At(w, "wait_any", "asleep")
    /\ Go(w, "delete")
    /\ UNCHANGED <<server_vars, m_waiters, m_on, call, wcur, wresult>>

WakeUp(w) == m_on[w] /\ Wake(w)
SpuriousWakeUp(w) == Spurious /\ ~m_on[w] /\ Wake(w)

DeleteWaiter(w) ==
    /\ At(w, "wait_any", "delete")
    /\ m_waiters' = [m_waiters EXCEPT ![wcur[w]] = @ \ {w}]
    /\ Go(w, "poll")
    /\ UNCHANGED <<server_vars, m_on, call, wcur, wresult>>

\* if (result == reqs_end && poll()) result = cur, then the next iteration.
PollResult(w) ==
    LET r == wcur[w]
        none == wresult[w] = reqs_end
    IN
    /\ At(w, "wait_any", "poll")
    /\ IF none /\ m_failed[r]
       THEN Go(w, "threw") /\ UNCHANGED <<wcur, wresult>>
       ELSE /\ wresult' = [wresult EXCEPT ![w] = IF none /\ Done(r) THEN r ELSE @]
            /\ MoveTo(w, r + 1)
            /\ Go(w, IF r + 1 = reqs_end THEN "returned" ELSE "delete")
    /\ UNCHANGED <<server_vars, m_waiters, m_on, call>>

-----------------------------------------------------------------------------
(* wait_all and poll_any *)

\* A mutant: wait_all is content with DONE.
wait_all_early(w) ==
    LET r == wcur[w] IN
    /\ At(w, "wait_all", "first")
    /\ IF r = reqs_end THEN Go(w, "returned") /\ UNCHANGED wcur
       ELSE /\ Done(r)
            /\ IF m_failed[r] THEN Go(w, "threw") /\ UNCHANGED wcur
               ELSE MoveTo(w, r + 1) /\ UNCHANGED wpc
    /\ UNCHANGED <<server_vars, m_waiters, m_on, call, wresult>>

\* wait() of the request at reqs_begin: m_state.wait_for(READY2DIE).
wait_all(w) ==
    LET r == wcur[w] IN
    /\ At(w, "wait_all", "first")
    /\ IF r = reqs_end THEN Go(w, "returned") /\ UNCHANGED wcur
       ELSE /\ m_state[r] = "READY2DIE"
            /\ IF m_failed[r] THEN Go(w, "threw") /\ UNCHANGED wcur
               ELSE MoveTo(w, r + 1) /\ UNCHANGED wpc
    /\ UNCHANGED <<server_vars, m_waiters, m_on, call, wresult>>

poll_any(w) ==
    LET r == wcur[w] IN
    /\ At(w, "poll_any", "first")
    /\ CASE r = reqs_end \/ (r # reqs_end /\ ~m_failed[r] /\ Done(r)) ->
              /\ wresult' = [wresult EXCEPT ![w] = r] /\ Go(w, "returned") /\ UNCHANGED wcur
         [] r # reqs_end /\ m_failed[r] -> Go(w, "threw") /\ UNCHANGED <<wcur, wresult>>
         [] OTHER -> MoveTo(w, r + 1) /\ UNCHANGED <<wpc, wresult>>
    /\ UNCHANGED <<server_vars, m_waiters, m_on, call>>

-----------------------------------------------------------------------------
CallerStep(w) ==
    \/ AddWaiter(w) \/ UndoWaiter(w) \/ CheckResult(w) \/ wait_for_on(w) \/ WakeUp(w)
    \/ DeleteWaiter(w) \/ PollResult(w) \/ wait_all(w) \/ poll_any(w)
ServerStep(r) == error_occured(r) \/ SetDone(r) \/ notify_waiters(r) \/ SetReady(r)

Next ==
    \/ \E w \in Callers : CallerStep(w) \/ SpuriousWakeUp(w)
    \/ \E r \in Reqs : ServerStep(r)

\* The callers run, but need not wake up without a notify.  The server
\* finishes a completion it has begun; that it begins one is the premise of
\* the liveness property.
Fairness ==
    /\ \A w \in Callers : WF_vars(CallerStep(w))
    /\ \A r \in Reqs : WF_vars(notify_waiters(r)) /\ WF_vars(SetReady(r))

Spec == Init /\ [][Next]_vars /\ Fairness

-----------------------------------------------------------------------------
(* Properties. *)

\* The switch lives on the caller's stack.  A wait_any that returns has taken
\* it out of every request, so that no request turns on a dead switch.
NoDeadSwitch ==
    \A w \in Callers : wpc[w] = "returned" => \A r \in Reqs : w \notin m_waiters[r]

\* What a call returns is right at the return and stays so: an index other
\* than reqs_end is that of a completed request, wait_all leaves no request
\* behind that the server may still touch, and wait_any returns reqs_end only
\* if its sleep ended without a notify.
ReturnIsRight ==
    \A w \in Callers :
        wpc[w] = "returned" =>
            CASE call[w] = "wait_all" -> \A r \in Reqs : m_state[r] = "READY2DIE"
              [] call[w] = "wait_any" -> /\ wresult[w] \in Reqs \/ ~m_on[w]
                                         /\ wresult[w] \in Reqs => Done(wresult[w])
              [] call[w] = "poll_any" -> wresult[w] \in Reqs => Done(wresult[w])

\* wait_any, wait_all, poll_any: what a call returns is right and stays so, and
\* a call that returns has taken its switch, which lives on its stack, out of
\* every request.
WaitReturnsRight == TypeOK /\ NoDeadSwitch /\ ReturnIsRight

\* A caller of wait_any does not sleep through a completion: once some request
\* is done, the call ends.  This is why add_waiter polls with the lock held.
NoLostWakeUp ==
    \A w \in Callers :
        (call[w] = "wait_any" /\ \E r \in Reqs : Done(r)) ~> (wpc[w] \in {"returned", "threw"})

\* What the comment on wait_any says: it returns the index of a completed
\* request.
ReturnsCompleted ==
    \A w \in Callers : call[w] = "wait_any" /\ wpc[w] = "returned" => wresult[w] \in Reqs

-----------------------------------------------------------------------------
(* What the operations on several requests return is right, for any array  *)
(* of requests and any set of callers.                                     *)

\* The requests that hold the switch of caller w.
Holding(w) == {q \in Reqs : w \in m_waiters[q]}

\* Some request from position c on is done.
DoneFrom(c) == \E q \in Reqs : q >= c /\ Done(q)

\* Where a caller is in its loop decides which requests may hold its switch.
SwitchKnown(w) ==
    /\ call[w] # "wait_any" => Holding(w) = {}
    /\ wpc[w] \in {"first", "undo"} => \A q \in Holding(w) : q < wcur[w]
    /\ wpc[w] = "delete" => \A q \in Holding(w) : q >= wcur[w]
    /\ wpc[w] = "poll" => \A q \in Holding(w) : q > wcur[w]
    /\ wpc[w] \in {"check", "returned"} => Holding(w) = {}

\* Where a caller may be.
LoopKnown(w) ==
    /\ call[w] # "wait_any" => wpc[w] \in {"first", "returned", "threw"}
    /\ call[w] # "wait_any" => ~m_on[w]
    /\ wpc[w] = "undo" => wcur[w] > 1
    /\ wpc[w] \in {"undo", "check"} => wresult[w] \in Reqs
    /\ wpc[w] = "asleep" => wcur[w] = 1
    /\ wpc[w] \in {"delete", "poll"} => wcur[w] \in Reqs

\* What the caller has found out.  A switch that was turned on was turned on
\* by a request that the loop of wait_any has not passed yet.
FoundKnown(w) ==
    /\ wresult[w] \in Reqs => Done(wresult[w])
    /\ (m_on[w] /\ wpc[w] \in {"first", "switch", "asleep"}) => DoneFrom(1)
    /\ (m_on[w] /\ wpc[w] \in {"delete", "poll"} /\ wresult[w] = reqs_end) => DoneFrom(wcur[w])
    /\ (m_on[w] /\ wpc[w] = "returned") => wresult[w] \in Reqs
    /\ call[w] = "wait_all" => \A q \in Reqs : q < wcur[w] => m_state[q] = "READY2DIE"
    /\ (call[w] = "wait_all" /\ wpc[w] = "returned") => wcur[w] = reqs_end

WaitInv == TypeOK /\ \A w \in Callers : SwitchKnown(w) /\ LoopKnown(w) /\ FoundKnown(w)
-----------------------------------------------------------------------------
\* The invariant says at a return what WaitReturnsRight asks for.
LEMMA WaitInvRight ==
    ASSUME WaitConstants, WaitInv
    PROVE  WaitReturnsRight
<1>1. NoDeadSwitch
  BY DEF WaitInv, SwitchKnown, Holding, NoDeadSwitch
<1>2. ASSUME NEW w \in Callers, wpc[w] = "returned"
      PROVE  CASE call[w] = "wait_all" -> \A r \in Reqs : m_state[r] = "READY2DIE"
               [] call[w] = "wait_any" -> /\ wresult[w] \in Reqs \/ ~m_on[w]
                                          /\ wresult[w] \in Reqs => Done(wresult[w])
               [] call[w] = "poll_any" -> wresult[w] \in Reqs => Done(wresult[w])
  <2>1. call[w] \in {"wait_any", "wait_all", "poll_any"}
    BY DEF WaitInv, TypeOK
  <2>2. FoundKnown(w)
    BY DEF WaitInv
  <2>3. ASSUME call[w] = "wait_all" PROVE \A r \in Reqs : m_state[r] = "READY2DIE"
    BY <1>2, <2>2, <2>3 DEF FoundKnown, Reqs, reqs_end, WaitConstants
  <2> QED
    BY <1>2, <2>1, <2>2, <2>3 DEF FoundKnown
<1> QED
  BY <1>1, <1>2 DEF WaitInv, WaitReturnsRight, ReturnIsRight

\* No call has begun.
LEMMA WaitInit ==
    ASSUME WaitConstants, Init
    PROVE  WaitInv
BY DEF WaitConstants, Init, WaitInv, TypeOK, SwitchKnown, LoopKnown, FoundKnown, Holding,
       DoneFrom, Done, Reqs, reqs_end

\* A step of the server of a request.
LEMMA WaitServer ==
    ASSUME WaitConstants, WaitInv, NEW r \in Reqs, ServerStep(r)
    PROVE  WaitInv'
<1>1. TypeOK'
  BY DEF WaitInv, TypeOK, ServerStep, error_occured, SetDone, notify_waiters, SetReady
<1>2. ASSUME NEW w \in Callers
      PROVE  (SwitchKnown(w) /\ LoopKnown(w) /\ FoundKnown(w))'
  <2> USE <1>2
  <2>1. \A q \in Reqs : (Done(q) => Done(q)') /\ (m_state[q] = "READY2DIE" => m_state'[q] = "READY2DIE")
    BY DEF WaitInv, TypeOK, ServerStep, error_occured, SetDone, notify_waiters, SetReady, Done
  <2>2. UNCHANGED <<m_waiters, call, wpc, wcur, wresult>>
    BY DEF ServerStep, error_occured, SetDone, notify_waiters, SetReady
  <2>3. SwitchKnown(w)'
    BY <2>2 DEF WaitInv, SwitchKnown, Holding
  <2>4. m_on'[w] => m_on[w] \/ (r \in Holding(w) /\ Done(r)')
    BY DEF WaitInv, TypeOK, ServerStep, error_occured, SetDone, notify_waiters, SetReady, Done, Holding
  <2>5. LoopKnown(w)'
    BY <2>2, <2>4 DEF WaitInv, SwitchKnown, LoopKnown
  <2>6. \A c \in Nat : DoneFrom(c) => DoneFrom(c)'
    BY <2>1 DEF DoneFrom
  <2>7. wcur[w] \in Nat /\ r \in Nat /\ r >= 1
    BY DEF WaitInv, TypeOK, Reqs, reqs_end, WaitConstants
  <2>8. FoundKnown(w)'
    <3>1. ASSUME ~m_on[w], m_on'[w]
          PROVE  /\ wpc[w] \in {"first", "switch", "asleep"} => DoneFrom(1)'
                 /\ wpc[w] \in {"delete", "poll"} => DoneFrom(wcur[w])'
                 /\ wpc[w] # "returned"
      BY <3>1, <2>2, <2>4, <2>7 DEF WaitInv, SwitchKnown, DoneFrom, Holding
    <3> QED
      BY <3>1, <2>1, <2>2, <2>6, <2>7 DEF WaitInv, FoundKnown
  <2> QED BY <2>3, <2>5, <2>8
<1> QED BY <1>1, <1>2 DEF WaitInv

\* A step of caller u leaves the others alone.
LEMMA WaitCaller ==
    ASSUME WaitConstants, WaitInv, NEW u \in Callers, CallerStep(u) \/ SpuriousWakeUp(u)
    PROVE  WaitInv'
<1> DEFINE Acts == AddWaiter(u) \/ UndoWaiter(u) \/ CheckResult(u) \/ wait_for_on(u) \/ Wake(u)
                     \/ DeleteWaiter(u) \/ PollResult(u) \/ wait_all(u) \/ poll_any(u)
<1>0. Acts
  BY DEF CallerStep, SpuriousWakeUp, WakeUp
<1>t. K \in Nat /\ K >= 1 /\ wcur[u] \in 1..(K + 1) /\ wresult[u] \in 1..(K + 1)
  BY DEF WaitConstants, WaitInv, TypeOK, reqs_end
<1>1. UNCHANGED <<m_state, m_failed, m_on, call>>
  BY <1>0 DEF AddWaiter, UndoWaiter, CheckResult, wait_for_on, Wake, DeleteWaiter, PollResult,
              wait_all, poll_any, server_vars
<1>2. TypeOK /\ SwitchKnown(u) /\ LoopKnown(u) /\ FoundKnown(u)
  BY DEF WaitInv
<1>3. TypeOK'
  <2>1. m_waiters' \in [Reqs -> SUBSET Callers]
    <3>1. CASE AddWaiter(u) \/ UndoWaiter(u) \/ DeleteWaiter(u)
      <4>1. \/ m_waiters' = m_waiters
            \/ \E q \in Reqs : \/ m_waiters' = [m_waiters EXCEPT ![q] = @ \cup {u}]
                              \/ m_waiters' = [m_waiters EXCEPT ![q] = @ \ {u}]
        BY <1>2, <1>t, <3>1 DEF AddWaiter, UndoWaiter, DeleteWaiter, At, LoopKnown, Reqs, reqs_end
      <4> QED BY <1>2, <4>1 DEF TypeOK
    <3>2. CASE ~(AddWaiter(u) \/ UndoWaiter(u) \/ DeleteWaiter(u))
      BY <1>0, <1>2, <3>2 DEF CheckResult, wait_for_on, Wake, PollResult, wait_all, poll_any, TypeOK
    <3> QED BY <3>1, <3>2
  <2>2. wpc' \in [Callers -> {"first", "undo", "check", "switch", "asleep", "delete", "poll",
                             "returned", "threw"}]
    BY <1>0, <1>2 DEF AddWaiter, UndoWaiter, CheckResult, wait_for_on, Wake, DeleteWaiter,
                          PollResult, wait_all, poll_any, Go, TypeOK
  <2>3. wcur' \in [Callers -> 1..reqs_end]
    <3>1. CASE UndoWaiter(u) \/ DeleteWaiter(u) \/ PollResult(u)
      BY <1>2, <1>t, <3>1 DEF UndoWaiter, DeleteWaiter, PollResult, At, MoveTo, TypeOK, Reqs, reqs_end,
                              LoopKnown
    <3>2. CASE AddWaiter(u) \/ wait_all(u) \/ poll_any(u)
      <4>1. wcur' = wcur \/ (wcur[u] # reqs_end /\ wcur' = [wcur EXCEPT ![u] = wcur[u] + 1])
        BY <3>2 DEF AddWaiter, wait_all, poll_any, MoveTo
      <4> QED BY <1>2, <1>t, <4>1 DEF TypeOK, reqs_end
    <3>3. CASE CheckResult(u) \/ wait_for_on(u) \/ Wake(u)
      BY <1>2, <1>t, <3>3 DEF CheckResult, wait_for_on, Wake, MoveTo, TypeOK, reqs_end
    <3> QED BY <1>0, <3>1, <3>2, <3>3
  <2>4. wresult' \in [Callers -> 1..reqs_end]
    <3>1. \/ wresult' = wresult
          \/ wresult' = [wresult EXCEPT ![u] = wcur[u]]
      BY <1>0, <1>2 DEF AddWaiter, UndoWaiter, CheckResult, wait_for_on, Wake, DeleteWaiter,
                          PollResult, wait_all, poll_any, TypeOK
    <3> QED BY <1>2, <1>t, <3>1 DEF TypeOK, reqs_end
  <2> QED BY <1>1, <1>2, <2>1, <2>2, <2>3, <2>4 DEF TypeOK
<1>4. ASSUME NEW w \in Callers, w # u
      PROVE  (SwitchKnown(w) /\ LoopKnown(w) /\ FoundKnown(w))'
  <2>1. wpc'[w] = wpc[w] /\ wcur'[w] = wcur[w] /\ wresult'[w] = wresult[w]
    BY <1>0, <1>2, <1>4 DEF AddWaiter, UndoWaiter, CheckResult, wait_for_on, Wake, DeleteWaiter, PollResult,
              wait_all, poll_any, Go, MoveTo, TypeOK
  <2>2. \A q \in Reqs : w \in m_waiters'[q] <=> w \in m_waiters[q]
    BY <1>0, <1>2, <1>4 DEF AddWaiter, UndoWaiter, CheckResult, wait_for_on, Wake, DeleteWaiter, PollResult,
              wait_all, poll_any, TypeOK
  <2>3. SwitchKnown(w) /\ LoopKnown(w) /\ FoundKnown(w)
    BY <1>4 DEF WaitInv
  <2> QED
    BY <1>1, <2>1, <2>2, <2>3 DEF SwitchKnown, LoopKnown, FoundKnown, Holding, DoneFrom, Done
<1>5. SwitchKnown(u)' /\ LoopKnown(u)' /\ FoundKnown(u)'
  <2>1. CASE AddWaiter(u)
    BY <1>t, <1>1, <1>2, <2>1 DEF AddWaiter, At, Go, MoveTo, TypeOK, Reqs, reqs_end,
        SwitchKnown, LoopKnown, FoundKnown, Holding, DoneFrom, Done
  <2>2. CASE UndoWaiter(u)
    BY <1>t, <1>1, <1>2, <2>2 DEF UndoWaiter, At, Go, MoveTo, TypeOK, Reqs, reqs_end,
        SwitchKnown, LoopKnown, FoundKnown, Holding, DoneFrom, Done
  <2>3. CASE CheckResult(u)
    BY <1>t, <1>1, <1>2, <2>3 DEF CheckResult, At, Go, MoveTo, TypeOK, Reqs, reqs_end,
        SwitchKnown, LoopKnown, FoundKnown, Holding, DoneFrom, Done
  <2>4. CASE wait_for_on(u) \/ Wake(u)
    BY <1>t, <1>1, <1>2, <2>4 DEF wait_for_on, Wake, At, Go, MoveTo, TypeOK, Reqs, reqs_end,
        SwitchKnown, LoopKnown, FoundKnown, Holding, DoneFrom, Done
  <2>5. CASE DeleteWaiter(u)
    BY <1>t, <1>1, <1>2, <2>5 DEF DeleteWaiter, At, Go, MoveTo, TypeOK, Reqs, reqs_end,
        SwitchKnown, LoopKnown, FoundKnown, Holding, DoneFrom, Done
  <2>6. CASE PollResult(u)
    <3> USE <1>t, <1>1, <1>2, <2>6
    <3>1. m_waiters' = m_waiters /\ wpc[u] = "poll" /\ wpc'[u] \in {"threw", "returned", "delete"}
      BY DEF PollResult, At, Go, TypeOK
    <3>2. wpc'[u] # "threw" =>
            /\ wcur'[u] = wcur[u] + 1
            /\ wpc'[u] = IF wcur[u] + 1 = K + 1 THEN "returned" ELSE "delete"
            /\ wresult'[u] = IF wresult[u] = K + 1 /\ Done(wcur[u]) THEN wcur[u] ELSE wresult[u]
      BY DEF PollResult, Go, MoveTo, TypeOK, reqs_end
    <3>3. wpc'[u] = "threw" => wresult' = wresult /\ wcur' = wcur
      BY DEF PollResult, Go, TypeOK
    <3>4. wcur[u] \in Reqs /\ call[u] = "wait_any"
      BY <3>1 DEF LoopKnown, PollResult, At
    <3>5. SwitchKnown(u)' /\ LoopKnown(u)'
      BY <3>1, <3>2, <3>4 DEF SwitchKnown, LoopKnown, Holding, Reqs
    <3>6. FoundKnown(u)'
      <4>1. wresult'[u] \in Reqs => Done(wresult'[u])
        BY <3>2, <3>3, <3>1, <3>4 DEF FoundKnown
      <4>2. (m_on[u] /\ wpc'[u] # "threw" /\ wresult'[u] = K + 1) => DoneFrom(wcur[u] + 1)
        BY <3>1, <3>2, <3>4 DEF FoundKnown, DoneFrom, reqs_end, Reqs
      <4>3. (m_on[u] /\ wpc'[u] = "returned") => wresult'[u] # K + 1
        BY <4>2, <3>1, <3>2 DEF DoneFrom, Reqs
      <4>4. wresult'[u] \in 1..(K + 1)
        BY <1>3 DEF TypeOK, reqs_end
      <4> QED BY <4>1, <4>2, <4>3, <4>4, <3>1, <3>2, <3>4 DEF FoundKnown, DoneFrom, Done, Reqs, reqs_end
    <3> QED BY <3>5, <3>6
  <2>7. CASE wait_all(u)
    BY <1>t, <1>1, <1>2, <2>7 DEF wait_all, At, Go, MoveTo, TypeOK, Reqs, reqs_end,
        SwitchKnown, LoopKnown, FoundKnown, Holding, DoneFrom, Done
  <2>8. CASE poll_any(u)
    BY <1>t, <1>1, <1>2, <2>8 DEF poll_any, At, Go, MoveTo, TypeOK, Reqs, reqs_end,
        SwitchKnown, LoopKnown, FoundKnown, Holding, DoneFrom, Done
  <2> QED BY <1>0, <2>1, <2>2, <2>3, <2>4, <2>5, <2>6, <2>7, <2>8
<1> QED BY <1>3, <1>4, <1>5 DEF WaitInv

-----------------------------------------------------------------------------
\* wait_any, wait_all and poll_any return what is right, and leave no switch
\* behind in a request when they return, for any array and any callers.
THEOREM WaitsReturnRight ==
    ASSUME WaitConstants
    PROVE  Spec => []WaitReturnsRight
<1>1. Init => WaitInv
  BY WaitInit
<1>2. WaitInv /\ [Next]_vars => WaitInv'
  <2>1. ASSUME WaitInv, UNCHANGED vars PROVE WaitInv'
    BY <2>1 DEF vars, WaitInv, TypeOK, SwitchKnown, LoopKnown, FoundKnown, Holding, DoneFrom, Done
  <2>2. ASSUME WaitInv, Next PROVE WaitInv'
    BY <2>2, WaitServer, WaitCaller DEF Next
  <2> QED BY <2>1, <2>2
<1>3. WaitInv => WaitReturnsRight
  BY WaitInvRight
<1> QED BY <1>1, <1>2, <1>3, PTL DEF Spec
=============================================================================
