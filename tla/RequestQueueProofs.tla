------------------------- MODULE RequestQueueProofs -------------------------
(* Proofs about RequestQueue, for every set of requests.                   *)
EXTENDS RequestQueue, FiniteSetTheorems, TLAPS

\* list::erase keeps the rest of the queue in order and shortens it by one.
LEMMA EraseProperties ==
    ASSUME NEW S, NEW s \in Seq(S), NEW i \in 1..Len(s)
    PROVE  /\ Erase(s, i) \in Seq(S)
           /\ Len(Erase(s, i)) = Len(s) - 1
           /\ \A j \in 1..(Len(s) - 1) :
                Erase(s, i)[j] = IF j < i THEN s[j] ELSE s[j + 1]
<1>1. Len(s) \in Nat /\ Len(s) - 1 \in Nat
  OBVIOUS
<1>2. \A j \in 1..(Len(s) - 1) : (IF j < i THEN s[j] ELSE s[j + 1]) \in S
  OBVIOUS
<1>3. Erase(s, i) \in [1..(Len(s) - 1) -> S]
  BY Zenon, <1>2 DEF Erase
<1>4. Erase(s, i) \in Seq(S) /\ Len(Erase(s, i)) = Len(s) - 1
  BY <1>1, <1>3
<1>. QED
  BY Zenon, <1>4 DEF Erase

\* Counting one more event of x keeps a table of counters a table of counters.
LEMMA CountUp ==
    ASSUME NEW S, NEW f \in [S -> Nat], NEW x
    PROVE  [f EXCEPT ![x] = @ + 1] \in [S -> Nat]
<1>1. CASE x \in S
  BY <1>1
<1>2. CASE x \notin S
  BY Zenon, <1>2
<1>. QED
  BY Zenon, <1>1, <1>2

\* The initial state and every step of clients, worker and owner keep every
\* variable of the queue in its type; in particular m_sem never goes below 0.
THEOREM Typing == Spec => []TypeOK
<1>. USE RequestsAssumption DEF TypeOK, Ops, get_type, OtherOp, WorkerPcs, ClientPcs,
                               ThreadStates, RequestStates, GoTo, WorkerGoTo
<1>1. Init => TypeOK
  BY DEF Init
<1>2. TypeOK /\ [Next]_vars => TypeOK'
  <2>. SUFFICES ASSUME TypeOK, [Next]_vars PROVE TypeOK'
    BY Zenon
  <2>1. ASSUME NEW r \in Requests, NewRequest(r) PROVE TypeOK'
    BY <2>1 DEF NewRequest, wvars
  <2>2. ASSUME NEW r \in Requests, AddScan(r) PROVE TypeOK'
    BY <2>2 DEF AddScan, wvars, rvars
  <2>3. ASSUME NEW r \in Requests, AddPush(r) PROVE TypeOK'
    BY SMTT(30), <2>3 DEF AddPush, wvars, rvars
  <2>4. ASSUME NEW r \in Requests, AddPost(r) PROVE TypeOK'
    BY <2>4 DEF AddPost, wvars, rvars
  <2>5. ASSUME NEW r \in Requests, CancelBegin(r) PROVE TypeOK'
    BY <2>5 DEF CancelBegin, wvars, rvars
  <2>6. ASSUME NEW r \in Requests, CancelQueueId(r) PROVE TypeOK'
    BY <2>6 DEF CancelQueueId, wvars, rvars
  <2>7. ASSUME NEW r \in Requests, CancelErase(r) PROVE TypeOK'
    <3>. DEFINE op == get_type(r)
    <3>1. queue[op] \in Seq(Requests)
      BY Zenon
    <3>2. \A i \in 1..Len(queue[op]) : Erase(queue[op], i) \in Seq(Requests)
      BY Zenon, <3>1, EraseProperties
    <3>3. queue' \in [Ops -> Seq(Requests)] /\ cpc' \in [Requests -> ClientPcs]
      <4>1. CASE UNCHANGED queue /\ GoTo(r, "not_canceled")
        BY Zenon, <4>1
      <4>2. ASSUME NEW i \in 1..Len(queue[op]),
                   queue' = [queue EXCEPT ![op] = Erase(@, i)], GoTo(r, "cancel_sem")
            PROVE  queue' \in [Ops -> Seq(Requests)] /\ cpc' \in [Requests -> ClientPcs]
        <5>1. Erase(queue[op], i) \in Seq(Requests)
          BY Zenon, <3>2
        <5>. QED
          BY Zenon, <4>2, <5>1
      <4>. QED
        BY Zenon, <2>7, <4>1, <4>2 DEF CancelErase
    <3>4. UNCHANGED <<thread_state, sem, wvars, spc, rvars, waited>>
      BY Zenon, <2>7 DEF CancelErase
    <3>. QED
      BY <3>3, <3>4 DEF wvars, rvars
  <2>8. ASSUME NEW r \in Requests, CancelSem(r) PROVE TypeOK'
    BY <2>8 DEF CancelSem, wvars, rvars
  <2>9. ASSUME NEW r \in Requests, CancelDone(r) \/ CancelUnref(r) \/ CancelReady(r)
        PROVE  TypeOK'
    <3>1. CASE CancelDone(r)
      BY <3>1 DEF CancelDone, wvars
    <3>2. CASE CancelUnref(r)
      BY <3>2 DEF CancelUnref, wvars
    <3>3. CASE CancelReady(r)
      BY <3>3 DEF CancelReady, wvars
    <3>. QED
      BY Zenon, <2>9, <3>1, <3>2, <3>3
  <2>10. ASSUME NEW r \in Requests, WaitReturn(r) PROVE TypeOK'
    BY <2>10 DEF WaitReturn, wvars, rvars
  <2>11. CASE WorkerDec \/ WorkerInc \/ WorkerTDec \/ WorkerTInc
    BY <2>11 DEF WorkerDec, WorkerInc, WorkerTDec, WorkerTInc, rvars
  <2>12. CASE WorkerPick
    <3>. DEFINE op == IF write_phase THEN "WRITE" ELSE "READ"
    <3>1. CASE queue[op] # <<>>
      <4>1. Head(queue[op]) \in Requests /\ Tail(queue[op]) \in Seq(Requests)
        BY <3>1
      <4>. QED
        <5>1. wreq' \in Requests /\ queue' = [queue EXCEPT ![op] = Tail(queue[op])]
          BY Zenon, <2>12, <3>1, <4>1 DEF WorkerPick
        <5>2. queue' \in [Ops -> Seq(Requests)]
          BY Zenon, <4>1, <5>1
        <5>3. wpc' \in WorkerPcs /\ write_phase' \in BOOLEAN
          BY Zenon, <2>12 DEF WorkerPick
        <5>. QED
          BY Zenon, <2>12, <5>1, <5>2, <5>3 DEF WorkerPick, rvars
    <3>2. CASE queue[op] = <<>>
      BY Zenon, <2>12, <3>2 DEF WorkerPick, rvars
    <3>. QED
      BY Zenon, <3>1, <3>2
  <2>13. CASE WorkerServe
    <3>1. served' \in [Requests -> Nat] /\ m_error' \in [Requests -> BOOLEAN]
      <4>1. [served EXCEPT ![wreq] = @ + 1] \in [Requests -> Nat]
        BY Zenon, CountUp
      <4>2. [m_error EXCEPT ![wreq] = TRUE] \in [Requests -> BOOLEAN]
        BY Zenon
      <4>3. \/ served' = [served EXCEPT ![wreq] = @ + 1] /\ m_error' = m_error
            \/ served' = served /\ m_error' = [m_error EXCEPT ![wreq] = TRUE]
        BY Zenon, <2>13 DEF WorkerServe
      <4>4. CASE served' = [served EXCEPT ![wreq] = @ + 1] /\ m_error' = m_error
        BY Zenon, <4>1, <4>4
      <4>5. CASE served' = served /\ m_error' = [m_error EXCEPT ![wreq] = TRUE]
        BY Zenon, <4>2, <4>5
      <4>. QED
        BY Zenon, <4>3, <4>4, <4>5
    <3>. QED
      BY Zenon, <2>13, <3>1 DEF WorkerServe
  <2>14. CASE WorkerDone \/ WorkerHandler \/ WorkerUnref \/ WorkerReady
    <3>1. CASE WorkerDone
      BY Zenon, <3>1 DEF WorkerDone
    <3>2. CASE WorkerHandler
      <4>1. handled' \in [Requests -> Nat]
        BY Zenon, <3>2, CountUp DEF WorkerHandler
      <4>. QED
        BY Zenon, <3>2, <4>1 DEF WorkerHandler
    <3>3. CASE WorkerUnref
      BY Zenon, <3>3 DEF WorkerUnref
    <3>4. CASE WorkerReady
      BY Zenon, <3>4 DEF WorkerReady
    <3>. QED
      BY Zenon, <2>14, <3>1, <3>2, <3>3, <3>4
  <2>15. CASE WorkerCheck \/ WorkerExit
    BY Zenon, <2>15 DEF WorkerCheck, WorkerExit, rvars
  <2>16. CASE StopBegin \/ StopPost \/ StopJoin
    BY <2>16 DEF StopBegin, StopPost, StopJoin, wvars, rvars
  <2>17. CASE UNCHANGED vars
    BY <2>17 DEF vars, wvars, rvars
  <2>. QED
    BY Zenon, <2>1, <2>2, <2>3, <2>4, <2>5, <2>6, <2>7, <2>8, <2>9, <2>10, <2>11, <2>12,
       <2>13, <2>14, <2>15, <2>16, <2>17
    DEF Next, ClientStep, Worker, Stop, Quiescent
<1>. QED
  BY <1>1, <1>2, PTL DEF Spec
-----------------------------------------------------------------------------
(* The semaphore. *)

\* The clients at a place of the code; how many pushed and have not posted,
\* how many erased and have not taken their unit, and the queued requests.
Count(f, x) == Cardinality({q \in Requests : f[q] = x})
Posting == Cardinality(ClientsAt("post"))
Erasing == Cardinality(ClientsAt("cancel_sem"))
Queued == Len(queue["READ"]) + Len(queue["WRITE"])

\* A count of clients is a natural number.
LEMMA CountType == \A f, x : Count(f, x) \in Nat
<1>. SUFFICES ASSUME NEW f, NEW x PROVE Count(f, x) \in Nat
  BY Zenon
<1>1. IsFiniteSet({q \in Requests : f[q] = x})
  BY Zenon, RequestsAssumption, FS_Subset
<1>. QED
  BY Zenon, <1>1, FS_CardinalityType DEF Count

\* A client that arrives at x is one more there.
LEMMA CountArrive ==
    \A r \in Requests : \A f, g, x :
        (\A q \in Requests \ {r} : g[q] = f[q]) /\ f[r] # x /\ g[r] = x => Count(g, x) = Count(f, x) + 1
<1>. SUFFICES ASSUME NEW r \in Requests, NEW f, NEW g, NEW x,
                     \A q \in Requests \ {r} : g[q] = f[q], f[r] # x, g[r] = x
              PROVE  Count(g, x) = Count(f, x) + 1
  OBVIOUS
<1>. DEFINE F == {q \in Requests : f[q] = x}
            G == {q \in Requests : g[q] = x}
<1>1. IsFiniteSet(F)
  BY Zenon, RequestsAssumption, FS_Subset
<1>2. G = F \cup {r} /\ r \notin F
  BY Zenon
<1>3. Cardinality(G) = Cardinality(F) + 1
  BY Zenon, <1>1, <1>2, FS_AddElement
<1>. QED
  BY Zenon, <1>3 DEF Count

\* A client that leaves x is one less there.
LEMMA CountLeave ==
    \A r \in Requests : \A f, g, x :
        (\A q \in Requests \ {r} : g[q] = f[q]) /\ f[r] = x /\ g[r] # x => Count(g, x) = Count(f, x) - 1
<1>. SUFFICES ASSUME NEW r \in Requests, NEW f, NEW g, NEW x,
                     \A q \in Requests \ {r} : g[q] = f[q], f[r] = x, g[r] # x
              PROVE  Count(g, x) = Count(f, x) - 1
  OBVIOUS
<1>. DEFINE F == {q \in Requests : f[q] = x}
            G == {q \in Requests : g[q] = x}
<1>1. IsFiniteSet(F)
  BY Zenon, RequestsAssumption, FS_Subset
<1>2. G = F \ {r} /\ r \in F
  OBVIOUS
<1>3. Cardinality(G) = Cardinality(F) - 1
  BY Zenon, <1>1, <1>2, FS_RemoveElement
<1>. QED
  BY Zenon, <1>3 DEF Count

\* Any other step leaves the clients at x as they are.
LEMMA CountStay ==
    \A r \in Requests : \A f, g, x :
        (\A q \in Requests \ {r} : g[q] = f[q]) /\ (f[r] = x <=> g[r] = x) => Count(g, x) = Count(f, x)
<1>. SUFFICES ASSUME NEW r \in Requests, NEW f, NEW g, NEW x,
                     \A q \in Requests \ {r} : g[q] = f[q], f[r] = x <=> g[r] = x
              PROVE  Count(g, x) = Count(f, x)
  OBVIOUS
<1>1. {q \in Requests : g[q] = x} = {q \in Requests : f[q] = x}
  BY Zenon
<1>. QED
  BY Zenon, <1>1 DEF Count

\* The client of r moves: what that does to the two counts of clients.
LEMMA ClientsMove ==
    ASSUME TypeOK, NEW r \in Requests, \A q \in Requests \ {r} : cpc'[q] = cpc[q]
    PROVE  /\ cpc[r] = "post" /\ cpc'[r] # "post" => Posting' = Posting - 1
           /\ cpc[r] # "post" /\ cpc'[r] = "post" => Posting' = Posting + 1
           /\ cpc[r] # "post" /\ cpc'[r] # "post" => Posting' = Posting
           /\ cpc[r] = "cancel_sem" /\ cpc'[r] # "cancel_sem" => Erasing' = Erasing - 1
           /\ cpc[r] # "cancel_sem" /\ cpc'[r] = "cancel_sem" => Erasing' = Erasing + 1
           /\ cpc[r] # "cancel_sem" /\ cpc'[r] # "cancel_sem" => Erasing' = Erasing
<1>1. \A q \in Requests \ {r} : cpc'[q] = cpc[q]
  BY Zenon
<1>2. /\ Posting = Count(cpc, "post") /\ Posting' = Count(cpc', "post")
      /\ Erasing = Count(cpc, "cancel_sem") /\ Erasing' = Count(cpc', "cancel_sem")
  BY Zenon DEF Posting, Erasing, ClientsAt, Count
<1>3. \A f, g, x : (\A q \in Requests \ {r} : g[q] = f[q]) /\ f[r] # x /\ g[r] = x
                    => Count(g, x) = Count(f, x) + 1
  BY Zenon, CountArrive
<1>4. \A f, g, x : (\A q \in Requests \ {r} : g[q] = f[q]) /\ f[r] = x /\ g[r] # x
                    => Count(g, x) = Count(f, x) - 1
  BY Zenon, CountLeave
<1>5. \A f, g, x : (\A q \in Requests \ {r} : g[q] = f[q]) /\ (f[r] = x <=> g[r] = x)
                    => Count(g, x) = Count(f, x)
  BY Zenon, CountStay
<1>6. cpc[r] = "post" /\ cpc'[r] # "post" => Count(cpc', "post") = Count(cpc, "post") - 1
  BY Zenon, <1>1, <1>4
<1>7. cpc[r] # "post" /\ cpc'[r] = "post" => Count(cpc', "post") = Count(cpc, "post") + 1
  BY Zenon, <1>1, <1>3
<1>8. cpc[r] # "post" /\ cpc'[r] # "post" => Count(cpc', "post") = Count(cpc, "post")
  BY Zenon, <1>1, <1>5
<1>9. cpc[r] = "cancel_sem" /\ cpc'[r] # "cancel_sem" => Count(cpc', "cancel_sem") = Count(cpc, "cancel_sem") - 1
  BY Zenon, <1>1, <1>4
<1>10. cpc[r] # "cancel_sem" /\ cpc'[r] = "cancel_sem" => Count(cpc', "cancel_sem") = Count(cpc, "cancel_sem") + 1
  BY Zenon, <1>1, <1>3
<1>11. cpc[r] # "cancel_sem" /\ cpc'[r] # "cancel_sem" => Count(cpc', "cancel_sem") = Count(cpc, "cancel_sem")
  BY Zenon, <1>1, <1>5
<1>. QED
  BY Zenon, <1>1, <1>2, <1>6, <1>7, <1>8, <1>9, <1>10, <1>11

\* The counts are natural numbers.
LEMMA CountsTyped ==
    ASSUME TypeOK
    PROVE  /\ sem \in Nat /\ Queued \in Nat /\ Erasing \in Nat /\ Posting \in Nat
           /\ StopUnit \in Nat /\ WorkerUnit \in Nat
<1>1. Posting = Count(cpc, "post") /\ Erasing = Count(cpc, "cancel_sem")
  BY Zenon DEF Posting, Erasing, ClientsAt, Count
<1>2. Len(queue["READ"]) \in Nat /\ Len(queue["WRITE"]) \in Nat
  BY DEF TypeOK, Ops
<1>3. \A a, b \in Nat : a + b \in Nat
  OBVIOUS
<1>4. Queued \in Nat
  BY Zenon, <1>2, <1>3 DEF Queued
<1>5. StopUnit \in Nat /\ WorkerUnit \in Nat
  BY Zenon DEF StopUnit, WorkerUnit
<1>. QED
  BY Zenon, <1>1, <1>4, <1>5, CountType DEF TypeOK
\* The accounting in terms of the counts.
Balance == sem = Queued + Erasing - Posting + StopUnit - WorkerUnit

\* Steps that leave the clients where they are.
LEMMA ClientsStay == ASSUME UNCHANGED cpc PROVE UNCHANGED <<Posting, Erasing>>
BY Zenon DEF Posting, Erasing, ClientsAt

\* One request more or less in one of the two queues.
LEMMA QueuedChanges ==
    ASSUME TypeOK, NEW op \in Ops, NEW d \in Int,
           Len(queue'[op]) = Len(queue[op]) + d,
           queue'[OtherOp(op)] = queue[OtherOp(op)]
    PROVE  Queued' = Queued + d
<1>1. Len(queue["READ"]) \in Nat /\ Len(queue["WRITE"]) \in Nat
  BY DEF TypeOK, Ops
<1>2. \A a, b \in Nat : (a + d) + b = (a + b) + d /\ a + (b + d) = (a + b) + d
  OBVIOUS
<1>3. CASE op = "READ"
  <2>1. Queued' = (Len(queue["READ"]) + d) + Len(queue["WRITE"])
    BY Zenon, <1>3 DEF Queued, OtherOp
  <2>. QED
    BY Zenon, <1>1, <1>2, <2>1 DEF Queued
<1>4. CASE op = "WRITE"
  <2>1. Queued' = Len(queue["READ"]) + (Len(queue["WRITE"]) + d)
    BY Zenon, <1>4 DEF Queued, OtherOp
  <2>. QED
    BY Zenon, <1>1, <1>2, <2>1 DEF Queued
<1>. QED
  BY Zenon, <1>3, <1>4 DEF Ops

\* m_sem counts the queued requests and the units in transit, in every
\* reachable state of add_request, cancel_request, worker and stop_thread.
THEOREM SemaphoreCounts == Spec => []SemAccounting
<1>. DEFINE Units == <<sem, Queued, Erasing, Posting, StopUnit, WorkerUnit>>
<1>1. Init => Balance
  <2>. SUFFICES ASSUME Init PROVE Balance
    BY Zenon
  <2>1. Erasing = 0 /\ Posting = 0
    <3>1. ClientsAt("cancel_sem") = {} /\ ClientsAt("post") = {}
      BY Zenon DEF Init, ClientsAt
    <3>. QED
      BY Zenon, <3>1, FS_EmptySet DEF Erasing, Posting
  <2>2. Queued = 0
    BY DEF Init, Queued, Ops
  <2>3. sem = 0 /\ StopUnit = 0 /\ WorkerUnit = 0
    BY Zenon DEF Init, StopUnit, WorkerUnit
  <2>. QED
    BY <2>1, <2>2, <2>3 DEF Balance
<1>2. TypeOK /\ Balance /\ [Next]_vars => Balance'
  <2>. SUFFICES ASSUME TypeOK, Balance, [Next]_vars PROVE Balance'
    BY Zenon
  <2>0. /\ sem \in Nat /\ Queued \in Nat /\ Erasing \in Nat /\ Posting \in Nat
        /\ StopUnit \in Nat /\ WorkerUnit \in Nat
    BY Zenon, CountsTyped
  <2>1. ASSUME UNCHANGED Units PROVE Balance'
    BY Zenon, <2>1 DEF Balance
  <2>2. ASSUME UNCHANGED <<wpc, spc>> PROVE UNCHANGED <<StopUnit, WorkerUnit>>
    BY Zenon, <2>2 DEF StopUnit, WorkerUnit
  <2>3. ASSUME UNCHANGED queue PROVE UNCHANGED Queued
    BY Zenon, <2>3 DEF Queued
  <2>4. ASSUME NEW r \in Requests,
               \/ NewRequest(r) \/ AddScan(r) \/ CancelBegin(r) \/ CancelQueueId(r)
               \/ CancelDone(r) \/ CancelUnref(r) \/ CancelReady(r)
        PROVE  Balance'
    <3>1. (\A q \in Requests \ {r} : cpc'[q] = cpc[q]) /\ cpc'[r] \notin {"post", "cancel_sem"}
      BY Zenon, <2>4 DEF NewRequest, AddScan, CancelBegin, CancelQueueId, CancelDone,
                  CancelUnref, CancelReady, GoTo, TypeOK
    <3>2. cpc[r] \notin {"post", "cancel_sem"}
      BY Zenon, <2>4 DEF NewRequest, AddScan, CancelBegin, CancelQueueId, CancelDone,
                  CancelUnref, CancelReady
    <3>3. UNCHANGED <<Posting, Erasing>>
      BY Zenon, <3>1, <3>2, ClientsMove
    <3>4. UNCHANGED <<sem, queue, wpc, spc>>
      BY Zenon, <2>4 DEF NewRequest, AddScan, CancelBegin, CancelQueueId, CancelDone,
                  CancelUnref, CancelReady, wvars
    <3>. QED
      BY Zenon, <2>1, <2>2, <2>3, <3>3, <3>4
  <2>5. ASSUME NEW r \in Requests, AddPush(r) PROVE Balance'
    <3>1. cpc[r] = "push" /\ cpc'[r] = "post" /\ \A q \in Requests \ {r} : cpc'[q] = cpc[q]
      BY Zenon, <2>5 DEF AddPush, GoTo, TypeOK
    <3>2. Posting' = Posting + 1 /\ UNCHANGED Erasing
      BY Zenon, <3>1, ClientsMove
    <3>3. Queued' = Queued + 1
      <4>1. get_type(r) \in Ops /\ queue[get_type(r)] \in Seq(Requests)
        BY Zenon DEF Ops, get_type, TypeOK
      <4>2. Len(Append(queue[get_type(r)], r)) = Len(queue[get_type(r)]) + 1
        BY <4>1
      <4>3. /\ queue'[get_type(r)] = Append(queue[get_type(r)], r)
            /\ queue'[OtherOp(get_type(r))] = queue[OtherOp(get_type(r))]
        BY Zenon, <2>5 DEF AddPush, TypeOK, Ops, get_type, OtherOp
      <4>. QED
        BY <4>1, <4>2, <4>3, QueuedChanges
    <3>4. UNCHANGED <<sem, wpc, spc>>
      BY Zenon, <2>5 DEF AddPush, wvars
    <3>. QED
      BY <2>0, <2>2, <3>2, <3>3, <3>4 DEF Balance
  <2>6. ASSUME NEW r \in Requests, AddPost(r) PROVE Balance'
    <3>1. cpc[r] = "post" /\ cpc'[r] = "pending" /\ \A q \in Requests \ {r} : cpc'[q] = cpc[q]
      BY Zenon, <2>6 DEF AddPost, GoTo, TypeOK
    <3>2. Posting' = Posting - 1 /\ UNCHANGED Erasing
      BY Zenon, <3>1, ClientsMove
    <3>3. UNCHANGED <<queue, wpc, spc>> /\ sem' = sem + 1
      BY Zenon, <2>6 DEF AddPost, wvars
    <3>. QED
      BY <2>0, <2>2, <2>3, <3>2, <3>3 DEF Balance
  <2>7. ASSUME NEW r \in Requests, CancelErase(r) PROVE Balance'
    <3>. DEFINE op == get_type(r)
    <3>1. UNCHANGED <<sem, wpc, spc>> /\ cpc[r] = "cancel_lock"
      BY Zenon, <2>7 DEF CancelErase, wvars
    <3>2. CASE UNCHANGED queue /\ GoTo(r, "not_canceled")
      <4>1. cpc'[r] = "not_canceled" /\ \A q \in Requests \ {r} : cpc'[q] = cpc[q]
        BY Zenon, <3>2 DEF GoTo, TypeOK
      <4>2. UNCHANGED <<Posting, Erasing>>
        BY Zenon, <3>1, <4>1, ClientsMove
      <4>. QED
        BY Zenon, <2>1, <2>2, <2>3, <3>1, <3>2, <4>2
    <3>3. ASSUME NEW i \in 1..Len(queue[op]),
                 queue' = [queue EXCEPT ![op] = Erase(@, i)], GoTo(r, "cancel_sem")
          PROVE  Balance'
      <4>0. cpc'[r] = "cancel_sem" /\ \A q \in Requests \ {r} : cpc'[q] = cpc[q]
        BY Zenon, <3>3 DEF GoTo, TypeOK
      <4>1. Erasing' = Erasing + 1 /\ UNCHANGED Posting
        BY Zenon, <3>1, <4>0, ClientsMove
      <4>2. op \in Ops /\ queue[op] \in Seq(Requests)
        BY Zenon DEF TypeOK, Ops, get_type
      <4>3. Len(Erase(queue[op], i)) = Len(queue[op]) + (-1)
        BY Zenon, <4>2, EraseProperties
      <4>5. /\ queue'[op] = Erase(queue[op], i)
            /\ queue'[OtherOp(op)] = queue[OtherOp(op)]
        BY Zenon, <3>3 DEF TypeOK, Ops, get_type, OtherOp
      <4>4. Queued' = Queued + (-1)
        BY <4>2, <4>3, <4>5, QueuedChanges
      <4>. QED
        BY <2>0, <2>2, <3>1, <4>1, <4>4 DEF Balance
    <3>. QED
      BY Zenon, <2>7, <3>2, <3>3 DEF CancelErase
  <2>8. ASSUME NEW r \in Requests, CancelSem(r) PROVE Balance'
    <3>1. cpc[r] = "cancel_sem" /\ cpc'[r] = "cancel_done" /\ \A q \in Requests \ {r} : cpc'[q] = cpc[q]
      BY Zenon, <2>8 DEF CancelSem, GoTo, TypeOK
    <3>2. Erasing' = Erasing - 1 /\ UNCHANGED Posting
      BY Zenon, <3>1, ClientsMove
    <3>3. UNCHANGED <<queue, wpc, spc>> /\ sem' = sem - 1
      BY Zenon, <2>8 DEF CancelSem, wvars
    <3>. QED
      BY <2>0, <2>2, <2>3, <3>2, <3>3 DEF Balance
  <2>9. CASE WorkerPick
    <3>. DEFINE op == IF write_phase THEN "WRITE" ELSE "READ"
    <3>1. UNCHANGED <<sem, spc, cpc>> /\ wpc = "pick"
      BY Zenon, <2>9 DEF WorkerPick
    <3>2. CASE queue[op] # <<>>
      <4>1. wpc' = "serve" /\ queue' = [queue EXCEPT ![op] = Tail(queue[op])]
        BY Zenon, <2>9, <3>2 DEF WorkerPick
      <4>2. op \in Ops /\ queue[op] \in Seq(Requests)
        BY Zenon DEF TypeOK, Ops
      <4>3. Len(Tail(queue[op])) = Len(queue[op]) + (-1)
        BY <3>2, <4>2
      <4>6. /\ queue'[op] = Tail(queue[op])
            /\ queue'[OtherOp(op)] = queue[OtherOp(op)]
        BY Zenon, <4>1 DEF TypeOK, Ops, OtherOp
      <4>7. ASSUME NEW o \in Ops, Len(queue'[o]) = Len(queue[o]) + (-1),
                   queue'[OtherOp(o)] = queue[OtherOp(o)]
            PROVE  Queued' = Queued + (-1)
        BY <4>7, QueuedChanges
      <4>4. Queued' = Queued + (-1)
        BY Zenon, <4>2, <4>3, <4>6, <4>7
      <4>5. WorkerUnit = 1 /\ WorkerUnit' = 0 /\ StopUnit' = StopUnit
        BY Zenon, <3>1, <4>1 DEF WorkerUnit, StopUnit
      <4>. QED
        BY <2>0, <3>1, <4>4, <4>5, ClientsStay DEF Balance
    <3>3. CASE queue[op] = <<>>
      <4>1. wpc' = "inc" /\ UNCHANGED queue
        BY Zenon, <2>9, <3>3 DEF WorkerPick
      <4>2. UNCHANGED <<WorkerUnit, StopUnit>>
        BY Zenon, <3>1, <4>1 DEF WorkerUnit, StopUnit
      <4>. QED
        BY Zenon, <2>1, <2>3, <3>1, <4>1, <4>2, ClientsStay
    <3>. QED
      BY Zenon, <3>2, <3>3
  <2>10. CASE WorkerDec \/ WorkerInc \/ WorkerTDec \/ WorkerTInc
    <3>1. UNCHANGED <<queue, spc, cpc>>
      BY Zenon, <2>10 DEF WorkerDec, WorkerInc, WorkerTDec, WorkerTInc
    <3>2. \/ sem' = sem - 1 /\ WorkerUnit' = WorkerUnit + 1
          \/ sem' = sem + 1 /\ WorkerUnit' = WorkerUnit - 1
      BY <2>0, <2>10 DEF WorkerDec, WorkerInc, WorkerTDec, WorkerTInc, WorkerGoTo, WorkerUnit
    <3>3. StopUnit' = StopUnit
      BY Zenon, <3>1 DEF StopUnit
    <3>4. Queued' = Queued /\ Posting' = Posting /\ Erasing' = Erasing
      BY Zenon, <2>3, <3>1, ClientsStay
    <3>. QED
      BY <2>0, <3>2, <3>3, <3>4 DEF Balance
  <2>11. CASE WorkerServe \/ WorkerDone \/ WorkerHandler \/ WorkerUnref \/ WorkerReady
              \/ WorkerCheck \/ WorkerExit
    <3>1. UNCHANGED <<sem, queue, spc, cpc>>
      BY Zenon, <2>11 DEF WorkerServe, WorkerDone, WorkerHandler, WorkerUnref, WorkerReady,
                   WorkerCheck, WorkerExit
    <3>2. UNCHANGED <<WorkerUnit, StopUnit>>
      BY Zenon, <2>11 DEF WorkerServe, WorkerDone, WorkerHandler, WorkerUnref, WorkerReady,
                   WorkerCheck, WorkerExit, WorkerGoTo, WorkerUnit, StopUnit
    <3>. QED
      BY Zenon, <2>1, <2>3, <3>1, <3>2, ClientsStay
  <2>12. CASE StopBegin \/ StopPost \/ StopJoin
    <3>1. UNCHANGED <<queue, wpc, cpc>>
      BY Zenon, <2>12 DEF StopBegin, StopPost, StopJoin, wvars
    <3>2. \/ sem' = sem /\ StopUnit' = StopUnit
          \/ sem' = sem + 1 /\ StopUnit' = StopUnit + 1
      BY <2>0, <2>12 DEF StopBegin, StopPost, StopJoin, StopUnit
    <3>3. WorkerUnit' = WorkerUnit
      BY Zenon, <3>1 DEF WorkerUnit
    <3>4. Queued' = Queued /\ Posting' = Posting /\ Erasing' = Erasing
      BY Zenon, <2>3, <3>1, ClientsStay
    <3>. QED
      BY <2>0, <3>2, <3>3, <3>4 DEF Balance
  <2>13. CASE UNCHANGED vars \/ \E r \in Requests : WaitReturn(r)
    <3>1. UNCHANGED <<sem, queue, wpc, spc, cpc>>
      BY Zenon, <2>13 DEF vars, wvars, WaitReturn
    <3>. QED
      BY Zenon, <2>1, <2>2, <2>3, <3>1, ClientsStay
  <2>. QED
    BY Zenon, <2>4, <2>5, <2>6, <2>7, <2>8, <2>9, <2>10, <2>11, <2>12, <2>13
    DEF Next, ClientStep, Worker, Stop, Quiescent
<1>3. Balance => SemAccounting
  BY Zenon DEF Balance, SemAccounting, Queued, Erasing, Posting
<1>. QED
  BY <1>1, <1>2, <1>3, Typing, PTL DEF Spec
\* No wake-up is lost: by the accounting, a sleeping worker with no unit to
\* take and no submission under way has empty queues.
THEOREM NoneStranded == Spec => []NoStrandedRequest
<1>1. TypeOK /\ SemAccounting => NoStrandedRequest
  <2>. SUFFICES ASSUME TypeOK, SemAccounting, wpc = "dec", sem = 0, ClientsAt("post") = {}
                PROVE  \A op \in Ops : queue[op] = <<>>
    BY Zenon DEF NoStrandedRequest
  <2>1. /\ Queued \in Nat /\ Erasing \in Nat /\ StopUnit \in Nat
    BY Zenon, CountsTyped
  <2>2. Posting = 0 /\ WorkerUnit = 0
    BY Zenon, FS_EmptySet DEF Posting, WorkerUnit
  <2>3. sem = Queued + Erasing - Posting + StopUnit - WorkerUnit
    BY Zenon DEF SemAccounting, Queued, Erasing, Posting
  <2>4. Queued = 0
    BY <2>1, <2>2, <2>3
  <2>5. Len(queue["READ"]) \in Nat /\ Len(queue["WRITE"]) \in Nat
    BY DEF TypeOK, Ops
  <2>6. \A a, b \in Nat : a + b = 0 => a = 0 /\ b = 0
    OBVIOUS
  <2>7. Len(queue["READ"]) = 0 /\ Len(queue["WRITE"]) = 0
    BY Zenon, <2>4, <2>5, <2>6 DEF Queued
  <2>. QED
    BY <2>7 DEF TypeOK, Ops
<1>. QED
  BY <1>1, Typing, SemaphoreCounts, PTL

\* A canceler blocked on m_sem is waiting for the worker or for a submitter,
\* never for a unit that nobody has.
THEOREM CancelerBlockedByTransit == Spec => []CancelBlockedOnlyByTransit
<1>1. TypeOK /\ SemAccounting => CancelBlockedOnlyByTransit
  <2>. SUFFICES ASSUME TypeOK, SemAccounting, NEW r \in Requests, cpc[r] = "cancel_sem",
                       sem = 0, WorkerUnit # 1, ClientsAt("post") = {}
                PROVE  FALSE
    BY Zenon DEF CancelBlockedOnlyByTransit
  <2>1. Queued \in Nat /\ Erasing \in Nat /\ StopUnit \in Nat
    BY Zenon, CountsTyped
  <2>2. Posting = 0 /\ WorkerUnit = 0
    BY Zenon, FS_EmptySet DEF Posting, WorkerUnit
  <2>3. sem = Queued + Erasing - Posting + StopUnit - WorkerUnit
    BY Zenon DEF SemAccounting, Queued, Erasing, Posting
  <2>4. Erasing = 0
    BY <2>1, <2>2, <2>3
  <2>5. IsFiniteSet(ClientsAt("cancel_sem")) /\ r \in ClientsAt("cancel_sem")
    BY Zenon, RequestsAssumption, FS_Subset DEF ClientsAt
  <2>. QED
    BY Zenon, <2>4, <2>5, FS_EmptySet DEF Erasing
<1>. QED
  BY <1>1, Typing, SemaphoreCounts, PTL

-----------------------------------------------------------------------------
(* The stages of a request. *)

\* A queue in which no request occurs twice, all of them of type op.
GoodQueue(op, s) ==
    \A i \in 1..Len(s) : /\ get_type(s[i]) = op
                         /\ \A j \in 1..Len(s) : s[i] = s[j] => i = j

\* push_back of a request that is not in the queue.
LEMMA AppendGood ==
    ASSUME NEW op, NEW s \in Seq(Requests), NEW r \in Requests,
           GoodQueue(op, s), get_type(r) = op, ~InSeq(r, s)
    PROVE  /\ GoodQueue(op, Append(s, r))
           /\ \A q : InSeq(q, Append(s, r)) <=> InSeq(q, s) \/ q = r
<1>1. /\ Len(Append(s, r)) = Len(s) + 1 /\ Len(s) \in Nat
      /\ \A i \in 1..Len(s) : Append(s, r)[i] = s[i]
      /\ Append(s, r)[Len(s) + 1] = r
  OBVIOUS
<1>. QED
  BY <1>1 DEF GoodQueue, InSeq

\* erase of the request at position i.
LEMMA EraseGood ==
    ASSUME NEW op, NEW s \in Seq(Requests), NEW i \in 1..Len(s), GoodQueue(op, s)
    PROVE  /\ GoodQueue(op, Erase(s, i))
           /\ \A q : InSeq(q, Erase(s, i)) <=> InSeq(q, s) /\ q # s[i]
<1>. DEFINE t == Erase(s, i)
<1>1. /\ Len(s) \in Nat /\ Len(t) = Len(s) - 1
      /\ \A j \in 1..(Len(s) - 1) : t[j] = IF j < i THEN s[j] ELSE s[j + 1]
  <2>1. Len(s) \in Nat
    OBVIOUS
  <2>. QED
    BY Zenon, <2>1, EraseProperties
<1>. HIDE DEF t
<1>2. GoodQueue(op, t)
  BY <1>1 DEF GoodQueue
<1>3. ASSUME NEW q, InSeq(q, t) PROVE InSeq(q, s) /\ q # s[i]
  BY <1>1, <1>3 DEF GoodQueue, InSeq
<1>4. ASSUME NEW q, InSeq(q, s), q # s[i] PROVE InSeq(q, t)
  <2>1. PICK j \in 1..Len(s) : s[j] = q /\ j # i
    BY Zenon, <1>4 DEF InSeq
  <2>2. CASE j < i
    BY <1>1, <2>1, <2>2 DEF InSeq
  <2>3. CASE j > i
    <3>1. j - 1 \in 1..Len(t) /\ t[j - 1] = q
      BY <1>1, <2>1, <2>3
    <3>. QED
      BY Zenon, <3>1 DEF InSeq
  <2>. QED
    BY <1>1, <2>1, <2>2, <2>3
<1>. QED
  BY Zenon, <1>2, <1>3, <1>4 DEF t

\* front() and pop_front().
LEMMA TailGood ==
    ASSUME NEW op, NEW s \in Seq(Requests), s # <<>>, GoodQueue(op, s)
    PROVE  /\ GoodQueue(op, Tail(s))
           /\ Head(s) \in Requests /\ InSeq(Head(s), s) /\ get_type(Head(s)) = op
           /\ \A q : InSeq(q, Tail(s)) <=> InSeq(q, s) /\ q # Head(s)
<1>. DEFINE t == Tail(s)
<1>0. Len(s) \in Nat \ {0} /\ Len(t) = Len(s) - 1 /\ Head(s) = s[1]
  OBVIOUS
<1>1. /\ Len(s) \in Nat \ {0} /\ Len(t) = Len(s) - 1 /\ Head(s) = s[1]
      /\ \A j \in 1..(Len(s) - 1) : t[j] = s[j + 1]
  <2>1. ASSUME NEW j \in 1..(Len(s) - 1) PROVE t[j] = s[j + 1]
    BY <1>0
  <2>. QED
    BY Zenon, <1>0, <2>1
<1>. HIDE DEF t
<1>2. GoodQueue(op, t)
  <2>1. ASSUME NEW i \in 1..Len(t) PROVE i \in 1..(Len(s) - 1) /\ i + 1 \in 1..Len(s)
    BY <1>1
  <2>2. ASSUME NEW i \in 1..Len(t) PROVE t[i] = s[i + 1] /\ i + 1 \in 1..Len(s)
    BY Zenon, <1>1, <2>1
  <2>3. ASSUME NEW i \in 1..Len(t), NEW j \in 1..Len(t), t[i] = t[j] PROVE i = j
    <3>1. i + 1 = j + 1
      BY Zenon, <2>2, <2>3 DEF GoodQueue
    <3>. QED
      BY <3>1
  <2>. QED
    BY Zenon, <2>2, <2>3 DEF GoodQueue
<1>3. Head(s) \in Requests /\ InSeq(Head(s), s) /\ get_type(Head(s)) = op
  BY <1>1 DEF GoodQueue, InSeq
<1>4. ASSUME NEW q, InSeq(q, t) PROVE InSeq(q, s) /\ q # Head(s)
  BY <1>1, <1>4 DEF GoodQueue, InSeq
<1>5. ASSUME NEW q, InSeq(q, s), q # Head(s) PROVE InSeq(q, t)
  <2>1. PICK j \in 1..Len(s) : s[j] = q /\ j # 1
    BY Zenon, <1>1, <1>5 DEF InSeq
  <2>2. j - 1 \in 1..Len(t) /\ t[j - 1] = q
    BY <1>1, <2>1
  <2>. QED
    BY Zenon, <2>2 DEF InSeq
<1>. QED
  BY Zenon, <1>2, <1>3, <1>4, <1>5 DEF t

Stage(r) == NotQueued(r) \/ Waiting(r) \/ InService(r) \/ Finished(r) \/ Withdrawn(r)
WaitTold(r) ==
    waited[r] # "no" => rstate[r] = "READY2DIE" /\ (waited[r] = "threw" <=> m_error[r])
QueuesGood == \A op \in Ops : GoodQueue(op, queue[op])
WorkerHas == wpc \in {"serve", "done", "handler", "unref", "ready"} <=> wreq \in Requests

\* The invariant in parts.
LEMMA LifeCycleParts ==
    LifeCycle <=> QueuesGood /\ WorkerHas /\ \A r \in Requests : Stage(r) /\ WaitTold(r)
BY Zenon DEF LifeCycle, QueuesGood, GoodQueue, WorkerHas, Stage, WaitTold

\* A step does not concern request q.
Same(q) ==
    /\ cpc'[q] = cpc[q] /\ rstate'[q] = rstate[q] /\ m_file'[q] = m_file[q]
    /\ m_error'[q] = m_error[q] /\ served'[q] = served[q] /\ handled'[q] = handled[q]
    /\ waited'[q] = waited[q]
    /\ InQueue(q)' <=> InQueue(q)
    /\ wreq' = q <=> wreq = q
    /\ wreq = q => wpc' = wpc

\* A step leaves the stage of a request alone that it does not concern.
LEMMA StageSame ==
    ASSUME NEW q \in Requests, Same(q)
    PROVE  (Stage(q) => Stage(q)') /\ (WaitTold(q) => WaitTold(q)')
<1>1. NotQueued(q) => NotQueued(q)'
  BY Zenon DEF Same, NotQueued, Fresh
<1>2. Waiting(q) => Waiting(q)'
  BY Zenon DEF Same, Waiting, Fresh, Submitted
<1>3. InService(q) => InService(q)'
  BY Zenon DEF Same, InService, Fresh, Submitted, Transferred
<1>4. Finished(q) => Finished(q)'
  BY Zenon DEF Same, Finished, Submitted, Transferred
<1>5. Withdrawn(q) => Withdrawn(q)'
  BY Zenon DEF Same, Withdrawn
<1>6. WaitTold(q) => WaitTold(q)'
  BY Zenon DEF Same, WaitTold
<1>. QED
  BY Zenon, <1>1, <1>2, <1>3, <1>4, <1>5, <1>6 DEF Stage

\* A step that concerns only request r preserves the invariant if it does
\* so for r.
LEMMA OneMoves ==
    ASSUME LifeCycle, NEW r \in Requests, \A q \in Requests \ {r} : Same(q),
           QueuesGood', WorkerHas', Stage(r)', WaitTold(r)'
    PROVE  LifeCycle'
<1>1. \A q \in Requests : Stage(q)' /\ WaitTold(q)'
  <2>. SUFFICES ASSUME NEW q \in Requests \ {r} PROVE Stage(q)' /\ WaitTold(q)'
    BY Zenon
  <2>1. Same(q) /\ Stage(q) /\ WaitTold(q)
    BY Zenon, LifeCycleParts
  <2>. QED
    BY Zenon, <2>1, StageSame
<1>. QED
  BY Zenon, <1>1 DEF LifeCycle, QueuesGood, GoodQueue, WorkerHas, Stage, WaitTold

\* A step of the client of r that touches neither the queues nor the worker.
LEMMA ClientMoves ==
    ASSUME TypeOK, LifeCycle, NEW r \in Requests, UNCHANGED <<queue, wpc, wreq>>,
           \A q \in Requests \ {r} :
              /\ cpc'[q] = cpc[q] /\ rstate'[q] = rstate[q] /\ m_file'[q] = m_file[q]
              /\ m_error'[q] = m_error[q] /\ served'[q] = served[q]
              /\ handled'[q] = handled[q] /\ waited'[q] = waited[q],
           Stage(r)', WaitTold(r)'
    PROVE  LifeCycle'
<1>1. QueuesGood' /\ WorkerHas'
  BY Zenon, LifeCycleParts DEF QueuesGood, WorkerHas
<1>2. \A q \in Requests \ {r} : Same(q)
  BY Zenon DEF Same, InQueue
<1>. QED
  BY Zenon, <1>1, <1>2, OneMoves
\* Every request is at one stage of its life, whatever clients, worker and
\* owner do: the inductive invariant of the queue.
THEOREM Lives == Spec => []LifeCycle
<1>1. Init => LifeCycle
  BY RequestsAssumption
  DEF Init, LifeCycle, NotQueued, Fresh, InQueue, InSeq, Ops, get_type
<1>2. TypeOK /\ LifeCycle /\ [Next]_vars => LifeCycle'
  <2>. SUFFICES ASSUME TypeOK, LifeCycle, [Next]_vars PROVE LifeCycle'
    BY Zenon
  <2>0. QueuesGood /\ WorkerHas /\ \A r \in Requests : Stage(r) /\ WaitTold(r)
    BY Zenon, LifeCycleParts
  <2>1. ASSUME NEW r \in Requests, NewRequest(r) PROVE LifeCycle'
    <3>1. /\ UNCHANGED <<queue, wpc, wreq>>
          /\ \A q \in Requests \ {r} :
               /\ cpc'[q] = cpc[q] /\ rstate'[q] = rstate[q] /\ m_file'[q] = m_file[q]
               /\ m_error'[q] = m_error[q] /\ served'[q] = served[q]
               /\ handled'[q] = handled[q] /\ waited'[q] = waited[q]
      BY Zenon, <2>1 DEF NewRequest, GoTo, TypeOK, wvars, rvars
    <3>2. InQueue(r)' <=> InQueue(r)
      BY Zenon, <3>1 DEF InQueue
    <3>3. Stage(r)' /\ WaitTold(r)'
      <4>1. Stage(r) /\ WaitTold(r)
        BY Zenon, <2>0
      <4>. QED
        BY Zenon, <2>1, <3>1, <3>2, <4>1
        DEF NewRequest, Stage, WaitTold, NotQueued, Waiting, InService, Finished, Withdrawn,
            Fresh, Submitted, Transferred, TypeOK, GoTo, wvars, rvars
    <3>. QED
      BY Zenon, <3>1, <3>3, ClientMoves
  <2>2. ASSUME NEW r \in Requests, AddScan(r) PROVE LifeCycle'
    <3>1. /\ UNCHANGED <<queue, wpc, wreq>>
          /\ \A q \in Requests \ {r} :
               /\ cpc'[q] = cpc[q] /\ rstate'[q] = rstate[q] /\ m_file'[q] = m_file[q]
               /\ m_error'[q] = m_error[q] /\ served'[q] = served[q]
               /\ handled'[q] = handled[q] /\ waited'[q] = waited[q]
      BY Zenon, <2>2 DEF AddScan, GoTo, TypeOK, wvars, rvars
    <3>2. InQueue(r)' <=> InQueue(r)
      BY Zenon, <3>1 DEF InQueue
    <3>3. Stage(r)' /\ WaitTold(r)'
      <4>1. Stage(r) /\ WaitTold(r)
        BY Zenon, <2>0
      <4>. QED
        BY Zenon, <2>2, <3>1, <3>2, <4>1
        DEF AddScan, Stage, WaitTold, NotQueued, Waiting, InService, Finished, Withdrawn,
            Fresh, Submitted, Transferred, TypeOK, GoTo, wvars, rvars
    <3>. QED
      BY Zenon, <3>1, <3>3, ClientMoves
  <2>3. ASSUME NEW r \in Requests, AddPost(r) PROVE LifeCycle'
    <3>1. /\ UNCHANGED <<queue, wpc, wreq>>
          /\ \A q \in Requests \ {r} :
               /\ cpc'[q] = cpc[q] /\ rstate'[q] = rstate[q] /\ m_file'[q] = m_file[q]
               /\ m_error'[q] = m_error[q] /\ served'[q] = served[q]
               /\ handled'[q] = handled[q] /\ waited'[q] = waited[q]
      BY Zenon, <2>3 DEF AddPost, GoTo, TypeOK, wvars, rvars
    <3>2. InQueue(r)' <=> InQueue(r)
      BY Zenon, <3>1 DEF InQueue
    <3>3. Stage(r)' /\ WaitTold(r)'
      <4>1. Stage(r) /\ WaitTold(r)
        BY Zenon, <2>0
      <4>. QED
        BY Zenon, <2>3, <3>1, <3>2, <4>1
        DEF AddPost, Stage, WaitTold, NotQueued, Waiting, InService, Finished, Withdrawn,
            Fresh, Submitted, Transferred, TypeOK, GoTo, wvars, rvars
    <3>. QED
      BY Zenon, <3>1, <3>3, ClientMoves
  <2>4. ASSUME NEW r \in Requests, CancelBegin(r) PROVE LifeCycle'
    <3>1. /\ UNCHANGED <<queue, wpc, wreq>>
          /\ \A q \in Requests \ {r} :
               /\ cpc'[q] = cpc[q] /\ rstate'[q] = rstate[q] /\ m_file'[q] = m_file[q]
               /\ m_error'[q] = m_error[q] /\ served'[q] = served[q]
               /\ handled'[q] = handled[q] /\ waited'[q] = waited[q]
      BY Zenon, <2>4 DEF CancelBegin, GoTo, TypeOK, wvars, rvars
    <3>2. InQueue(r)' <=> InQueue(r)
      BY Zenon, <3>1 DEF InQueue
    <3>3. Stage(r)' /\ WaitTold(r)'
      <4>1. Stage(r) /\ WaitTold(r)
        BY Zenon, <2>0
      <4>. QED
        BY Zenon, <2>4, <3>1, <3>2, <4>1
        DEF CancelBegin, Stage, WaitTold, NotQueued, Waiting, InService, Finished, Withdrawn,
            Fresh, Submitted, Transferred, TypeOK, GoTo, wvars, rvars
    <3>. QED
      BY Zenon, <3>1, <3>3, ClientMoves
  <2>5. ASSUME NEW r \in Requests, CancelQueueId(r) PROVE LifeCycle'
    <3>1. /\ UNCHANGED <<queue, wpc, wreq>>
          /\ \A q \in Requests \ {r} :
               /\ cpc'[q] = cpc[q] /\ rstate'[q] = rstate[q] /\ m_file'[q] = m_file[q]
               /\ m_error'[q] = m_error[q] /\ served'[q] = served[q]
               /\ handled'[q] = handled[q] /\ waited'[q] = waited[q]
      BY Zenon, <2>5 DEF CancelQueueId, GoTo, TypeOK, wvars, rvars
    <3>2. InQueue(r)' <=> InQueue(r)
      BY Zenon, <3>1 DEF InQueue
    <3>3. Stage(r)' /\ WaitTold(r)'
      <4>1. Stage(r) /\ WaitTold(r)
        BY Zenon, <2>0
      <4>. QED
        BY Zenon, <2>5, <3>1, <3>2, <4>1
        DEF CancelQueueId, Stage, WaitTold, NotQueued, Waiting, InService, Finished, Withdrawn,
            Fresh, Submitted, Transferred, TypeOK, GoTo, wvars, rvars
    <3>. QED
      BY Zenon, <3>1, <3>3, ClientMoves
  <2>6. ASSUME NEW r \in Requests, CancelSem(r) PROVE LifeCycle'
    <3>1. /\ UNCHANGED <<queue, wpc, wreq>>
          /\ \A q \in Requests \ {r} :
               /\ cpc'[q] = cpc[q] /\ rstate'[q] = rstate[q] /\ m_file'[q] = m_file[q]
               /\ m_error'[q] = m_error[q] /\ served'[q] = served[q]
               /\ handled'[q] = handled[q] /\ waited'[q] = waited[q]
      BY Zenon, <2>6 DEF CancelSem, GoTo, TypeOK, wvars, rvars
    <3>2. InQueue(r)' <=> InQueue(r)
      BY Zenon, <3>1 DEF InQueue
    <3>3. Stage(r)' /\ WaitTold(r)'
      <4>1. Stage(r) /\ WaitTold(r)
        BY Zenon, <2>0
      <4>. QED
        BY Zenon, <2>6, <3>1, <3>2, <4>1
        DEF CancelSem, Stage, WaitTold, NotQueued, Waiting, InService, Finished, Withdrawn,
            Fresh, Submitted, Transferred, TypeOK, GoTo, wvars, rvars
    <3>. QED
      BY Zenon, <3>1, <3>3, ClientMoves
  <2>7. ASSUME NEW r \in Requests, CancelDone(r) PROVE LifeCycle'
    <3>1. /\ UNCHANGED <<queue, wpc, wreq>>
          /\ \A q \in Requests \ {r} :
               /\ cpc'[q] = cpc[q] /\ rstate'[q] = rstate[q] /\ m_file'[q] = m_file[q]
               /\ m_error'[q] = m_error[q] /\ served'[q] = served[q]
               /\ handled'[q] = handled[q] /\ waited'[q] = waited[q]
      BY Zenon, <2>7 DEF CancelDone, GoTo, TypeOK, wvars, rvars
    <3>2. InQueue(r)' <=> InQueue(r)
      BY Zenon, <3>1 DEF InQueue
    <3>3. Stage(r)' /\ WaitTold(r)'
      <4>1. Stage(r) /\ WaitTold(r)
        BY Zenon, <2>0
      <4>. QED
        BY Zenon, <2>7, <3>1, <3>2, <4>1
        DEF CancelDone, Stage, WaitTold, NotQueued, Waiting, InService, Finished, Withdrawn,
            Fresh, Submitted, Transferred, TypeOK, GoTo, wvars, rvars
    <3>. QED
      BY Zenon, <3>1, <3>3, ClientMoves
  <2>8. ASSUME NEW r \in Requests, CancelUnref(r) PROVE LifeCycle'
    <3>1. /\ UNCHANGED <<queue, wpc, wreq>>
          /\ \A q \in Requests \ {r} :
               /\ cpc'[q] = cpc[q] /\ rstate'[q] = rstate[q] /\ m_file'[q] = m_file[q]
               /\ m_error'[q] = m_error[q] /\ served'[q] = served[q]
               /\ handled'[q] = handled[q] /\ waited'[q] = waited[q]
      BY Zenon, <2>8 DEF CancelUnref, GoTo, TypeOK, wvars, rvars
    <3>2. InQueue(r)' <=> InQueue(r)
      BY Zenon, <3>1 DEF InQueue
    <3>3. Stage(r)' /\ WaitTold(r)'
      <4>1. Stage(r) /\ WaitTold(r)
        BY Zenon, <2>0
      <4>. QED
        BY Zenon, <2>8, <3>1, <3>2, <4>1
        DEF CancelUnref, Stage, WaitTold, NotQueued, Waiting, InService, Finished, Withdrawn,
            Fresh, Submitted, Transferred, TypeOK, GoTo, wvars, rvars
    <3>. QED
      BY Zenon, <3>1, <3>3, ClientMoves
  <2>9. ASSUME NEW r \in Requests, CancelReady(r) PROVE LifeCycle'
    <3>1. /\ UNCHANGED <<queue, wpc, wreq>>
          /\ \A q \in Requests \ {r} :
               /\ cpc'[q] = cpc[q] /\ rstate'[q] = rstate[q] /\ m_file'[q] = m_file[q]
               /\ m_error'[q] = m_error[q] /\ served'[q] = served[q]
               /\ handled'[q] = handled[q] /\ waited'[q] = waited[q]
      BY Zenon, <2>9 DEF CancelReady, GoTo, TypeOK, wvars, rvars
    <3>2. InQueue(r)' <=> InQueue(r)
      BY Zenon, <3>1 DEF InQueue
    <3>3. Stage(r)' /\ WaitTold(r)'
      <4>1. Stage(r) /\ WaitTold(r)
        BY Zenon, <2>0
      <4>. QED
        BY Zenon, <2>9, <3>1, <3>2, <4>1
        DEF CancelReady, Stage, WaitTold, NotQueued, Waiting, InService, Finished, Withdrawn,
            Fresh, Submitted, Transferred, TypeOK, GoTo, wvars, rvars
    <3>. QED
      BY Zenon, <3>1, <3>3, ClientMoves
  <2>10. ASSUME NEW r \in Requests, WaitReturn(r) PROVE LifeCycle'
    <3>1. /\ UNCHANGED <<queue, wpc, wreq>>
          /\ \A q \in Requests \ {r} :
               /\ cpc'[q] = cpc[q] /\ rstate'[q] = rstate[q] /\ m_file'[q] = m_file[q]
               /\ m_error'[q] = m_error[q] /\ served'[q] = served[q]
               /\ handled'[q] = handled[q] /\ waited'[q] = waited[q]
      BY Zenon, <2>10 DEF WaitReturn, GoTo, TypeOK, wvars, rvars
    <3>2. InQueue(r)' <=> InQueue(r)
      BY Zenon, <3>1 DEF InQueue
    <3>3. Stage(r)' /\ WaitTold(r)'
      <4>1. Stage(r) /\ WaitTold(r)
        BY Zenon, <2>0
      <4>. QED
        BY Zenon, <2>10, <3>1, <3>2, <4>1
        DEF WaitReturn, Stage, WaitTold, NotQueued, Waiting, InService, Finished, Withdrawn,
            Fresh, Submitted, Transferred, TypeOK, GoTo, wvars, rvars
    <3>. QED
      BY Zenon, <3>1, <3>3, ClientMoves
  <2>11. ASSUME NEW r \in Requests, AddPush(r) PROVE LifeCycle'
    <3>. DEFINE op == get_type(r)
                s == queue[op]
    <3>1. op \in Ops /\ s \in Seq(Requests) /\ GoodQueue(op, s)
      BY Zenon, <2>0 DEF QueuesGood, TypeOK, Ops, get_type
    <3>2. /\ queue'[op] = Append(s, r)
          /\ \A o \in Ops \ {op} : queue'[o] = queue[o]
          /\ UNCHANGED <<wpc, wreq>>
      BY Zenon, <2>11, <3>1 DEF AddPush, TypeOK, wvars
    <3>3. Stage(r) /\ WaitTold(r) /\ NotQueued(r)
      BY Zenon, <2>0, <2>11 DEF AddPush, Stage, NotQueued, Waiting, InService, Finished, Withdrawn,
                         Submitted
    <3>4. ~InSeq(r, s)
      BY Zenon, <3>3 DEF NotQueued, InQueue
    <3>5. /\ GoodQueue(op, Append(s, r))
          /\ \A q : InSeq(q, Append(s, r)) <=> InSeq(q, s) \/ q = r
      BY Zenon, <3>1, <3>4, AppendGood
    <3>6. QueuesGood' /\ WorkerHas'
      BY Zenon, <2>0, <3>2, <3>5 DEF QueuesGood, WorkerHas
    <3>7. ASSUME NEW q \in Requests PROVE InQueue(q)' <=> InQueue(q) \/ q = r
      <4>1. CASE get_type(q) = op
        BY Zenon, <3>2, <3>5, <4>1 DEF InQueue
      <4>2. CASE get_type(q) # op
        <5>1. queue'[get_type(q)] = queue[get_type(q)] /\ q # r
          BY Zenon, <3>2, <4>2 DEF get_type, Ops
        <5>. QED
          BY Zenon, <5>1 DEF InQueue
      <4>. QED
        BY Zenon, <4>1, <4>2
    <3>8. \A q \in Requests \ {r} : Same(q)
      BY Zenon, <2>11, <3>2, <3>7 DEF AddPush, GoTo, TypeOK, rvars, Same
    <3>9. Stage(r)' /\ WaitTold(r)'
      <4>1. cpc'[r] = "post" /\ InQueue(r)' /\ m_file[r]
        BY Zenon, <2>11, <3>3, <3>7 DEF AddPush, GoTo, TypeOK, NotQueued
      <4>. QED
        BY Zenon, <2>11, <3>2, <3>3, <4>1
        DEF AddPush, Stage, WaitTold, NotQueued, Waiting, Fresh, Submitted, rvars
    <3>. QED
      BY Zenon, <3>6, <3>8, <3>9, OneMoves
  <2>12. ASSUME NEW r \in Requests, CancelErase(r) PROVE LifeCycle'
    <3>. DEFINE op == get_type(r)
                s == queue[op]
    <3>1. op \in Ops /\ s \in Seq(Requests) /\ GoodQueue(op, s)
      BY Zenon, <2>0 DEF QueuesGood, TypeOK, Ops, get_type
    <3>2. /\ UNCHANGED <<wpc, wreq, rvars, waited>> /\ cpc[r] = "cancel_lock"
          /\ \A q \in Requests \ {r} : cpc'[q] = cpc[q]
      BY Zenon, <2>12 DEF CancelErase, TypeOK, wvars, GoTo
    <3>3. Stage(r) /\ WaitTold(r)
      BY Zenon, <2>0
    <3>4. CASE UNCHANGED queue /\ GoTo(r, "not_canceled")
      <4>1. InQueue(r)' <=> InQueue(r)
        BY Zenon, <3>4 DEF InQueue
      <4>2. Stage(r)' /\ WaitTold(r)'
        BY Zenon, <3>2, <3>3, <3>4, <4>1
        DEF rvars, Stage, WaitTold, NotQueued, Waiting, InService, Finished, Withdrawn,
            Fresh, Submitted, Transferred, TypeOK, GoTo
      <4>. QED
        BY Zenon, <3>2, <3>4, <4>2, ClientMoves DEF rvars
    <3>5. ASSUME NEW i \in 1..Len(s), s[i] = r, queue' = [queue EXCEPT ![op] = Erase(@, i)],
                 GoTo(r, "cancel_sem")
          PROVE  LifeCycle'
      <4>1. /\ queue'[op] = Erase(s, i)
            /\ \A o \in Ops \ {op} : queue'[o] = queue[o]
        BY Zenon, <3>1, <3>5 DEF TypeOK
      <4>2. /\ GoodQueue(op, Erase(s, i))
            /\ \A q : InSeq(q, Erase(s, i)) <=> InSeq(q, s) /\ q # r
        BY Zenon, <3>1, <3>5, EraseGood
      <4>3. QueuesGood' /\ WorkerHas'
        BY Zenon, <2>0, <3>2, <4>1, <4>2 DEF QueuesGood, WorkerHas
      <4>4. ASSUME NEW q \in Requests PROVE InQueue(q)' <=> InQueue(q) /\ q # r
        <5>1. CASE get_type(q) = op
          BY Zenon, <4>1, <4>2, <5>1 DEF InQueue
        <5>2. CASE get_type(q) # op
          <6>1. queue'[get_type(q)] = queue[get_type(q)] /\ q # r
            BY Zenon, <4>1, <5>2 DEF get_type, Ops
          <6>. QED
            BY Zenon, <6>1 DEF InQueue
        <5>. QED
          BY Zenon, <5>1, <5>2
      <4>5. \A q \in Requests \ {r} : Same(q)
        BY Zenon, <3>2, <4>4 DEF rvars, Same
      <4>6. Waiting(r)
        <5>1. InQueue(r)
          BY Zenon, <3>5 DEF InQueue, InSeq
        <5>. QED
          BY Zenon, <3>3, <5>1 DEF Stage, NotQueued, InService, Finished, Withdrawn
      <4>7. Stage(r)' /\ WaitTold(r)'
        <5>1. cpc'[r] = "cancel_sem" /\ ~InQueue(r)'
          BY Zenon, <3>5, <4>4 DEF GoTo, TypeOK
        <5>. QED
          BY Zenon, <3>2, <3>3, <4>6, <5>1
          DEF rvars, Stage, WaitTold, Waiting, Withdrawn, Fresh, Submitted
      <4>. QED
        BY Zenon, <4>3, <4>5, <4>7, OneMoves
    <3>. QED
      BY Zenon, <2>12, <3>4, <3>5 DEF CancelErase
  <2>13. CASE WorkerPick
    <3>. DEFINE op == IF write_phase THEN "WRITE" ELSE "READ"
                s == queue[op]
    <3>1. op \in Ops /\ s \in Seq(Requests) /\ GoodQueue(op, s)
      BY Zenon, <2>0 DEF QueuesGood, TypeOK, Ops
    <3>2. UNCHANGED <<cpc, rvars, waited>> /\ wpc = "pick" /\ wreq \notin Requests
      BY Zenon, <2>0, <2>13 DEF WorkerPick, WorkerHas
    <3>3. CASE s # <<>>
      <4>0. PICK r \in Requests : r = Head(s)
        BY Zenon, <3>1, <3>3, TailGood
      <4>1. /\ wreq' = r /\ wpc' = "serve" /\ queue'[op] = Tail(s)
            /\ \A o \in Ops \ {op} : queue'[o] = queue[o]
        BY Zenon, <2>13, <3>1, <3>3, <4>0 DEF WorkerPick, TypeOK
      <4>2. /\ GoodQueue(op, Tail(s))
            /\ r \in Requests /\ InSeq(r, s) /\ get_type(r) = op
            /\ \A q : InSeq(q, Tail(s)) <=> InSeq(q, s) /\ q # r
        BY Zenon, <3>1, <3>3, <4>0, TailGood
      <4>3. QueuesGood' /\ WorkerHas'
        BY Zenon, <2>0, <4>1, <4>2 DEF QueuesGood, WorkerHas
      <4>4. ASSUME NEW q \in Requests PROVE InQueue(q)' <=> InQueue(q) /\ q # r
        <5>1. CASE get_type(q) = op
          BY Zenon, <4>1, <4>2, <5>1 DEF InQueue
        <5>2. CASE get_type(q) # op
          <6>1. queue'[get_type(q)] = queue[get_type(q)] /\ q # r
            BY Zenon, <4>1, <4>2, <5>2 DEF get_type, Ops
          <6>. QED
            BY Zenon, <6>1 DEF InQueue
        <5>. QED
          BY Zenon, <5>1, <5>2
      <4>5. \A q \in Requests \ {r} : Same(q)
        BY Zenon, <3>2, <4>1, <4>4 DEF rvars, Same
      <4>6. Stage(r) /\ WaitTold(r) /\ InQueue(r)
        BY Zenon, <2>0, <4>2 DEF InQueue
      <4>7. Waiting(r)
        BY Zenon, <4>6 DEF Stage, NotQueued, InService, Finished, Withdrawn
      <4>8. Stage(r)' /\ WaitTold(r)'
        <5>1. ~InQueue(r)'
          BY Zenon, <4>2, <4>4
        <5>. QED
          BY Zenon, <3>2, <4>1, <4>6, <4>7, <5>1
          DEF rvars, Stage, WaitTold, Waiting, InService, Fresh, Submitted
      <4>. QED
        BY Zenon, <4>2, <4>3, <4>5, <4>8, OneMoves
    <3>4. CASE s = <<>>
      <4>1. wpc' = "inc" /\ UNCHANGED <<queue, wreq>>
        BY Zenon, <2>13, <3>4 DEF WorkerPick
      <4>2. \A q \in Requests : Same(q)
        BY Zenon, <3>2, <4>1 DEF rvars, Same, InQueue
      <4>3. QueuesGood' /\ WorkerHas'
        BY Zenon, <2>0, <3>2, <4>1 DEF QueuesGood, WorkerHas
      <4>. QED
        BY Zenon, <2>0, <4>2, <4>3, StageSame
        DEF LifeCycle, QueuesGood, GoodQueue, WorkerHas, Stage, WaitTold
    <3>. QED
      BY Zenon, <3>3, <3>4
  <2>14. CASE WorkerServe \/ WorkerDone \/ WorkerHandler \/ WorkerUnref \/ WorkerReady
    <3>1. PICK r \in Requests : r = wreq
      BY Zenon, <2>0, <2>14
      DEF WorkerHas, WorkerServe, WorkerDone, WorkerHandler, WorkerUnref, WorkerReady, WorkerGoTo
    <3>2. /\ UNCHANGED <<queue, cpc, waited>>
          /\ \A q \in Requests \ {r} :
               /\ rstate'[q] = rstate[q] /\ m_file'[q] = m_file[q] /\ m_error'[q] = m_error[q]
               /\ served'[q] = served[q] /\ handled'[q] = handled[q]
               /\ wreq # q /\ wreq' # q
      BY Zenon, <2>14, <3>1, RequestsAssumption
      DEF WorkerServe, WorkerDone, WorkerHandler, WorkerUnref, WorkerReady, TypeOK
    <3>3. \A q \in Requests \ {r} : Same(q)
      BY Zenon, <3>2 DEF Same, InQueue
    <3>4. QueuesGood' /\ WorkerHas'
      <4>1. WorkerHas'
        BY Zenon, <2>0, <2>14, <3>1, RequestsAssumption
        DEF WorkerHas, WorkerServe, WorkerDone, WorkerHandler, WorkerUnref, WorkerReady, WorkerGoTo
      <4>. QED
        BY Zenon, <2>0, <3>2, <4>1 DEF QueuesGood
    <3>5. Stage(r) /\ WaitTold(r)
      BY Zenon, <2>0
    <3>6. InService(r) /\ (InQueue(r)' <=> InQueue(r))
      BY Zenon, <3>1, <3>2, <3>5 DEF Stage, NotQueued, Waiting, Finished, Withdrawn, InQueue
    <3>7. Stage(r)' /\ WaitTold(r)'
      <4>1. CASE WorkerServe
        <5>1. /\ wpc = "serve" /\ wpc' = "done" /\ wreq' = r
              /\ rstate'[r] = rstate[r] /\ handled'[r] = handled[r] /\ m_file'[r] = m_file[r]
          BY Zenon, <3>1, <4>1 DEF WorkerServe, WorkerGoTo
        <5>3. Fresh(r)
          BY Zenon, <3>6, <5>1 DEF InService
        <5>4. Transferred(r)'
          <6>1. CASE served' = [served EXCEPT ![wreq] = @ + 1] /\ m_error' = m_error
            BY <3>1, <5>3, <6>1 DEF Fresh, Transferred, TypeOK
          <6>2. CASE served' = served /\ m_error' = [m_error EXCEPT ![wreq] = TRUE]
            BY Zenon, <3>1, <5>3, <6>2 DEF Fresh, Transferred, TypeOK
          <6>. QED
            BY Zenon, <4>1, <6>1, <6>2 DEF WorkerServe
        <5>2. waited[r] = "no"
          BY Zenon, <3>5, <3>6, <5>1 DEF WaitTold, InService, Fresh
        <5>. QED
          BY Zenon, <3>1, <3>2, <3>6, <5>1, <5>2, <5>3, <5>4
          DEF Stage, WaitTold, InService, Fresh, Submitted
      <4>2. CASE WorkerDone
        <5>1. /\ wpc = "done" /\ wpc' = "handler" /\ wreq' = r
              /\ rstate'[r] = "DONE" /\ handled'[r] = handled[r] /\ m_file'[r] = m_file[r]
              /\ served'[r] = served[r] /\ m_error'[r] = m_error[r]
          BY Zenon, <3>1, <4>2 DEF WorkerDone, WorkerGoTo, TypeOK
        <5>2. waited[r] = "no"
          BY Zenon, <3>5, <3>6, <5>1 DEF WaitTold, InService, Fresh
        <5>. QED
          BY Zenon, <3>1, <3>2, <3>6, <5>1, <5>2
          DEF Stage, WaitTold, InService, Fresh, Submitted, Transferred
      <4>3. CASE WorkerHandler
        <5>1. /\ wpc = "handler" /\ wpc' = "unref" /\ wreq' = r
              /\ rstate'[r] = rstate[r] /\ handled'[r] = handled[r] + 1 /\ m_file'[r] = m_file[r]
              /\ served'[r] = served[r] /\ m_error'[r] = m_error[r]
          BY Zenon, <3>1, <4>3 DEF WorkerHandler, WorkerGoTo, TypeOK
        <5>2. waited[r] = "no"
          BY Zenon, <3>5, <3>6, <5>1 DEF WaitTold, InService, Fresh
        <5>3. handled[r] = 0 /\ handled'[r] = 1
          BY <3>6, <5>1 DEF InService, Fresh
        <5>. QED
          BY Zenon, <3>1, <3>2, <3>6, <5>1, <5>2, <5>3
          DEF Stage, WaitTold, InService, Fresh, Submitted, Transferred
      <4>4. CASE WorkerUnref
        <5>1. /\ wpc = "unref" /\ wpc' = "ready" /\ wreq' = r
              /\ rstate'[r] = rstate[r] /\ handled'[r] = handled[r] /\ m_file'[r] = FALSE
              /\ served'[r] = served[r] /\ m_error'[r] = m_error[r]
          BY Zenon, <3>1, <4>4 DEF WorkerUnref, WorkerGoTo, TypeOK
        <5>2. waited[r] = "no"
          BY Zenon, <3>5, <3>6, <5>1 DEF WaitTold, InService, Fresh
        <5>. QED
          BY Zenon, <3>1, <3>2, <3>6, <5>1, <5>2
          DEF Stage, WaitTold, InService, Fresh, Submitted, Transferred
      <4>5. CASE WorkerReady
        <5>1. /\ wpc = "ready" /\ wreq' = NoReq
              /\ rstate'[r] = "READY2DIE" /\ handled'[r] = handled[r] /\ m_file'[r] = m_file[r]
              /\ served'[r] = served[r] /\ m_error'[r] = m_error[r]
          BY Zenon, <3>1, <4>5 DEF WorkerReady, WorkerGoTo, TypeOK
        <5>2. waited[r] = "no"
          BY Zenon, <3>5, <3>6, <5>1 DEF WaitTold, InService, Fresh
        <5>. QED
          BY Zenon, <3>1, <3>2, <3>6, <5>1, <5>2, RequestsAssumption
          DEF Stage, WaitTold, InService, Finished, Fresh, Submitted, Transferred
      <4>. QED
        BY Zenon, <2>14, <4>1, <4>2, <4>3, <4>4, <4>5
    <3>. QED
      BY Zenon, <3>3, <3>4, <3>7, OneMoves
  <2>15. CASE \/ WorkerDec \/ WorkerInc \/ WorkerTDec \/ WorkerTInc \/ WorkerCheck \/ WorkerExit
              \/ StopBegin \/ StopPost \/ StopJoin \/ UNCHANGED vars
    <3>1. UNCHANGED <<queue, wreq, cpc, rvars, waited>> /\ WorkerHas'
      BY Zenon, <2>0, <2>15
      DEF WorkerDec, WorkerInc, WorkerTDec, WorkerTInc, WorkerCheck, WorkerExit, StopBegin,
          StopPost, StopJoin, vars, wvars, WorkerGoTo, WorkerHas
    <3>2. wreq \in Requests => wpc' = wpc
      BY Zenon, <2>0, <2>15
      DEF WorkerDec, WorkerInc, WorkerTDec, WorkerTInc, WorkerCheck, WorkerExit, StopBegin,
          StopPost, StopJoin, vars, wvars, WorkerGoTo, WorkerHas
    <3>3. \A q \in Requests : Same(q)
      BY Zenon, <3>1, <3>2 DEF rvars, Same, InQueue
    <3>4. QueuesGood'
      BY Zenon, <2>0, <3>1 DEF QueuesGood
    <3>. QED
      BY Zenon, <2>0, <3>1, <3>3, <3>4, StageSame
      DEF LifeCycle, QueuesGood, GoodQueue, WorkerHas, Stage, WaitTold
  <2>. QED
    BY Zenon, <2>1, <2>2, <2>3, <2>4, <2>5, <2>6, <2>7, <2>8, <2>9, <2>10, <2>11, <2>12, <2>13,
       <2>14, <2>15
    DEF Next, ClientStep, Worker, Stop, Quiescent
<1>. QED
  BY <1>1, <1>2, Typing, PTL DEF Spec

-----------------------------------------------------------------------------
(* What follows from the life cycle. *)

\* No request is transferred or reported twice, and a canceled one is
\* neither: served and handled never exceed 1, and stay 0 after a successful
\* cancel_request.
THEOREM ServedAtMostOnce == Spec => []AtMostOnce
<1>1. TypeOK /\ LifeCycle => AtMostOnce
  <2>. SUFFICES ASSUME TypeOK, LifeCycle, NEW r \in Requests
                PROVE  /\ served[r] + handled[r] > 0 => ~Canceled(r)
                       /\ served[r] <= 1 /\ handled[r] <= 1
    BY Zenon DEF AtMostOnce
  <2>1. Stage(r)
    BY Zenon, LifeCycleParts
  <2>2. CASE served[r] = 0 /\ handled[r] = 0
    BY <2>2
  <2>3. CASE ~Canceled(r) /\ served[r] \in {0, 1} /\ handled[r] \in {0, 1}
    BY <2>3
  <2>4. CASE NotQueued(r) \/ Waiting(r) \/ Withdrawn(r)
    BY Zenon, <2>2, <2>4 DEF NotQueued, Waiting, Withdrawn, Fresh
  <2>5. CASE InService(r) \/ Finished(r)
    <3>1. ~Canceled(r)
      BY Zenon, <2>5 DEF InService, Finished, Submitted, Canceled
    <3>2. served[r] \in {0, 1} /\ handled[r] \in {0, 1}
      BY Zenon, <2>5 DEF InService, Finished, Fresh, Transferred
    <3>. QED
      BY Zenon, <2>3, <3>1, <3>2
  <2>. QED
    BY Zenon, <2>1, <2>4, <2>5 DEF Stage
<1>. QED
  BY <1>1, Typing, Lives, PTL

\* When wait() returns, the request is finished for good: its handler ran
\* unless it was canceled, its transfer took place or its error is what
\* wait() threw, and it holds no reference to its file.
THEOREM WaitIsFinal == Spec => []WaitSeesCompletion
<1>1. TypeOK /\ LifeCycle => WaitSeesCompletion
  <2>. SUFFICES ASSUME TypeOK, LifeCycle, NEW r \in Requests, waited[r] # "no"
                PROVE  /\ ~m_file[r]
                       /\ handled[r] = (IF Canceled(r) THEN 0 ELSE 1)
                       /\ waited[r] = "threw" <=> m_error[r]
                       /\ ~Canceled(r) => served[r] = (IF m_error[r] THEN 0 ELSE 1)
    BY Zenon DEF WaitSeesCompletion
  <2>1. Stage(r) /\ WaitTold(r)
    BY Zenon, LifeCycleParts
  <2>2. rstate[r] = "READY2DIE" /\ (waited[r] = "threw" <=> m_error[r])
    BY Zenon, <2>1 DEF WaitTold
  <2>. QED
    BY Zenon, <2>1, <2>2 DEF Stage, NotQueued, Waiting, InService, Finished, Withdrawn, Fresh,
                      Submitted, Transferred, Canceled
<1>. QED
  BY <1>1, Typing, Lives, PTL

\* The state of a request only moves forward: OP, DONE, READY2DIE.
THEOREM StatesAdvance == Spec => StateForward
<1>. DEFINE Forward == \A r \in Requests :
                         /\ rstate[r] = "DONE" => rstate'[r] # "OP"
                         /\ rstate[r] = "READY2DIE" => rstate'[r] = "READY2DIE"
<1>1. TypeOK /\ LifeCycle /\ [Next]_vars => [Forward]_vars
  <2>. SUFFICES ASSUME TypeOK, LifeCycle, [Next]_vars, NEW q \in Requests
                PROVE  /\ rstate[q] = "DONE" => rstate'[q] # "OP"
                       /\ rstate[q] = "READY2DIE" => rstate'[q] = "READY2DIE"
    BY Zenon
  <2>0. Stage(q)
    BY Zenon, LifeCycleParts
  <2>1. CASE rstate' = rstate
    BY Zenon, <2>1
  <2>2. ASSUME NEW r \in Requests, CancelDone(r) \/ CancelReady(r)
        PROVE  /\ rstate[q] = "DONE" => rstate'[q] # "OP"
               /\ rstate[q] = "READY2DIE" => rstate'[q] = "READY2DIE"
    <3>1. CASE q = r
      BY Zenon, <2>0, <2>2, <3>1
      DEF CancelDone, CancelReady, TypeOK, Stage, NotQueued, Waiting, InService, Finished,
          Withdrawn, Fresh, Submitted
    <3>2. CASE q # r
      BY Zenon, <2>2, <3>2 DEF CancelDone, CancelReady, TypeOK
    <3>. QED
      BY Zenon, <3>1, <3>2
  <2>3. CASE WorkerDone \/ WorkerReady
    <3>1. CASE q = wreq
      BY Zenon, <2>0, <2>3, <3>1
      DEF WorkerDone, WorkerReady, WorkerGoTo, TypeOK, Stage, NotQueued, Waiting, InService,
          Finished, Withdrawn, Fresh, Submitted
    <3>2. CASE q # wreq
      BY Zenon, <2>3, <3>2 DEF WorkerDone, WorkerReady, TypeOK
    <3>. QED
      BY Zenon, <3>1, <3>2
  <2>. QED
    BY Zenon, <2>1, <2>2, <2>3
    DEF Next, ClientStep, NewRequest, AddScan, AddPush, AddPost, CancelBegin, CancelQueueId,
        CancelErase, CancelSem, CancelUnref, WaitReturn, Worker, WorkerDec, WorkerPick,
        WorkerInc, WorkerServe, WorkerHandler, WorkerUnref, WorkerCheck, WorkerTDec, WorkerTInc,
        WorkerExit, StopBegin, Stop, StopPost, StopJoin, Quiescent, vars, rvars
<1>. QED
  BY <1>1, Typing, Lives, PTL DEF Spec, StateForward
=============================================================================
