---------------------------- MODULE AioQueueProofs ----------------------------
(***************************************************************************)
(* The accounting of the linuxaio queue, for any finite set of requests    *)
(* and any length of the queue: the three semaphores are exact, and a      *)
(* request is in one place.                                                *)
(***************************************************************************)
EXTENDS AioQueue, TLAPS

\* The facts about finite sets the proofs use.  (They are proved at the end.)
SetSizes ==
    /\ Cardinality({}) = 0
    /\ \A S : IsFiniteSet(S) => Cardinality(S) \in Nat
    /\ \A S, T : (IsFiniteSet(S) /\ T \subseteq S) => IsFiniteSet(T)
    /\ \A S, x : (IsFiniteSet(S) /\ x \notin S) => Cardinality(S \cup {x}) = Cardinality(S) + 1
    /\ \A S, x : (IsFiniteSet(S) /\ x \in S) => Cardinality(S \ {x}) = Cardinality(S) - 1

\* Before the constructor has set up the io context nothing is under way.
NotStarted ==
    phase # "run" =>
        /\ num_posted = 0 /\ InKernel = {}
        /\ pc = [t \in Threads |-> "sem"] /\ owner = "alive"
        /\ \A r \in AioRequests : cpc[r] = "new"

\* The loop of the constructor: a length that was asked for, or one that
\* io_setup does not grant.
LengthKnown ==
    /\ max_events \in Int /\ max_events < IntLimit
    /\ phase = "setup" => max_events \in Lengths \/ max_events > KernelMax \/ max_events < 1
    /\ phase = "run" => max_events \in Lengths

\* Where a thread is decides what it holds.
ThreadsKnown ==
    /\ pc["post"] \in {"sem", "check", "pop", "free", "submit", "get", "event", "dec", "push", "exit"}
    /\ pc["wait"] \in {"sem", "check", "get", "restore", "event", "dec", "exit"}
    /\ pc["post"] \in {"sem", "check", "pop", "exit"} => cur = {}
    /\ pc["post"] \in {"free", "submit", "get", "event", "dec", "push"} =>
           \E c \in AioRequests : cur = {c}
    /\ pc["post"] # "push" => cur \cap InKernel = {}
    /\ \A t \in Threads : pc[t] \notin {"restore", "event", "dec"} => events[t] = {}

\* No request is twice in waiting_requests.
WaitingOnce == \A i, j \in DOMAIN waiting : waiting[i] = waiting[j] => i = j

AioInv ==
    /\ TypeOK /\ NotStarted /\ LengthKnown /\ ThreadsKnown /\ WaitingOnce /\ OnePlace
    /\ FreeEventsExact /\ WaitingExact /\ PostedExact

\* How many clients are at l.
Clients(l) == Cardinality({r \in AioRequests : cpc[r] = l})
-----------------------------------------------------------------------------
(* Lemmas on sequences and on cardinalities. *)

\* Erase(s, i) is s without its element at i.
LEMMA EraseProperties ==
    ASSUME NEW S, NEW s \in Seq(S), NEW i \in 1..Len(s)
    PROVE  /\ Erase(s, i) \in Seq(S)
           /\ Len(Erase(s, i)) = Len(s) - 1
           /\ \A k \in 1..(Len(s) - 1) : Erase(s, i)[k] = IF k < i THEN s[k] ELSE s[k + 1]
<1>1. Len(s) \in Nat /\ Len(s) - 1 \in Nat
  OBVIOUS
<1>2. \A k \in 1..(Len(s) - 1) : (IF k < i THEN s[k] ELSE s[k + 1]) \in S
  OBVIOUS
<1>3. Erase(s, i) \in [1..(Len(s) - 1) -> S]
  BY Zenon, <1>2 DEF Erase
<1>4. Erase(s, i) \in Seq(S) /\ Len(Erase(s, i)) = Len(s) - 1
  BY <1>1, <1>3
<1> QED BY Zenon, <1>4 DEF Erase

\* A client comes to a place, or leaves it.
LEMMA ClientArrives ==
    ASSUME AioConstants, SetSizes, NEW r \in AioRequests, cpc \in [AioRequests -> ClientPcs],
           NEW l \in ClientPcs, cpc' = [cpc EXCEPT ![r] = l], cpc[r] # l
    PROVE  Clients(l)' = Clients(l) + 1
<1> DEFINE A == {q \in AioRequests : cpc[q] = l}
           Z == {q \in AioRequests : cpc'[q] = l}
<1>1. IsFiniteSet(A)
  BY Zenon, A \subseteq AioRequests DEF AioConstants, SetSizes
<1>2. Z = A \cup {r} /\ r \notin A
  BY Zenon
<1>3. Cardinality(Z) = Cardinality(A) + 1
  BY Zenon, <1>1, <1>2 DEF SetSizes
<1> QED BY Zenon, <1>3 DEF Clients

\* One client less is where the moving client was.
LEMMA ClientLeaves ==
    ASSUME AioConstants, SetSizes, NEW r \in AioRequests, cpc \in [AioRequests -> ClientPcs],
           NEW l \in ClientPcs, cpc' = [cpc EXCEPT ![r] = l], NEW k, cpc[r] = k, k # l
    PROVE  Clients(k)' = Clients(k) - 1
<1> DEFINE A == {q \in AioRequests : cpc[q] = k}
           Z == {q \in AioRequests : cpc'[q] = k}
<1>1. IsFiniteSet(A)
  BY Zenon, A \subseteq AioRequests DEF AioConstants, SetSizes
<1>2. Z = A \ {r} /\ r \in A
  BY Zenon
<1>3. Cardinality(Z) = Cardinality(A) - 1
  BY Zenon, <1>1, <1>2 DEF SetSizes
<1> QED BY Zenon, <1>3 DEF Clients

\* What is in the kernel is finite.
LEMMA KernelFinite ==
    ASSUME AioConstants, SetSizes, TypeOK
    PROVE  IsFiniteSet(InKernel) /\ Cardinality(InKernel) \in Nat
<1>1. InKernel \subseteq AioRequests
  BY Zenon DEF TypeOK, InKernel, Threads
<1> QED BY Zenon, <1>1 DEF AioConstants, SetSizes

\* The clients at k are counted by a natural number.
LEMMA ClientsNat ==
    ASSUME AioConstants, SetSizes, NEW k
    PROVE  Clients(k) \in Nat
<1>1. {r \in AioRequests : cpc[r] = k} \subseteq AioRequests
  BY Zenon
<1> QED BY Zenon, <1>1 DEF AioConstants, Clients, SetSizes

\* The semaphores with what their users have in transit.
FreeTransit == num_free + B(pc["post"] \in {"submit", "get", "event", "dec"})
WaitingTransit ==
    num_waiting + B(pc["post"] \in {"check", "pop", "exit"}) - B(owner \notin {"alive", "stop_post"})
PostedTransit ==
    num_posted + B(pc["wait"] \in {"check", "get", "restore", "exit"}) + B(pc["post"] = "push")
      - B(pc["post"] = "dec") - B(pc["wait"] = "dec") - B(owner \in {"join_wait", "gone"})

\* The three accounts, in these terms.
AccountsSay ==
    /\ FreeTransit \in Int /\ WaitingTransit \in Int /\ PostedTransit \in Int
    /\ Cardinality(InKernel) \in Nat /\ Len(waiting) \in Nat
    /\ Clients("wait_sem") \in Nat /\ Clients("posted_sem") \in Nat
    /\ FreeEventsExact <=> (phase = "run" => FreeTransit + Cardinality(InKernel) = max_events)
    /\ WaitingExact <=> WaitingTransit = Len(waiting) + Clients("wait_sem")
    /\ PostedExact <=> (phase = "run" => PostedTransit = Cardinality(InKernel) + Clients("posted_sem"))

\* They mean the same as the invariants.
LEMMA Accounts == AioConstants /\ SetSizes /\ TypeOK => AccountsSay
<1> SUFFICES ASSUME AioConstants, SetSizes, TypeOK PROVE AccountsSay
  BY Zenon
<1>1. Cardinality(InKernel) \in Nat /\ Clients("wait_sem") \in Nat /\ Clients("posted_sem") \in Nat
      /\ Len(waiting) \in Nat /\ num_waiting \in Nat /\ num_free \in Nat /\ num_posted \in Nat
      /\ max_events \in Int
  BY KernelFinite, ClientsNat DEF TypeOK
<1>2. \A p : B(p) \in {0, 1}
  BY Zenon DEF B
<1>3. FreeTransit \in Int /\ WaitingTransit \in Int /\ PostedTransit \in Int
  BY <1>1 DEF FreeTransit, WaitingTransit, PostedTransit, B
<1>4. FreeEventsExact <=> (phase = "run" => FreeTransit + Cardinality(InKernel) = max_events)
  <2> DEFINE b == B(pc["post"] \in {"submit", "get", "event", "dec"})
  <2>1. b \in Int
    BY <1>2
  <2>2. FreeTransit = num_free + b
    BY Zenon DEF FreeTransit
  <2>3. FreeEventsExact <=> (phase = "run" => num_free + Cardinality(InKernel) + b = max_events)
    BY Zenon DEF FreeEventsExact
  <2> HIDE DEF b
  <2> QED BY <1>1, <2>1, <2>2, <2>3
<1>5. WaitingExact <=> WaitingTransit = Len(waiting) + Clients("wait_sem")
  <2> DEFINE b == B(pc["post"] \in {"check", "pop", "exit"})
             o == B(owner \notin {"alive", "stop_post"})
  <2>1. b \in Int /\ o \in Int
    BY <1>2
  <2>2. WaitingTransit = num_waiting + b - o
    BY Zenon DEF WaitingTransit
  <2>3. WaitingExact <=> num_waiting + b = Len(waiting) + Clients("wait_sem") + o
    BY Zenon DEF WaitingExact, Clients
  <2> HIDE DEF b, o
  <2> QED BY <1>1, <2>1, <2>2, <2>3
<1>6. PostedExact <=> (phase = "run" => PostedTransit = Cardinality(InKernel) + Clients("posted_sem"))
  <2> DEFINE b == B(pc["wait"] \in {"check", "get", "restore", "exit"})
             p == B(pc["post"] = "push")
             c == B(pc["post"] = "dec")
             d == B(pc["wait"] = "dec")
             o == B(owner \in {"join_wait", "gone"})
  <2>1. b \in Int /\ p \in Int /\ c \in Int /\ d \in Int /\ o \in Int
    BY <1>2
  <2>2. PostedTransit = num_posted + b + p - c - d - o
    BY Zenon DEF PostedTransit
  <2>3. PostedExact <=> (phase = "run" =>
            num_posted + b + p = Cardinality(InKernel) + c + d + Clients("posted_sem") + o)
    BY Zenon DEF PostedExact, Clients
  <2>4. \A x, y \in Int : x = y - c - d - o <=> y = x + c + d + o
    BY <2>1
  <2> HIDE DEF b, p, c, d, o
  <2>5. PostedTransit = (num_posted + b + p) - c - d - o
    BY <1>1, <2>1, <2>2
  <2>6. num_posted + b + p \in Int /\ Cardinality(InKernel) + Clients("posted_sem") \in Int
    BY <1>1, <2>1
  <2>7. Cardinality(InKernel) + c + d + Clients("posted_sem") + o
          = (Cardinality(InKernel) + Clients("posted_sem")) + c + d + o
    BY <1>1, <2>1
  <2> QED BY <1>3, <2>3, <2>4, <2>5, <2>6, <2>7
<1> QED BY Zenon, <1>1, <1>3, <1>4, <1>5, <1>6 DEF AccountsSay

\* The same after a step.
LEMMA AccountsNext == AioConstants /\ SetSizes /\ TypeOK' => AccountsSay'
<1>1. (AioConstants' <=> AioConstants) /\ (SetSizes' <=> SetSizes)
  BY Zenon DEF AioConstants, SetSizes
<1> QED BY <1>1, Accounts, PTL

\* k requests enter the kernel, w more are waiting or cancelled while waiting,
\* p more are being cancelled in the kernel, and the counters change with them.
Moves(k, w, p) ==
    /\ Cardinality(InKernel)' = Cardinality(InKernel) + k
    /\ Len(waiting)' + Clients("wait_sem")' = Len(waiting) + Clients("wait_sem") + w
    /\ Clients("posted_sem")' = Clients("posted_sem") + p
    /\ FreeTransit' = FreeTransit - k
    /\ WaitingTransit' = WaitingTransit + w
    /\ PostedTransit' = PostedTransit + k + p

\* Such a step keeps the accounts.
LEMMA AccountsKept ==
    ASSUME AioConstants, SetSizes, AioInv, TypeOK', phase' = phase, max_events' = max_events,
           NEW k \in Int, NEW w \in Int, NEW p \in Int, Moves(k, w, p)
    PROVE  FreeEventsExact' /\ WaitingExact' /\ PostedExact'
<1>1. TypeOK /\ FreeEventsExact /\ WaitingExact /\ PostedExact /\ max_events \in Int
  BY Zenon DEF AioInv, TypeOK
<1>2. AccountsSay /\ AccountsSay'
  BY Zenon, <1>1, Accounts, AccountsNext
<1>3. FreeEventsExact'
  <2>1. CASE phase = "run"
    <3>1. FreeTransit + Cardinality(InKernel) = max_events
      BY Zenon, <1>1, <1>2, <2>1 DEF AccountsSay
    <3>2. FreeTransit \in Int /\ Cardinality(InKernel) \in Int
      BY <1>2 DEF AccountsSay
    <3>3. FreeTransit' + Cardinality(InKernel)' = max_events'
      BY SMTT(30), <1>1, <3>1, <3>2 DEF Moves
    <3> QED BY Zenon, <1>2, <3>3 DEF AccountsSay
  <2> QED BY Zenon, <1>2, <2>1 DEF AccountsSay
<1>4. WaitingExact'
  BY Zenon, <1>1, <1>2 DEF AccountsSay, Moves
<1>5. PostedExact'
  <2>1. CASE phase = "run"
    <3>1. PostedTransit = Cardinality(InKernel) + Clients("posted_sem")
      BY Zenon, <1>1, <1>2, <2>1 DEF AccountsSay
    <3>2. PostedTransit \in Int /\ Cardinality(InKernel) \in Int /\ Clients("posted_sem") \in Int
      BY <1>2 DEF AccountsSay
    <3>3. PostedTransit' = Cardinality(InKernel)' + Clients("posted_sem")'
      BY SMTT(30), <3>1, <3>2 DEF Moves
    <3> QED BY Zenon, <1>2, <3>3 DEF AccountsSay
  <2> QED BY Zenon, <1>2, <2>1 DEF AccountsSay
<1> QED BY Zenon, <1>3, <1>4, <1>5

\* A client at neither of the places where a semaphore is about to be taken
\* goes to another such place.
LEMMA ClientStays ==
    ASSUME AioConstants, SetSizes, NEW r \in AioRequests, cpc \in [AioRequests -> ClientPcs],
           NEW l \in ClientPcs, cpc' = [cpc EXCEPT ![r] = l], NEW k, l # k, cpc[r] # k
    PROVE  Clients(k)' = Clients(k)
<1>1. {q \in AioRequests : cpc'[q] = k} = {q \in AioRequests : cpc[q] = k}
  BY Zenon
<1> QED BY Zenon, <1>1 DEF Clients

\* The posting thread has the request in its hands.
InHand(q) == q \in cur \ InKernel /\ pc["post"] # "push"

\* How often a request is somewhere, and how often it should be.
Places(q) ==
    B(Contains(waiting, q)) + B(InHand(q)) + B(q \in inflight) + B(q \in ready)
      + B(q \in events["post"]) + B(q \in events["wait"]) + completions[q]
Quota(q) == IF cpc[q] = "new" THEN 0 ELSE IF cpc[q] = "segv" THEN 2 ELSE 1

\* OnePlace counts the places of each request.
LEMMA PlacesQuota == OnePlace <=> \A q \in AioRequests : Places(q) = Quota(q)
BY Zenon DEF OnePlace, Places, Quota, InHand

\* The same after a step.
LEMMA PlacesQuotaNext == OnePlace' <=> \A q \in AioRequests : Places(q)' = Quota(q)'
BY Zenon DEF OnePlace, Places, Quota, InHand

\* A request is where it is and nowhere else.
LEMMA WhereIs ==
    ASSUME TypeOK, OnePlace, NEW q \in AioRequests
    PROVE  /\ cpc[q] = "new" =>
                  /\ ~Contains(waiting, q) /\ ~InHand(q) /\ q \notin inflight /\ q \notin ready
                  /\ q \notin events["post"] /\ q \notin events["wait"] /\ completions[q] = 0
           /\ cpc[q] # "segv" /\ Contains(waiting, q) =>
                  /\ ~InHand(q) /\ q \notin inflight /\ q \notin ready
                  /\ q \notin events["post"] /\ q \notin events["wait"] /\ completions[q] = 0
           /\ cpc[q] # "segv" /\ InHand(q) =>
                  /\ ~Contains(waiting, q) /\ q \notin inflight /\ q \notin ready
                  /\ q \notin events["post"] /\ q \notin events["wait"] /\ completions[q] = 0
           /\ cpc[q] # "segv" /\ q \in inflight =>
                  /\ ~Contains(waiting, q) /\ ~InHand(q) /\ q \notin ready
                  /\ q \notin events["post"] /\ q \notin events["wait"] /\ completions[q] = 0
           /\ cpc[q] # "segv" /\ q \in ready =>
                  /\ ~Contains(waiting, q) /\ ~InHand(q) /\ q \notin inflight
                  /\ q \notin events["post"] /\ q \notin events["wait"] /\ completions[q] = 0
           /\ cpc[q] # "segv" /\ q \in events["post"] =>
                  /\ ~Contains(waiting, q) /\ ~InHand(q) /\ q \notin inflight /\ q \notin ready
                  /\ q \notin events["wait"] /\ completions[q] = 0
           /\ cpc[q] # "segv" /\ q \in events["wait"] =>
                  /\ ~Contains(waiting, q) /\ ~InHand(q) /\ q \notin inflight /\ q \notin ready
                  /\ q \notin events["post"] /\ completions[q] = 0
<1>1. Places(q) = Quota(q) /\ completions[q] \in Nat
  BY Zenon, PlacesQuota DEF TypeOK
<1> QED BY <1>1 DEF Places, Quota, B

\* q is in one place, or in none, whatever its completions.
OnlyIn(q, l) ==
    /\ Contains(waiting, q) <=> l = "waiting"
    /\ InHand(q) <=> l = "hand"
    /\ q \in inflight <=> l = "inflight"
    /\ q \in ready <=> l = "ready"
    /\ q \in events["post"] <=> l = "post"
    /\ q \in events["wait"] <=> l = "wait"

\* The number of places of a request that is in one of them only.
LEMMA OnlyPlace ==
    ASSUME NEW q \in AioRequests, NEW l, OnlyIn(q, l)', completions'[q] \in Nat
    PROVE  /\ l = "none" => Places(q)' = completions'[q]
           /\ l \in {"waiting", "hand", "inflight", "ready"} => Places(q)' = 1 + completions'[q]
<1>1. CASE l = "none"
  BY <1>1 DEF OnlyIn, Places, B
<1>2. CASE l = "waiting"
  BY <1>2 DEF OnlyIn, Places, B
<1>3. CASE l = "hand"
  BY <1>3 DEF OnlyIn, Places, B
<1>4. CASE l = "inflight"
  BY <1>4 DEF OnlyIn, Places, B
<1>5. CASE l = "ready"
  BY <1>5 DEF OnlyIn, Places, B
<1> QED BY Zenon, <1>1, <1>2, <1>3, <1>4, <1>5

\* q stays where it is.
Stays(q) ==
    /\ Contains(waiting, q)' <=> Contains(waiting, q)
    /\ InHand(q)' <=> InHand(q)
    /\ q \in inflight' <=> q \in inflight
    /\ q \in ready' <=> q \in ready
    /\ q \in events'["post"] <=> q \in events["post"]
    /\ q \in events'["wait"] <=> q \in events["wait"]
    /\ completions'[q] = completions[q]

\* A request that no set gains or loses has as many places as before.
LEMMA StayingPlaces ==
    ASSUME NEW q \in AioRequests, Stays(q)
    PROVE  Places(q)' = Places(q)
<1>1. B(Contains(waiting, q))' = B(Contains(waiting, q)) /\ B(InHand(q))' = B(InHand(q))
  BY Zenon DEF Stays, B
<1>2. B(q \in inflight)' = B(q \in inflight) /\ B(q \in ready)' = B(q \in ready)
  BY Zenon DEF Stays, B
<1>3. /\ B(q \in events["post"])' = B(q \in events["post"])
      /\ B(q \in events["wait"])' = B(q \in events["wait"])
  BY Zenon DEF Stays, B
<1> QED BY Zenon, <1>1, <1>2, <1>3 DEF Stays, Places

\* q stays where it is and completes once more, or io_getevents fetches it, if it is
\* ready, to a thread that had no events.
CompletesMore(q) ==
    /\ Contains(waiting, q)' <=> Contains(waiting, q)
    /\ InHand(q)' <=> InHand(q)
    /\ q \in inflight' <=> q \in inflight
    /\ q \in ready' <=> q \in ready
    /\ q \in events'["post"] <=> q \in events["post"]
    /\ q \in events'["wait"] <=> q \in events["wait"]
    /\ completions'[q] = completions[q] + 1

Fetched(q, t, u) ==
    /\ Contains(waiting, q)' <=> Contains(waiting, q)
    /\ InHand(q)' <=> InHand(q)
    /\ q \in inflight' <=> q \in inflight
    /\ q \notin ready' /\ q \notin events[t]
    /\ q \in events'[t] <=> q \in ready
    /\ q \in events'[u] <=> q \in events[u]
    /\ completions'[q] = completions[q]

\* The terms of Places are natural numbers.
LEMMA SevenNaturals ==
    ASSUME NEW q \in AioRequests, completions[q] \in Nat
    PROVE  /\ B(Contains(waiting, q)) \in Nat /\ B(InHand(q)) \in Nat /\ B(q \in inflight) \in Nat
           /\ B(q \in ready) \in Nat /\ B(q \in events["post"]) \in Nat
           /\ B(q \in events["wait"]) \in Nat /\ completions[q] \in Nat
BY Zenon DEF B

\* A completion adds a place to a request that leaves no other.
LEMMA MorePlaces ==
    ASSUME NEW q \in AioRequests, CompletesMore(q), completions[q] \in Nat
    PROVE  Places(q)' = Places(q) + 1
<1>1. B(Contains(waiting, q))' = B(Contains(waiting, q)) /\ B(InHand(q))' = B(InHand(q))
  BY Zenon DEF CompletesMore, B
<1>2. B(q \in inflight)' = B(q \in inflight) /\ B(q \in ready)' = B(q \in ready)
  BY Zenon DEF CompletesMore, B
<1>3. /\ B(q \in events["post"])' = B(q \in events["post"])
      /\ B(q \in events["wait"])' = B(q \in events["wait"])
  BY Zenon DEF CompletesMore, B
<1>4. completions'[q] = completions[q] + 1
  BY Zenon DEF CompletesMore
<1>5. /\ B(Contains(waiting, q)) \in Nat /\ B(InHand(q)) \in Nat /\ B(q \in inflight) \in Nat
      /\ B(q \in ready) \in Nat /\ B(q \in events["post"]) \in Nat
      /\ B(q \in events["wait"]) \in Nat
  BY Zenon, SevenNaturals
<1> QED BY <1>1, <1>2, <1>3, <1>4, <1>5 DEF Places

\* io_getevents moves a request from the ready ones to the events of a thread.
LEMMA FetchedPlaces ==
    ASSUME NEW q \in AioRequests, completions[q] \in Nat,
           Fetched(q, "post", "wait") \/ Fetched(q, "wait", "post")
    PROVE  Places(q)' = Places(q)
<1>1. CASE Fetched(q, "post", "wait")
  <2>1. B(Contains(waiting, q))' = B(Contains(waiting, q)) /\ B(InHand(q))' = B(InHand(q))
    BY Zenon, <1>1 DEF Fetched, B
  <2>2. B(q \in inflight)' = B(q \in inflight) /\ B(q \in ready)' = 0 /\ completions'[q] = completions[q]
    BY Zenon, <1>1 DEF Fetched, B
  <2>3. /\ B(q \in events["post"])' = B(q \in ready) /\ B(q \in events["post"]) = 0
        /\ B(q \in events["wait"])' = B(q \in events["wait"])
    BY Zenon, <1>1 DEF Fetched, B
  <2> QED BY <2>1, <2>2, <2>3, SevenNaturals DEF Places
<1>2. CASE Fetched(q, "wait", "post")
  <2>1. B(Contains(waiting, q))' = B(Contains(waiting, q)) /\ B(InHand(q))' = B(InHand(q))
    BY Zenon, <1>2 DEF Fetched, B
  <2>2. B(q \in inflight)' = B(q \in inflight) /\ B(q \in ready)' = 0 /\ completions'[q] = completions[q]
    BY Zenon, <1>2 DEF Fetched, B
  <2>3. /\ B(q \in events["wait"])' = B(q \in ready) /\ B(q \in events["wait"]) = 0
        /\ B(q \in events["post"])' = B(q \in events["post"])
    BY Zenon, <1>2 DEF Fetched, B
  <2> QED BY <2>1, <2>2, <2>3, SevenNaturals DEF Places
<1> QED BY Zenon, <1>1, <1>2

-----------------------------------------------------------------------------
(* Steps that move no request. *)

\* The constructor.
LEMMA SetupSteps ==
    ASSUME AioConstants, SetSizes, AioInv, Negotiate \/ Construct
    PROVE  AioInv'
<1> USE DEF AioInv
<1>0. UNCHANGED <<waiting, posted, num_waiting, num_posted, inflight, ready, pc, state, cur,
                  count, events, cpc, completions, owner, refused>>
      /\ phase = "setup"
  BY Zenon DEF Negotiate, Construct
<1>1. InKernel' = InKernel /\ InKernel = {} /\ Cardinality(InKernel) = 0
  BY Zenon, <1>0 DEF InKernel, NotStarted, SetSizes
<1>2. CASE Negotiate
  <2>1. phase' = phase /\ num_free' = num_free /\ max_events' = ShiftLeft(max_events)
        /\ max_events > KernelMax
    BY Zenon, <1>2 DEF Negotiate
  <2>2. max_events' \in Int /\ max_events' < IntLimit /\ (max_events' > KernelMax \/ max_events' < 1)
    <3>1. max_events \in Nat /\ max_events < IntLimit /\ IntLimit \in Nat /\ KernelMax \in Nat
      BY <2>1 DEF LengthKnown, AioConstants
    <3>2. (2 * max_events) % (2 * IntLimit) = 2 * max_events
      BY <3>1
    <3> QED BY <2>1, <3>1, <3>2 DEF ShiftLeft
  <2> QED BY <1>0, <1>1, <2>1, <2>2 DEF TypeOK, NotStarted, LengthKnown, ThreadsKnown, WaitingOnce,
       OnePlace, FreeEventsExact, WaitingExact, PostedExact, InKernel
<1>3. CASE Construct
  <2>1. max_events' = max_events /\ phase' \in {"run", "throw"}
        /\ (phase' = "run" => max_events \in 1..KernelMax /\ num_free' = max_events)
        /\ (phase' # "run" => num_free' = num_free)
    BY Zenon, <1>3 DEF Construct
  <2>2. LengthKnown'
    BY <1>0, <2>1 DEF LengthKnown, AioConstants, Lengths
  <2>3. pc["post"] = "sem" /\ pc["wait"] = "sem" /\ owner = "alive" /\ num_posted = 0
    BY Zenon, <1>0 DEF NotStarted, Threads
  <2>4. Clients("posted_sem") = 0
    <3>1. {r \in AioRequests : cpc[r] = "posted_sem"} = {}
      BY Zenon, <1>0 DEF NotStarted
    <3> QED BY Zenon, <3>1 DEF Clients, SetSizes
  <2>5. FreeEventsExact'
    BY <1>0, <1>1, <2>1, <2>3 DEF FreeEventsExact, B
  <2>6. PostedExact'
    BY <1>0, <1>1, <2>1, <2>3, <2>4 DEF PostedExact, B, Clients
  <2>7. TypeOK' /\ WaitingExact' /\ OnePlace' /\ ThreadsKnown' /\ WaitingOnce' /\ NotStarted'
    BY <1>0, <1>1, <2>1 DEF TypeOK, NotStarted, ThreadsKnown, WaitingOnce, OnePlace, WaitingExact, InKernel
  <2> QED BY Zenon, <2>2, <2>5, <2>6, <2>7
<1> QED BY Zenon, <1>2, <1>3

\* A step that changes only counters and where a thread or the owner is.
LEMMA ControlKept ==
    ASSUME AioConstants, SetSizes, AioInv, Running, TypeOK', ThreadsKnown',
           UNCHANGED <<phase, max_events, waiting, inflight, ready, cur, events, cpc, completions>>,
           pc'["post"] = "push" <=> pc["post"] = "push",
           FreeTransit' = FreeTransit, WaitingTransit' = WaitingTransit, PostedTransit' = PostedTransit
    PROVE  AioInv'
<1>1. InKernel' = InKernel
  BY Zenon DEF InKernel
<1>2. phase' = "run"
  BY Zenon DEF Running
<1>3. NotStarted' /\ LengthKnown' /\ WaitingOnce' /\ OnePlace'
  BY Zenon, <1>1, <1>2 DEF AioInv, NotStarted, LengthKnown, WaitingOnce, OnePlace
<1>4. AccountsSay
  BY Zenon, Accounts DEF AioInv
<1>5. Clients("wait_sem")' = Clients("wait_sem") /\ Clients("posted_sem")' = Clients("posted_sem")
      /\ Cardinality(InKernel)' = Cardinality(InKernel) /\ Len(waiting)' = Len(waiting)
  BY Zenon, <1>1 DEF Clients
<1>6. FreeEventsExact' /\ WaitingExact' /\ PostedExact'
  <2>1. Moves(0, 0, 0)
    BY <1>4, <1>5 DEF AccountsSay, Moves
  <2> QED BY SMTT(30), <2>1, AccountsKept
<1> QED BY Zenon, <1>3, <1>6 DEF AioInv

\* Steps of the threads that move only control and the semaphores keep the invariant.
LEMMA ThreadControl ==
    ASSUME AioConstants, SetSizes, AioInv, NEW t \in Threads,
           \/ SemWait(t) \/ CheckState(t) \/ HandleDec(t)
           \/ t = "post" /\ PostTakeEvent
           \/ t = "wait" /\ WaitRestore
    PROVE  AioInv'
<1> USE DEF AioInv
<1>0. TypeOK /\ ThreadsKnown /\ num_waiting \in Nat /\ num_free \in Nat /\ num_posted \in Nat
  BY Zenon DEF TypeOK
<1>1. CASE SemWait(t)
  <2>1. TypeOK' /\ ThreadsKnown'
    BY <1>0, <1>1 DEF SemWait, Goto, TypeOK, Threads, ThreadsKnown, InKernel
  <2>2. FreeTransit' = FreeTransit /\ WaitingTransit' = WaitingTransit /\ PostedTransit' = PostedTransit
    <3>1. CASE t = "post"
      <4>1. pc'["post"] = "check" /\ pc["post"] = "sem" /\ pc'["wait"] = pc["wait"] /\ num_free' = num_free
            /\ num_waiting' = num_waiting - 1 /\ num_posted' = num_posted /\ owner' = owner
        BY Zenon, <1>0, <1>1, <3>1 DEF SemWait, Goto, TypeOK, Threads
      <4> QED BY <1>0, <4>1 DEF FreeTransit, WaitingTransit, PostedTransit, B
    <3>2. CASE t = "wait"
      <4>1. pc'["wait"] = "check" /\ pc["wait"] = "sem" /\ pc'["post"] = pc["post"] /\ num_free' = num_free
            /\ num_posted' = num_posted - 1 /\ num_waiting' = num_waiting /\ owner' = owner
        BY Zenon, <1>0, <1>1, <3>2 DEF SemWait, Goto, TypeOK, Threads
      <4> QED BY <1>0, <4>1 DEF FreeTransit, WaitingTransit, PostedTransit, B
    <3> QED BY Zenon, <3>1, <3>2 DEF Threads
  <2>3. Running /\ (pc'["post"] = "push" <=> pc["post"] = "push")
        /\ UNCHANGED <<phase, max_events, waiting, inflight, ready, cur, events, cpc, completions>>
    BY Zenon, <1>0, <1>1 DEF SemWait, Goto, TypeOK, Threads
  <2> QED BY Zenon, <2>1, <2>2, <2>3, ControlKept
<1>2. CASE CheckState(t)
  <2>1. TypeOK' /\ ThreadsKnown'
    BY <1>0, <1>2 DEF CheckState, Goto, TypeOK, Threads, ThreadsKnown, InKernel
  <2>2. FreeTransit' = FreeTransit /\ WaitingTransit' = WaitingTransit /\ PostedTransit' = PostedTransit
    BY Zenon, <1>0, <1>2 DEF CheckState, Goto, TypeOK, Threads, FreeTransit, WaitingTransit, PostedTransit, B
  <2>3. Running /\ (pc'["post"] = "push" <=> pc["post"] = "push")
        /\ UNCHANGED <<phase, max_events, waiting, inflight, ready, cur, events, cpc, completions>>
    BY Zenon, <1>0, <1>2 DEF CheckState, Goto, TypeOK, Threads
  <2> QED BY Zenon, <2>1, <2>2, <2>3, ControlKept
<1>3. CASE HandleDec(t)
  <2>1. TypeOK' /\ ThreadsKnown'
    BY <1>0, <1>3 DEF HandleDec, Goto, TypeOK, Threads, ThreadsKnown, InKernel
  <2>2. FreeTransit' = FreeTransit /\ WaitingTransit' = WaitingTransit /\ PostedTransit' = PostedTransit
    BY <1>0, <1>3 DEF HandleDec, Goto, TypeOK, Threads, FreeTransit, WaitingTransit, PostedTransit, B
  <2>3. Running /\ (pc'["post"] = "push" <=> pc["post"] = "push")
        /\ UNCHANGED <<phase, max_events, waiting, inflight, ready, cur, events, cpc, completions>>
    BY Zenon, <1>0, <1>3 DEF HandleDec, Goto, TypeOK, Threads
  <2> QED BY Zenon, <2>1, <2>2, <2>3, ControlKept
<1>4. CASE t = "post" /\ PostTakeEvent
  <2>1. TypeOK' /\ ThreadsKnown'
    BY <1>0, <1>4 DEF PostTakeEvent, Goto, TypeOK, Threads, ThreadsKnown, InKernel
  <2>2. FreeTransit' = FreeTransit /\ WaitingTransit' = WaitingTransit /\ PostedTransit' = PostedTransit
    BY <1>0, <1>4 DEF PostTakeEvent, Goto, TypeOK, Threads, FreeTransit, WaitingTransit, PostedTransit, B
  <2>3. Running /\ (pc'["post"] = "push" <=> pc["post"] = "push")
        /\ UNCHANGED <<phase, max_events, waiting, inflight, ready, cur, events, cpc, completions>>
    BY Zenon, <1>0, <1>4 DEF PostTakeEvent, Goto, TypeOK, Threads
  <2> QED BY Zenon, <2>1, <2>2, <2>3, ControlKept
<1>5. CASE t = "wait" /\ WaitRestore
  <2>1. TypeOK' /\ ThreadsKnown'
    BY <1>0, <1>5 DEF WaitRestore, Goto, TypeOK, Threads, ThreadsKnown, InKernel
  <2>2. FreeTransit' = FreeTransit /\ WaitingTransit' = WaitingTransit /\ PostedTransit' = PostedTransit
    BY <1>0, <1>5 DEF WaitRestore, Goto, TypeOK, Threads, FreeTransit, WaitingTransit, PostedTransit, B
  <2>3. Running /\ (pc'["post"] = "push" <=> pc["post"] = "push")
        /\ UNCHANGED <<phase, max_events, waiting, inflight, ready, cur, events, cpc, completions>>
    BY Zenon, <1>0, <1>5 DEF WaitRestore, Goto, TypeOK, Threads
  <2> QED BY Zenon, <2>1, <2>2, <2>3, ControlKept
<1> QED BY Zenon, <1>1, <1>2, <1>3, <1>4, <1>5

\* The destructor.
LEMMA OwnerSteps ==
    ASSUME AioConstants, SetSizes, AioInv, Destroy \/ StopWake \/ Join
    PROVE  AioInv'
<1> USE DEF AioInv
<1>0. TypeOK /\ ThreadsKnown /\ num_waiting \in Nat /\ num_free \in Nat /\ num_posted \in Nat
  BY Zenon DEF TypeOK
<1>1. /\ pc' = pc /\ Running
      /\ UNCHANGED <<phase, max_events, waiting, inflight, ready, cur, events, cpc, completions, num_free>>
  BY Zenon DEF Destroy, StopWake, Join
<1>2. TypeOK'
  BY <1>0 DEF Destroy, StopWake, Join, StopTarget, JoinTarget, TypeOK, Threads
<1>3. ThreadsKnown'
  BY Zenon, <1>0, <1>1 DEF ThreadsKnown, InKernel
<1>4. FreeTransit' = FreeTransit
  BY Zenon, <1>1 DEF FreeTransit
<1>5. WaitingTransit' = WaitingTransit /\ PostedTransit' = PostedTransit
  <2>1. CASE Destroy
    BY Zenon, <1>0, <2>1 DEF Destroy, WaitingTransit, PostedTransit, B
  <2>2. CASE StopWake
    BY <1>0, <2>2 DEF StopWake, StopTarget, WaitingTransit, PostedTransit, B
  <2>3. CASE Join
    BY Zenon, <1>0, <2>3 DEF Join, JoinTarget, WaitingTransit, PostedTransit, B
  <2> QED BY Zenon, <2>1, <2>2, <2>3
<1> QED BY Zenon, <1>1, <1>2, <1>3, <1>4, <1>5, ControlKept

-----------------------------------------------------------------------------
(* Steps that move a request. *)

\* What stays true when the phase and the length of the queue do.
LEMMA RunningKeeps ==
    ASSUME AioInv, Running, UNCHANGED <<phase, max_events>>
    PROVE  NotStarted' /\ LengthKnown' /\ phase' = "run"
BY Zenon DEF AioInv, Running, NotStarted, LengthKnown

\* Where the others are does not change.
LEMMA OthersStay ==
    ASSUME OnePlace, NEW r \in AioRequests, Places(r)' = Quota(r)',
           \A q \in AioRequests \ {r} : Places(q)' = Places(q) /\ cpc'[q] = cpc[q]
    PROVE  OnePlace'
<1>1. ASSUME NEW q \in AioRequests \ {r} PROVE Places(q)' = Quota(q)'
  BY Zenon, <1>1, PlacesQuota DEF Quota
<1> QED BY Zenon, <1>1, PlacesQuotaNext

\* add_request appends to waiting_requests and posts the semaphore.
LEMMA AddStep ==
    ASSUME AioConstants, SetSizes, AioInv, NEW r \in AioRequests, add_request(r)
    PROVE  AioInv'
<1> USE DEF AioInv
<1>0. TypeOK /\ ThreadsKnown /\ num_waiting \in Nat /\ AccountsSay /\ waiting \in Seq(AioRequests)
      /\ cpc \in [AioRequests -> ClientPcs] /\ cpc[r] = "new" /\ "queued" \in ClientPcs
  BY Zenon, Accounts DEF TypeOK, add_request, ClientPcs
<1>1. /\ Running /\ UNCHANGED <<phase, max_events, inflight, ready, pc, cur, events, completions,
                                num_free, num_posted, owner>>
      /\ waiting' = Append(waiting, r) /\ cpc' = [cpc EXCEPT ![r] = "queued"]
      /\ num_waiting' = num_waiting + 1
  BY Zenon DEF add_request
<1>2. TypeOK'
  BY <1>0 DEF add_request, TypeOK
<1>3. InKernel' = InKernel
  BY Zenon, <1>1 DEF InKernel
<1>4. ThreadsKnown'
  BY Zenon, <1>0, <1>1, <1>3 DEF ThreadsKnown
<1>5. /\ Len(waiting)' = Len(waiting) + 1
      /\ \A i \in 1..Len(waiting) : waiting'[i] = waiting[i]
      /\ waiting'[Len(waiting) + 1] = r
      /\ DOMAIN waiting = 1..Len(waiting) /\ DOMAIN waiting' = 1..(Len(waiting) + 1)
      /\ Len(waiting) \in Nat
  BY <1>0, <1>1
<1>6. \A i \in DOMAIN waiting : waiting[i] # r
  BY Zenon, <1>0, <1>5, WhereIs DEF Contains
<1>7. WaitingOnce'
  BY <1>5, <1>6 DEF WaitingOnce
<1>8. \A q \in AioRequests : Contains(waiting, q)' <=> Contains(waiting, q) \/ q = r
  BY <1>5 DEF Contains
<1>9. OnePlace'
  <2>1. ASSUME NEW q \in AioRequests \ {r} PROVE Places(q)' = Places(q) /\ cpc'[q] = cpc[q]
    <3>1. Stays(q) /\ cpc'[q] = cpc[q]
      BY Zenon, <1>0, <1>1, <1>3, <1>8, <2>1 DEF Stays, InHand
    <3> QED BY Zenon, <3>1, StayingPlaces
  <2>2. Places(r)' = Quota(r)'
    <3>1. OnlyIn(r, "waiting")'
      BY Zenon, <1>0, <1>1, <1>3, <1>8, WhereIs DEF OnlyIn, InHand
    <3>2. completions'[r] = 0 /\ Quota(r)' = 1
      BY Zenon, <1>0, <1>1, <1>3, <1>8, WhereIs DEF Quota, TypeOK
    <3> QED BY <3>1, <3>2, OnlyPlace
  <2> QED BY Zenon, <2>1, <2>2, OthersStay
<1>10. Clients("wait_sem")' = Clients("wait_sem") /\ Clients("posted_sem")' = Clients("posted_sem")
  BY Zenon, <1>0, <1>1, ClientStays
<1>11. FreeTransit' = FreeTransit /\ WaitingTransit' = WaitingTransit + 1 /\ PostedTransit' = PostedTransit
  BY <1>0, <1>1 DEF FreeTransit, WaitingTransit, PostedTransit, B
<1>12. FreeEventsExact' /\ WaitingExact' /\ PostedExact'
  <2>1. Moves(0, 1, 0)
    BY <1>0, <1>3, <1>5, <1>10, <1>11 DEF AccountsSay, Moves
  <2> QED BY SMTT(30), <1>1, <1>2, <1>11, <2>1, AccountsKept
<1> QED BY Zenon, <1>1, <1>2, <1>4, <1>7, <1>9, <1>12, RunningKeeps

\* The part of cancel_request under waiting_mtx: the request is completed when
\* it leaves waiting_requests.
LEMMA CancelWaitingStep ==
    ASSUME AioConstants, SetSizes, AioInv, NEW r \in AioRequests, CancelWaiting(r)
    PROVE  AioInv'
<1> USE DEF AioInv
<1>0. TypeOK /\ ThreadsKnown /\ AccountsSay /\ waiting \in Seq(AioRequests)
      /\ cpc \in [AioRequests -> ClientPcs] /\ cpc[r] = "queued" /\ "wait_sem" \in ClientPcs
      /\ completions \in [AioRequests -> Nat]
  BY Zenon, Accounts DEF TypeOK, CancelWaiting, ClientPcs
<1>1. /\ Running /\ UNCHANGED <<phase, max_events, inflight, ready, pc, cur, events,
                                num_waiting, num_free, num_posted, owner>>
      /\ cpc' = [cpc EXCEPT ![r] = "wait_sem"] /\ completions' = [completions EXCEPT ![r] = @ + 1]
  BY Zenon DEF CancelWaiting
<1>2. PICK i \in DOMAIN waiting : waiting[i] = r /\ waiting' = Erase(waiting, i)
  BY Zenon DEF CancelWaiting
<1>3. /\ Len(waiting) \in Nat /\ DOMAIN waiting = 1..Len(waiting) /\ i \in 1..Len(waiting)
      /\ waiting' \in Seq(AioRequests) /\ Len(waiting') = Len(waiting) - 1
      /\ DOMAIN waiting' = 1..(Len(waiting) - 1)
      /\ \A k \in 1..(Len(waiting) - 1) : waiting'[k] = IF k < i THEN waiting[k] ELSE waiting[k + 1]
  <2>1. Len(waiting) \in Nat /\ DOMAIN waiting = 1..Len(waiting) /\ i \in 1..Len(waiting)
    BY <1>0, <1>2
  <2>2. /\ waiting' \in Seq(AioRequests) /\ Len(waiting') = Len(waiting) - 1
        /\ \A k \in 1..(Len(waiting) - 1) : waiting'[k] = IF k < i THEN waiting[k] ELSE waiting[k + 1]
    BY Zenon, <1>0, <1>2, <2>1, EraseProperties
  <2>3. DOMAIN waiting' = 1..Len(waiting')
    BY <2>2
  <2> QED BY Zenon, <2>1, <2>2, <2>3
<1>4. TypeOK'
  <2>1. UNCHANGED <<posted, state, count, refused>>
    BY Zenon DEF CancelWaiting
  <2>2. cpc' \in [AioRequests -> ClientPcs] /\ completions' \in [AioRequests -> Nat]
    BY <1>0, <1>1
  <2> QED BY Zenon, <1>0, <1>1, <1>3, <2>1, <2>2 DEF TypeOK
<1>5. InKernel' = InKernel
  BY Zenon, <1>1 DEF InKernel
<1>6. ThreadsKnown'
  BY Zenon, <1>0, <1>1, <1>5 DEF ThreadsKnown
<1>7. WaitingOnce'
  <2> SUFFICES ASSUME NEW k \in DOMAIN waiting', NEW m \in DOMAIN waiting', waiting'[k] = waiting'[m]
               PROVE  k = m
    BY Zenon DEF WaitingOnce
  <2>1. k \in 1..(Len(waiting) - 1) /\ m \in 1..(Len(waiting) - 1)
    BY Zenon, <1>3
  <2>2. \A a, b \in 1..Len(waiting) : waiting[a] = waiting[b] => a = b
    BY Zenon, <1>3 DEF WaitingOnce
  <2>3. CASE k < i /\ m < i
    BY <1>3, <2>1, <2>2, <2>3
  <2>4. CASE k < i /\ ~(m < i)
    <3>1. waiting[k] = waiting[m + 1] /\ k \in 1..Len(waiting) /\ m + 1 \in 1..Len(waiting) /\ k # m + 1
      BY <1>3, <2>1, <2>4
    <3> QED BY Zenon, <2>2, <3>1
  <2>5. CASE ~(k < i) /\ m < i
    <3>1. waiting[k + 1] = waiting[m] /\ m \in 1..Len(waiting) /\ k + 1 \in 1..Len(waiting) /\ k + 1 # m
      BY <1>3, <2>1, <2>5
    <3> QED BY Zenon, <2>2, <3>1
  <2>6. CASE ~(k < i) /\ ~(m < i)
    <3>1. waiting[k + 1] = waiting[m + 1] /\ m + 1 \in 1..Len(waiting) /\ k + 1 \in 1..Len(waiting)
      BY <1>3, <2>1, <2>6
    <3>2. k + 1 = m + 1
      BY Zenon, <2>2, <3>1
    <3> QED BY <2>1, <3>2
  <2> QED BY Zenon, <2>3, <2>4, <2>5, <2>6
<1>8. \A q \in AioRequests : Contains(waiting, q)' <=> Contains(waiting, q) /\ q # r
  <2>1. \A a, b \in 1..Len(waiting) : waiting[a] = waiting[b] => a = b
    BY Zenon, <1>3 DEF WaitingOnce
  <2>2. ASSUME NEW q \in AioRequests, NEW k \in 1..(Len(waiting) - 1), waiting'[k] = q
        PROVE  q # r /\ \E j \in 1..Len(waiting) : waiting[j] = q
    <3>1. CASE k < i
      BY <1>2, <1>3, <2>1, <2>2, <3>1
    <3>2. CASE ~(k < i)
      BY <1>2, <1>3, <2>1, <2>2, <3>2
    <3> QED BY Zenon, <3>1, <3>2
  <2>3. ASSUME NEW q \in AioRequests, NEW j \in 1..Len(waiting), waiting[j] = q, q # r
        PROVE  \E k \in 1..(Len(waiting) - 1) : waiting'[k] = q
    <3>1. CASE j < i
      <4>1. j \in 1..(Len(waiting) - 1) /\ waiting'[j] = q
        BY <1>3, <2>3, <3>1
      <4> QED BY Zenon, <4>1
    <3>2. CASE j > i
      <4>1. j - 1 \in 1..(Len(waiting) - 1) /\ ~(j - 1 < i) /\ (j - 1) + 1 = j
        BY <1>3, <3>2
      <4>2. waiting'[j - 1] = q
        BY Zenon, <1>3, <2>3, <4>1
      <4> QED BY Zenon, <4>1, <4>2
    <3> QED BY <1>2, <1>3, <2>3, <3>1, <3>2
  <2> QED BY Zenon, <1>3, <2>2, <2>3 DEF Contains
<1>9. Contains(waiting, r)
  BY Zenon, <1>2, <1>3 DEF Contains
<1>10. OnePlace'
  <2>1. ASSUME NEW q \in AioRequests \ {r} PROVE Places(q)' = Places(q) /\ cpc'[q] = cpc[q]
    <3>1. Stays(q) /\ cpc'[q] = cpc[q]
      BY Zenon, <1>0, <1>1, <1>5, <1>8, <2>1 DEF Stays, InHand
    <3> QED BY Zenon, <3>1, StayingPlaces
  <2>2. Places(r)' = Quota(r)'
    <3>1. OnlyIn(r, "none")'
      BY Zenon, <1>0, <1>1, <1>5, <1>8, <1>9, WhereIs DEF OnlyIn, InHand
    <3>2. completions'[r] = 1 /\ Quota(r)' = 1
      <4>1. completions[r] = 0
        BY Zenon, <1>0, <1>1, <1>9, WhereIs
      <4>2. completions'[r] = 1
        BY <1>0, <1>1, <4>1 DEF TypeOK
      <4> QED BY Zenon, <1>0, <1>1, <4>2 DEF Quota, TypeOK
    <3> QED BY <3>1, <3>2, OnlyPlace
  <2> QED BY Zenon, <2>1, <2>2, OthersStay
<1>11. Clients("wait_sem")' = Clients("wait_sem") + 1 /\ Clients("posted_sem")' = Clients("posted_sem")
  <2>1. Clients("posted_sem")' = Clients("posted_sem")
    BY Zenon, <1>0, <1>1, ClientStays
  <2>2. Clients("wait_sem")' = Clients("wait_sem") + 1
    BY Zenon, <1>0, <1>1, ClientArrives
  <2> QED BY Zenon, <2>1, <2>2
<1>12. FreeTransit' = FreeTransit /\ WaitingTransit' = WaitingTransit /\ PostedTransit' = PostedTransit
  BY Zenon, <1>1 DEF FreeTransit, WaitingTransit, PostedTransit
<1>13. FreeEventsExact' /\ WaitingExact' /\ PostedExact'
  <2>1. Moves(0, 0, 0)
    <3>1. /\ Len(waiting)' = Len(waiting) - 1 /\ Len(waiting) \in Int /\ Clients("wait_sem") \in Int
          /\ Clients("posted_sem") \in Int /\ Cardinality(InKernel) \in Int
          /\ FreeTransit \in Int /\ WaitingTransit \in Int /\ PostedTransit \in Int
      BY <1>0, <1>3 DEF AccountsSay
    <3> QED BY <1>5, <1>11, <1>12, <3>1 DEF Moves
  <2> QED BY SMTT(30), <1>1, <1>4, <2>1, AccountsKept
<1> QED BY Zenon, <1>1, <1>4, <1>6, <1>7, <1>10, <1>13, RunningKeeps

\* The decrement that follows, still under waiting_mtx.
LEMMA CancelWaitingDecStep ==
    ASSUME AioConstants, SetSizes, AioInv, NEW r \in AioRequests, CancelWaitingDec(r)
    PROVE  AioInv'
<1> USE DEF AioInv
<1>0. TypeOK /\ ThreadsKnown /\ AccountsSay /\ num_waiting \in Nat
      /\ cpc \in [AioRequests -> ClientPcs] /\ cpc[r] = "wait_sem" /\ "cancelled" \in ClientPcs
  BY Zenon, Accounts DEF TypeOK, CancelWaitingDec, ClientPcs
<1>1. /\ Running /\ UNCHANGED <<phase, max_events, waiting, inflight, ready, pc, cur, events,
                                completions, num_free, num_posted, owner>>
      /\ cpc' = [cpc EXCEPT ![r] = "cancelled"] /\ num_waiting' = num_waiting - 1
  BY Zenon DEF CancelWaitingDec
<1>2. TypeOK'
  BY <1>0 DEF CancelWaitingDec, TypeOK
<1>3. InKernel' = InKernel
  BY Zenon, <1>1 DEF InKernel
<1>4. ThreadsKnown' /\ WaitingOnce'
  BY Zenon, <1>0, <1>1, <1>3 DEF ThreadsKnown, WaitingOnce
<1>5. OnePlace'
  <2>1. \A q \in AioRequests : Places(q)' = Places(q)
    BY Zenon, <1>1, <1>3 DEF Places, InHand
  <2>2. Places(r)' = Quota(r)'
    BY Zenon, <1>0, <1>1, <2>1, PlacesQuota DEF Quota
  <2>3. \A q \in AioRequests \ {r} : cpc'[q] = cpc[q]
    BY Zenon, <1>0, <1>1
  <2> QED BY Zenon, <2>1, <2>2, <2>3, OthersStay
<1>6. Clients("wait_sem")' = Clients("wait_sem") - 1 /\ Clients("posted_sem")' = Clients("posted_sem")
  <2>1. Clients("posted_sem")' = Clients("posted_sem")
    BY Zenon, <1>0, <1>1, ClientStays
  <2>2. Clients("wait_sem")' = Clients("wait_sem") - 1
    BY Zenon, <1>0, <1>1, ClientLeaves
  <2> QED BY Zenon, <2>1, <2>2
<1>7. FreeTransit' = FreeTransit /\ WaitingTransit' = WaitingTransit - 1 /\ PostedTransit' = PostedTransit
  BY <1>0, <1>1 DEF FreeTransit, WaitingTransit, PostedTransit, B
<1>8. FreeEventsExact' /\ WaitingExact' /\ PostedExact'
  <2>1. Moves(0, -1, 0)
    BY <1>0, <1>1, <1>3, <1>6, <1>7 DEF AccountsSay, Moves
  <2> QED BY SMTT(30), <1>1, <1>2, <2>1, AccountsKept
<1> QED BY Zenon, <1>1, <1>2, <1>4, <1>5, <1>8, RunningKeeps

\* cancel_request of a request that is not waiting: the kernel refuses, or the
\* cancelled request leaves it and is completed.
LEMMA CancelPostedStep ==
    ASSUME AioConstants, SetSizes, AioInv, NEW r \in AioRequests, CancelPosted(r)
    PROVE  AioInv'
<1> USE DEF AioInv
<1>0. TypeOK /\ ThreadsKnown /\ AccountsSay /\ num_free \in Nat
      /\ cpc \in [AioRequests -> ClientPcs] /\ cpc[r] = "queued"
      /\ "not_cancelled" \in ClientPcs /\ "posted_sem" \in ClientPcs
      /\ completions \in [AioRequests -> Nat]
  BY Zenon, Accounts DEF TypeOK, CancelPosted, ClientPcs
<1>1. /\ Running /\ UNCHANGED <<phase, max_events, waiting, ready, pc, state, cur, count, events,
                                num_waiting, num_posted, posted, owner, refused>>
  BY Zenon DEF CancelPosted
<1>2. CASE /\ cpc' = [cpc EXCEPT ![r] = "not_cancelled"]
           /\ UNCHANGED <<inflight, completions, num_free>>
  <2>1. TypeOK'
    BY Zenon, <1>0, <1>1, <1>2 DEF TypeOK
  <2>2. InKernel' = InKernel
    BY Zenon, <1>1, <1>2 DEF InKernel
  <2>3. ThreadsKnown' /\ WaitingOnce'
    BY Zenon, <1>0, <1>1, <2>2 DEF ThreadsKnown, WaitingOnce
  <2>4. OnePlace'
    <3>1. \A q \in AioRequests : Places(q)' = Places(q)
      BY Zenon, <1>1, <1>2, <2>2 DEF Places, InHand
    <3>2. Places(r)' = Quota(r)'
      BY Zenon, <1>0, <1>2, <3>1, PlacesQuota DEF Quota
    <3>3. \A q \in AioRequests \ {r} : cpc'[q] = cpc[q]
      BY Zenon, <1>0, <1>2
    <3> QED BY Zenon, <3>1, <3>2, <3>3, OthersStay
  <2>5. Clients("wait_sem")' = Clients("wait_sem") /\ Clients("posted_sem")' = Clients("posted_sem")
    BY Zenon, <1>0, <1>2, ClientStays
  <2>6. FreeTransit' = FreeTransit /\ WaitingTransit' = WaitingTransit /\ PostedTransit' = PostedTransit
    BY Zenon, <1>1, <1>2 DEF FreeTransit, WaitingTransit, PostedTransit
  <2>7. FreeEventsExact' /\ WaitingExact' /\ PostedExact'
    <3>1. Moves(0, 0, 0)
      BY <1>0, <1>1, <2>2, <2>5, <2>6 DEF AccountsSay, Moves
    <3> QED BY SMTT(30), <1>1, <2>1, <3>1, AccountsKept
  <2> QED BY Zenon, <1>1, <2>1, <2>3, <2>4, <2>7, RunningKeeps
<1>3. CASE /\ r \in inflight /\ inflight' = inflight \ {r}
           /\ completions' = [completions EXCEPT ![r] = @ + 1]
           /\ num_free' = num_free + 1
           /\ cpc' = [cpc EXCEPT ![r] = "posted_sem"]
  <2>1. TypeOK'
    BY <1>0, <1>1, <1>3 DEF TypeOK
  <2>2. /\ r \notin ready /\ r \notin events["post"] /\ r \notin events["wait"] /\ ~InHand(r)
        /\ ~Contains(waiting, r) /\ completions[r] = 0 /\ r \in InKernel
    BY Zenon, <1>0, <1>3, WhereIs DEF InKernel
  <2>3. InKernel' = InKernel \ {r}
    BY Zenon, <1>1, <1>3, <2>2 DEF InKernel
  <2>4. Cardinality(InKernel)' = Cardinality(InKernel) - 1
    BY Zenon, <1>0, <2>2, <2>3, KernelFinite DEF SetSizes
  <2>5. ThreadsKnown' /\ WaitingOnce'
    BY Zenon, <1>0, <1>1, <2>3 DEF ThreadsKnown, WaitingOnce
  <2>6. OnePlace'
    <3>1. ASSUME NEW q \in AioRequests \ {r} PROVE Places(q)' = Places(q) /\ cpc'[q] = cpc[q]
      <4>1. Stays(q) /\ cpc'[q] = cpc[q]
        BY Zenon, <1>0, <1>1, <1>3, <2>3, <3>1 DEF Stays, InHand
      <4> QED BY Zenon, <4>1, StayingPlaces
    <3>2. ~InHand(r)'
      BY Zenon, <1>0, <1>1, <2>2, <2>3 DEF InHand, ThreadsKnown
    <3>3. Places(r)' = Quota(r)'
      <4>1. OnlyIn(r, "none")'
        BY Zenon, <1>0, <1>1, <1>3, <2>2, <3>2 DEF OnlyIn, InHand
      <4>2. completions'[r] = 1 /\ Quota(r)' = 1
        <5>1. completions'[r] = 1
          BY <1>0, <1>3, <2>2
        <5> QED BY Zenon, <1>0, <1>1, <1>3, <5>1 DEF Quota, TypeOK
      <4> QED BY <4>1, <4>2, OnlyPlace
    <3> QED BY Zenon, <3>1, <3>3, OthersStay
  <2>7. Clients("wait_sem")' = Clients("wait_sem") /\ Clients("posted_sem")' = Clients("posted_sem") + 1
    <3>1. Clients("wait_sem")' = Clients("wait_sem")
      BY Zenon, <1>0, <1>3, ClientStays
    <3>2. Clients("posted_sem")' = Clients("posted_sem") + 1
      BY Zenon, <1>0, <1>3, ClientArrives
    <3> QED BY Zenon, <3>1, <3>2
  <2>8. FreeTransit' = FreeTransit + 1 /\ WaitingTransit' = WaitingTransit /\ PostedTransit' = PostedTransit
    BY <1>0, <1>1, <1>3 DEF FreeTransit, WaitingTransit, PostedTransit, B
  <2>9. FreeEventsExact' /\ WaitingExact' /\ PostedExact'
    <3>1. Moves(-1, 0, 1)
      BY <1>0, <1>1, <2>4, <2>7, <2>8 DEF AccountsSay, Moves
    <3> QED BY SMTT(30), <1>1, <2>1, <3>1, AccountsKept
  <2> QED BY Zenon, <1>1, <2>1, <2>5, <2>6, <2>9, RunningKeeps
<1> QED BY Zenon, <1>2, <1>3 DEF CancelPosted

\* The decrement that follows, and the second completed().
LEMMA CancelPostedDecStep ==
    ASSUME AioConstants, SetSizes, AioInv, NEW r \in AioRequests, CancelPostedDec(r)
    PROVE  AioInv'
<1> USE DEF AioInv
<1>0. TypeOK /\ ThreadsKnown /\ AccountsSay /\ num_posted \in Nat
      /\ cpc \in [AioRequests -> ClientPcs] /\ cpc[r] = "posted_sem" /\ "segv" \in ClientPcs
      /\ completions \in [AioRequests -> Nat]
  BY Zenon, Accounts DEF TypeOK, CancelPostedDec, ClientPcs
<1>1. /\ Running /\ UNCHANGED <<phase, max_events, waiting, inflight, ready, pc, cur, events,
                                num_waiting, num_free, owner>>
      /\ cpc' = [cpc EXCEPT ![r] = "segv"] /\ num_posted' = num_posted - 1
      /\ completions' = [completions EXCEPT ![r] = @ + 1]
  BY Zenon DEF CancelPostedDec
<1>2. TypeOK'
  BY <1>0 DEF CancelPostedDec, TypeOK
<1>3. InKernel' = InKernel
  BY Zenon, <1>1 DEF InKernel
<1>4. ThreadsKnown' /\ WaitingOnce'
  BY Zenon, <1>0, <1>1, <1>3 DEF ThreadsKnown, WaitingOnce
<1>5. OnePlace'
  <2>1. ASSUME NEW q \in AioRequests \ {r} PROVE Places(q)' = Places(q) /\ cpc'[q] = cpc[q]
    BY Zenon, <1>0, <1>1, <1>3, <2>1 DEF Places, InHand
  <2>2. Places(r) = 1
    BY Zenon, <1>0, PlacesQuota DEF Quota
  <2>3. Places(r)' = Places(r) + 1
    <3>1. CompletesMore(r) /\ completions[r] \in Nat
      BY Zenon, <1>0, <1>1, <1>3 DEF CompletesMore, InHand, TypeOK
    <3> QED BY Zenon, <3>1, MorePlaces
  <2>4. Quota(r)' = 2
    BY Zenon, <1>0, <1>1 DEF Quota
  <2>5. Places(r)' = Quota(r)'
    BY <2>2, <2>3, <2>4
  <2> QED BY Zenon, <2>1, <2>5, OthersStay
<1>6. Clients("wait_sem")' = Clients("wait_sem") /\ Clients("posted_sem")' = Clients("posted_sem") - 1
  <2>1. Clients("wait_sem")' = Clients("wait_sem")
    BY Zenon, <1>0, <1>1, ClientStays
  <2>2. Clients("posted_sem")' = Clients("posted_sem") - 1
    BY Zenon, <1>0, <1>1, ClientLeaves
  <2> QED BY Zenon, <2>1, <2>2
<1>7. FreeTransit' = FreeTransit /\ WaitingTransit' = WaitingTransit /\ PostedTransit' = PostedTransit - 1
  BY <1>0, <1>1 DEF FreeTransit, WaitingTransit, PostedTransit, B
<1>8. FreeEventsExact' /\ WaitingExact' /\ PostedExact'
  <2>1. Moves(0, 0, -1)
    BY <1>0, <1>1, <1>3, <1>6, <1>7 DEF AccountsSay, Moves
  <2> QED BY SMTT(30), <1>1, <1>2, <2>1, AccountsKept
<1> QED BY Zenon, <1>1, <1>2, <1>4, <1>5, <1>8, RunningKeeps

\* The kernel finishes a request: it stays in the kernel.
LEMMA KernelDoneStep ==
    ASSUME AioConstants, SetSizes, AioInv, NEW r \in AioRequests, KernelDone(r)
    PROVE  AioInv'
<1> USE DEF AioInv
<1>0. TypeOK /\ ThreadsKnown /\ AccountsSay /\ cpc[r] # "segv" /\ r \in inflight
  BY Zenon, Accounts DEF KernelDone, Running
<1>1. /\ Running /\ UNCHANGED <<phase, max_events, waiting, pc, cur, events, cpc, completions,
                                num_waiting, num_free, num_posted, owner>>
      /\ inflight' = inflight \ {r} /\ ready' = ready \cup {r}
  BY Zenon DEF KernelDone
<1>2. TypeOK'
  BY Zenon, <1>0 DEF KernelDone, TypeOK
<1>3. InKernel' = InKernel
  BY Zenon, <1>0, <1>1 DEF InKernel
<1>4. ThreadsKnown' /\ WaitingOnce'
  BY Zenon, <1>0, <1>1, <1>3 DEF ThreadsKnown, WaitingOnce
<1>5. OnePlace'
  <2>1. ASSUME NEW q \in AioRequests \ {r} PROVE Places(q)' = Places(q) /\ cpc'[q] = cpc[q]
    <3>1. Stays(q) /\ cpc'[q] = cpc[q]
      BY Zenon, <1>1, <1>3, <2>1 DEF Stays, InHand
    <3> QED BY Zenon, <3>1, StayingPlaces
  <2>2. /\ r \notin ready /\ r \notin events["post"] /\ r \notin events["wait"] /\ ~InHand(r)
        /\ ~Contains(waiting, r) /\ completions[r] = 0 /\ cpc[r] # "new"
    BY Zenon, <1>0, WhereIs
  <2>3. Places(r)' = Quota(r)'
    <3>1. OnlyIn(r, "ready")'
      BY Zenon, <1>0, <1>1, <1>3, <2>2 DEF OnlyIn, InHand
    <3>2. completions'[r] = 0 /\ Quota(r)' = 1
      BY Zenon, <1>0, <1>1, <1>3, <2>2 DEF Quota, TypeOK
    <3> QED BY <3>1, <3>2, OnlyPlace
  <2> QED BY Zenon, <2>1, <2>3, OthersStay
<1>6. FreeTransit' = FreeTransit /\ WaitingTransit' = WaitingTransit /\ PostedTransit' = PostedTransit
      /\ Clients("wait_sem")' = Clients("wait_sem") /\ Clients("posted_sem")' = Clients("posted_sem")
  BY Zenon, <1>1 DEF FreeTransit, WaitingTransit, PostedTransit, Clients
<1>7. FreeEventsExact' /\ WaitingExact' /\ PostedExact'
  <2>1. Moves(0, 0, 0)
    BY <1>0, <1>1, <1>3, <1>6 DEF AccountsSay, Moves
  <2> QED BY SMTT(30), <1>1, <1>2, <2>1, AccountsKept
<1> QED BY Zenon, <1>1, <1>2, <1>4, <1>5, <1>7, RunningKeeps

\* post_requests takes the first waiting request, or puts back the unit it took
\* from the semaphore.
LEMMA PostPopStep ==
    ASSUME AioConstants, SetSizes, AioInv, PostPop
    PROVE  AioInv'
<1> USE DEF AioInv
<1>0. TypeOK /\ ThreadsKnown /\ AccountsSay /\ num_waiting \in Nat /\ waiting \in Seq(AioRequests)
      /\ pc["post"] = "pop" /\ cur = {} /\ Running
  BY Zenon, Accounts DEF TypeOK, PostPop, ThreadsKnown, Goto
<1>1. UNCHANGED <<phase, max_events, posted, num_free, num_posted, inflight, ready, state, count,
                  events, cpc, completions, owner, refused>>
  BY Zenon DEF PostPop
<1>2. CASE waiting = <<>>
  <2>1. /\ num_waiting' = num_waiting + 1 /\ UNCHANGED <<cur, waiting>>
        /\ pc'["post"] = "sem" /\ pc'["wait"] = pc["wait"]
        /\ pc' = [pc EXCEPT !["post"] = "sem"]
    BY Zenon, <1>0, <1>2 DEF PostPop, Goto, TypeOK, Threads
  <2>2. TypeOK'
    BY <1>0, <1>1, <2>1 DEF TypeOK, Threads
  <2>3. ThreadsKnown'
    BY Zenon, <1>0, <1>1, <2>1 DEF ThreadsKnown, InKernel, Threads
  <2>4. FreeTransit' = FreeTransit /\ WaitingTransit' = WaitingTransit /\ PostedTransit' = PostedTransit
    BY <1>0, <1>1, <2>1 DEF FreeTransit, WaitingTransit, PostedTransit, B
  <2> QED BY Zenon, <1>0, <1>1, <2>1, <2>2, <2>3, <2>4, ControlKept
<1>3. CASE waiting # <<>>
  <2>0. PICK h \in AioRequests : h = Head(waiting)
    BY <1>0, <1>3
  <2>1. /\ cur' = {h} /\ waiting' = Tail(waiting) /\ num_waiting' = num_waiting
        /\ pc'["post"] = "free" /\ pc'["wait"] = pc["wait"]
        /\ pc' = [pc EXCEPT !["post"] = "free"]
    BY Zenon, <1>0, <1>3, <2>0 DEF PostPop, Goto, TypeOK, Threads
  <2>2. /\ Len(waiting) \in Nat /\ Len(waiting) >= 1 /\ DOMAIN waiting = 1..Len(waiting)
        /\ h \in AioRequests /\ h = waiting[1]
        /\ waiting' \in Seq(AioRequests) /\ Len(waiting') = Len(waiting) - 1
        /\ DOMAIN waiting' = 1..(Len(waiting) - 1)
        /\ \A i \in 1..(Len(waiting) - 1) : waiting'[i] = waiting[i + 1]
    BY <1>0, <1>3, <2>0, <2>1
  <2>3. TypeOK'
    BY Zenon, <1>0, <1>1, <2>1, <2>2 DEF TypeOK, Threads
  <2>4. InKernel' = InKernel
    BY Zenon, <1>1 DEF InKernel
  <2>5. Contains(waiting, h) /\ cpc[h] # "segv"
    BY <1>0, <2>2 DEF Contains, Running
  <2>6. /\ h \notin inflight /\ h \notin ready /\ h \notin events["post"] /\ h \notin events["wait"]
        /\ completions[h] = 0 /\ cpc[h] # "new" /\ h \notin InKernel
    BY Zenon, <1>0, <2>2, <2>5, WhereIs DEF InKernel
  <2>7. ThreadsKnown'
    BY Zenon, <1>0, <1>1, <2>1, <2>2, <2>4, <2>6 DEF ThreadsKnown, Threads
  <2>8. \A a, b \in 1..Len(waiting) : waiting[a] = waiting[b] => a = b
    BY Zenon, <2>2 DEF WaitingOnce
  <2>9. WaitingOnce'
    <3> SUFFICES ASSUME NEW k \in 1..(Len(waiting) - 1), NEW m \in 1..(Len(waiting) - 1),
                        waiting'[k] = waiting'[m]
                 PROVE  k = m
      BY Zenon, <2>2 DEF WaitingOnce
    <3>1. k + 1 \in 1..Len(waiting) /\ m + 1 \in 1..Len(waiting) /\ waiting[k + 1] = waiting[m + 1]
      BY <2>2
    <3>2. k + 1 = m + 1
      BY Zenon, <2>8, <3>1
    <3> QED BY <3>2
  <2>10. \A q \in AioRequests : Contains(waiting, q)' <=> Contains(waiting, q) /\ q # h
    <3>1. ASSUME NEW q \in AioRequests, NEW k \in 1..(Len(waiting) - 1), waiting'[k] = q
          PROVE  q # h /\ \E j \in 1..Len(waiting) : waiting[j] = q
      <4>1. k + 1 \in 1..Len(waiting) /\ waiting[k + 1] = q /\ k + 1 # 1 /\ 1 \in 1..Len(waiting)
        BY <2>2, <3>1
      <4>2. waiting[k + 1] # waiting[1]
        BY Zenon, <2>8, <4>1
      <4> QED BY Zenon, <2>2, <4>1, <4>2
    <3>2. ASSUME NEW q \in AioRequests, NEW j \in 1..Len(waiting), waiting[j] = q, q # h
          PROVE  \E k \in 1..(Len(waiting) - 1) : waiting'[k] = q
      <4>1. j - 1 \in 1..(Len(waiting) - 1) /\ (j - 1) + 1 = j
        BY <2>2, <3>2
      <4>2. waiting'[j - 1] = q
        BY Zenon, <2>2, <3>2, <4>1
      <4> QED BY Zenon, <4>1, <4>2
    <3> QED BY Zenon, <2>2, <3>1, <3>2 DEF Contains
  <2>11. OnePlace'
    <3>1. ASSUME NEW q \in AioRequests \ {h} PROVE Places(q)' = Places(q) /\ cpc'[q] = cpc[q]
      <4>1. Stays(q) /\ cpc'[q] = cpc[q]
        BY Zenon, <1>0, <1>1, <2>1, <2>4, <2>10, <3>1 DEF Stays, InHand
      <4> QED BY Zenon, <4>1, StayingPlaces
    <3>2. InHand(h)' /\ ~Contains(waiting, h)'
      BY Zenon, <2>1, <2>2, <2>4, <2>6, <2>10 DEF InHand
    <3>3. Places(h)' = Quota(h)'
      <4>1. OnlyIn(h, "hand")'
        BY Zenon, <1>0, <1>1, <2>2, <2>5, <2>6, <3>2 DEF OnlyIn, InHand
      <4>2. completions'[h] = 0 /\ Quota(h)' = 1
        BY Zenon, <1>0, <1>1, <2>2, <2>5, <2>6, <3>2 DEF Quota, TypeOK
      <4> QED BY <4>1, <4>2, OnlyPlace
    <3> QED BY Zenon, <2>2, <3>1, <3>3, OthersStay
  <2>12. FreeTransit' = FreeTransit /\ WaitingTransit' = WaitingTransit - 1 /\ PostedTransit' = PostedTransit
         /\ Clients("wait_sem")' = Clients("wait_sem") /\ Clients("posted_sem")' = Clients("posted_sem")
    <3>1. Clients("wait_sem")' = Clients("wait_sem") /\ Clients("posted_sem")' = Clients("posted_sem")
      BY Zenon, <1>1 DEF Clients
    <3>2. FreeTransit' = FreeTransit /\ WaitingTransit' = WaitingTransit - 1 /\ PostedTransit' = PostedTransit
      BY <1>0, <1>1, <2>1 DEF FreeTransit, WaitingTransit, PostedTransit, B
    <3> QED BY Zenon, <3>1, <3>2
  <2>13. FreeEventsExact' /\ WaitingExact' /\ PostedExact'
    <3>1. Moves(0, -1, 0)
      BY <1>0, <2>2, <2>4, <2>12 DEF AccountsSay, Moves
    <3> QED BY SMTT(30), <1>1, <2>3, <3>1, AccountsKept
  <2> QED BY Zenon, <1>0, <1>1, <2>3, <2>7, <2>9, <2>11, <2>13, RunningKeeps
<1> QED BY Zenon, <1>2, <1>3

\* io_submit takes the request into the kernel, or refuses it.
LEMMA PostSubmitStep ==
    ASSUME AioConstants, SetSizes, AioInv, PostSubmit
    PROVE  AioInv'
<1> USE DEF AioInv
<1>0. TypeOK /\ ThreadsKnown /\ AccountsSay /\ num_posted \in Nat /\ num_free \in Nat
      /\ num_waiting \in Nat /\ pc["post"] = "submit" /\ Running
  BY Zenon, Accounts DEF TypeOK, PostSubmit, Goto
<1>1. UNCHANGED <<phase, max_events, waiting, posted, num_waiting, num_free, num_posted, ready,
                  state, cur, count, events, cpc, completions, owner>>
  BY Zenon DEF PostSubmit
<1>2. CASE refused' = TRUE /\ pc' = [pc EXCEPT !["post"] = "get"] /\ UNCHANGED inflight
  <2>1. pc'["post"] = "get" /\ pc'["wait"] = pc["wait"]
    BY Zenon, <1>0, <1>2 DEF TypeOK, Threads
  <2>2. TypeOK'
    BY Zenon, <1>0, <1>1, <1>2 DEF TypeOK, Threads
  <2>3. ThreadsKnown'
    BY Zenon, <1>0, <1>1, <1>2, <2>1 DEF ThreadsKnown, InKernel, Threads
  <2>4. FreeTransit' = FreeTransit /\ WaitingTransit' = WaitingTransit /\ PostedTransit' = PostedTransit
    BY Zenon, <1>0, <1>1, <2>1 DEF FreeTransit, WaitingTransit, PostedTransit, B
  <2> QED BY Zenon, <1>0, <1>1, <1>2, <2>1, <2>2, <2>3, <2>4, ControlKept
<1>3. CASE inflight' = inflight \cup cur /\ pc' = [pc EXCEPT !["post"] = "push"] /\ UNCHANGED refused
  <2>1. pc'["post"] = "push" /\ pc'["wait"] = pc["wait"]
    BY Zenon, <1>0, <1>3 DEF TypeOK, Threads
  <2>2. PICK c \in AioRequests : cur = {c}
    BY Zenon, <1>0 DEF ThreadsKnown
  <2>3. c \notin InKernel /\ cpc[c] # "segv" /\ InHand(c)
    BY Zenon, <1>0, <2>2 DEF ThreadsKnown, Running, InHand
  <2>4. InKernel' = InKernel \cup {c}
    BY Zenon, <1>1, <1>3, <2>2 DEF InKernel
  <2>5. Cardinality(InKernel)' = Cardinality(InKernel) + 1
    BY Zenon, <1>0, <2>3, <2>4, KernelFinite DEF SetSizes
  <2>6. TypeOK'
    BY Zenon, <1>0, <1>1, <1>3 DEF TypeOK, Threads
  <2>7. ThreadsKnown' /\ WaitingOnce'
    BY Zenon, <1>0, <1>1, <2>1, <2>2 DEF ThreadsKnown, Threads, WaitingOnce
  <2>8. OnePlace'
    <3>1. ASSUME NEW q \in AioRequests \ {c} PROVE Places(q)' = Places(q) /\ cpc'[q] = cpc[q]
      <4>1. Stays(q) /\ cpc'[q] = cpc[q]
        BY Zenon, <1>1, <1>3, <2>2, <3>1 DEF Stays, InHand
      <4> QED BY Zenon, <4>1, StayingPlaces
    <3>2. /\ c \notin inflight /\ c \notin ready /\ c \notin events["post"] /\ c \notin events["wait"]
          /\ ~Contains(waiting, c) /\ completions[c] = 0 /\ cpc[c] # "new"
      BY Zenon, <1>0, <2>3, WhereIs
    <3>3. Places(c)' = Quota(c)'
      <4>1. OnlyIn(c, "inflight")'
        BY Zenon, <1>0, <1>1, <1>3, <2>1, <2>2, <2>3, <3>2 DEF OnlyIn, InHand
      <4>2. completions'[c] = 0 /\ Quota(c)' = 1
        BY Zenon, <1>0, <1>1, <1>3, <2>1, <2>2, <2>3, <3>2 DEF Quota, TypeOK
      <4> QED BY <4>1, <4>2, OnlyPlace
    <3> QED BY Zenon, <3>1, <3>3, OthersStay
  <2>9. FreeTransit' = FreeTransit - 1 /\ WaitingTransit' = WaitingTransit /\ PostedTransit' = PostedTransit + 1
    BY <1>0, <1>1, <2>1 DEF FreeTransit, WaitingTransit, PostedTransit, B
  <2>10. Clients("wait_sem")' = Clients("wait_sem") /\ Clients("posted_sem")' = Clients("posted_sem")
    BY Zenon, <1>1 DEF Clients
  <2>11. FreeEventsExact' /\ WaitingExact' /\ PostedExact'
    <3>1. Moves(1, 0, 0)
      BY <1>0, <1>1, <2>5, <2>9, <2>10 DEF AccountsSay, Moves
    <3> QED BY SMTT(30), <1>1, <2>6, <3>1, AccountsKept
  <2> QED BY Zenon, <1>0, <1>1, <2>6, <2>7, <2>8, <2>11, RunningKeeps
<1> QED BY Zenon, <1>2, <1>3 DEF PostSubmit, Goto

\* The submitted request is counted.
LEMMA PostPushStep ==
    ASSUME AioConstants, SetSizes, AioInv, PostPush
    PROVE  AioInv'
<1> USE DEF AioInv
<1>0. TypeOK /\ ThreadsKnown /\ AccountsSay /\ num_posted \in Nat /\ num_free \in Nat
      /\ num_waiting \in Nat /\ pc["post"] = "push" /\ Running
  BY Zenon, Accounts DEF TypeOK, PostPush, Goto
<1>1. /\ UNCHANGED <<phase, max_events, waiting, num_waiting, num_free, inflight, ready, state,
                     count, events, cpc, completions, owner, refused>>
      /\ num_posted' = num_posted + 1 /\ cur' = {} /\ posted' = posted \cup cur
      /\ pc' = [pc EXCEPT !["post"] = "sem"] /\ pc'["post"] = "sem" /\ pc'["wait"] = pc["wait"]
  BY Zenon, <1>0 DEF PostPush, Goto, TypeOK, Threads
<1>2. TypeOK'
  BY <1>0, <1>1 DEF TypeOK, Threads
<1>3. InKernel' = InKernel
  BY Zenon, <1>1 DEF InKernel
<1>4. ThreadsKnown' /\ WaitingOnce'
  BY Zenon, <1>0, <1>1, <1>3 DEF ThreadsKnown, Threads, WaitingOnce
<1>5. OnePlace'
  <2>1. \A q \in AioRequests : InHand(q)' <=> InHand(q)
    BY Zenon, <1>0, <1>1 DEF InHand
  <2>2. \A q \in AioRequests : Places(q)' = Places(q) /\ Quota(q)' = Quota(q)
    <3>1. \A q \in AioRequests : Stays(q)
      BY Zenon, <1>1, <2>1 DEF Stays, InHand
    <3>2. \A q \in AioRequests : Quota(q)' = Quota(q)
      BY Zenon, <1>1 DEF Quota
    <3> QED BY Zenon, <3>1, <3>2, StayingPlaces
  <2> QED BY Zenon, <2>2, PlacesQuota, PlacesQuotaNext
<1>6. FreeTransit' = FreeTransit /\ WaitingTransit' = WaitingTransit /\ PostedTransit' = PostedTransit
  BY <1>0, <1>1 DEF FreeTransit, WaitingTransit, PostedTransit, B
<1>7. Clients("wait_sem")' = Clients("wait_sem") /\ Clients("posted_sem")' = Clients("posted_sem")
  BY Zenon, <1>1 DEF Clients
<1>8. FreeEventsExact' /\ WaitingExact' /\ PostedExact'
  <2>1. Moves(0, 0, 0)
    BY <1>0, <1>1, <1>3, <1>6, <1>7 DEF AccountsSay, Moves
  <2> QED BY SMTT(30), <1>1, <1>2, <2>1, AccountsKept
<1> QED BY Zenon, <1>0, <1>1, <1>2, <1>4, <1>5, <1>8, RunningKeeps

\* io_getevents: the events go from the kernel to the array of the thread.
LEMMA GetEventsStep ==
    ASSUME AioConstants, SetSizes, AioInv, NEW t \in Threads, GetEvents(t)
    PROVE  AioInv'
<1> USE DEF AioInv
<1>0. TypeOK /\ ThreadsKnown /\ AccountsSay /\ pc[t] = "get" /\ Running /\ events[t] = {}
      /\ num_posted \in Nat /\ num_free \in Nat /\ num_waiting \in Nat
  BY Zenon, Accounts DEF TypeOK, GetEvents, Goto, ThreadsKnown
<1>1. /\ UNCHANGED <<phase, max_events, waiting, posted, num_waiting, num_free, num_posted, inflight,
                     state, cur, count, cpc, completions, owner, refused>>
      /\ events' = [events EXCEPT ![t] = ready] /\ ready' = {}
      /\ pc' = [pc EXCEPT ![t] = IF t = "wait" THEN "restore" ELSE "event"]
  BY Zenon DEF GetEvents, Goto
<1>4. /\ FreeTransit' = FreeTransit /\ WaitingTransit' = WaitingTransit /\ PostedTransit' = PostedTransit
      /\ InKernel' = InKernel /\ ThreadsKnown'
      /\ \A q \in AioRequests : Places(q)' = Places(q) /\ Quota(q)' = Quota(q)
  <2>1. CASE t = "post"
    <3>1. /\ pc'["post"] = "event" /\ pc["post"] = "get" /\ pc'["wait"] = pc["wait"]
          /\ events'["post"] = ready /\ events["post"] = {} /\ events'["wait"] = events["wait"]
      BY Zenon, <1>0, <1>1, <2>1 DEF TypeOK, Threads
    <3>2. FreeTransit' = FreeTransit /\ WaitingTransit' = WaitingTransit /\ PostedTransit' = PostedTransit
      BY Zenon, <1>0, <1>1, <3>1 DEF FreeTransit, WaitingTransit, PostedTransit, B
    <3>3. InKernel' = InKernel
      BY Zenon, <1>1, <3>1 DEF InKernel
    <3>4. ThreadsKnown'
      BY Zenon, <1>0, <1>1, <3>1, <3>3 DEF ThreadsKnown, Threads
    <3>5. \A q \in AioRequests : Places(q)' = Places(q) /\ Quota(q)' = Quota(q)
      <4> SUFFICES ASSUME NEW q \in AioRequests PROVE Places(q)' = Places(q) /\ Quota(q)' = Quota(q)
        BY Zenon
      <4>1. InHand(q)' <=> InHand(q)
        BY Zenon, <1>0, <1>1, <3>1, <3>3 DEF InHand
      <4>2. Fetched(q, "post", "wait")
        BY Zenon, <1>1, <3>1, <4>1 DEF Fetched
      <4>4. Quota(q)' = Quota(q)
        BY Zenon, <1>1 DEF Quota
      <4>5. completions[q] \in Nat
        BY Zenon, <1>0 DEF TypeOK
      <4> QED BY Zenon, <4>2, <4>4, <4>5, FetchedPlaces
    <3> QED BY Zenon, <3>2, <3>3, <3>4, <3>5
  <2>2. CASE t = "wait"
    <3>1. /\ pc'["wait"] = "restore" /\ pc["wait"] = "get" /\ pc'["post"] = pc["post"]
          /\ events'["wait"] = ready /\ events["wait"] = {} /\ events'["post"] = events["post"]
      BY Zenon, <1>0, <1>1, <2>2 DEF TypeOK, Threads
    <3>2. FreeTransit' = FreeTransit /\ WaitingTransit' = WaitingTransit /\ PostedTransit' = PostedTransit
      BY Zenon, <1>0, <1>1, <3>1 DEF FreeTransit, WaitingTransit, PostedTransit, B
    <3>3. InKernel' = InKernel
      BY Zenon, <1>1, <3>1 DEF InKernel
    <3>4. ThreadsKnown'
      BY Zenon, <1>0, <1>1, <3>1, <3>3 DEF ThreadsKnown, Threads
    <3>5. \A q \in AioRequests : Places(q)' = Places(q) /\ Quota(q)' = Quota(q)
      <4> SUFFICES ASSUME NEW q \in AioRequests PROVE Places(q)' = Places(q) /\ Quota(q)' = Quota(q)
        BY Zenon
      <4>1. InHand(q)' <=> InHand(q)
        BY Zenon, <1>0, <1>1, <3>1, <3>3 DEF InHand
      <4>2. Fetched(q, "wait", "post")
        BY Zenon, <1>1, <3>1, <4>1 DEF Fetched
      <4>4. Quota(q)' = Quota(q)
        BY Zenon, <1>1 DEF Quota
      <4>5. completions[q] \in Nat
        BY Zenon, <1>0 DEF TypeOK
      <4> QED BY Zenon, <4>2, <4>4, <4>5, FetchedPlaces
    <3> QED BY Zenon, <3>2, <3>3, <3>4, <3>5
  <2> QED BY Zenon, <2>1, <2>2 DEF Threads
<1>5. TypeOK'
  BY Zenon, <1>0, <1>1 DEF TypeOK, Threads
<1>6. OnePlace' /\ WaitingOnce'
  BY Zenon, <1>1, <1>4, PlacesQuota, PlacesQuotaNext DEF WaitingOnce
<1>7. Clients("wait_sem")' = Clients("wait_sem") /\ Clients("posted_sem")' = Clients("posted_sem")
  BY Zenon, <1>1 DEF Clients
<1>8. FreeEventsExact' /\ WaitingExact' /\ PostedExact'
  <2>1. Moves(0, 0, 0)
    BY <1>0, <1>1, <1>4, <1>7 DEF AccountsSay, Moves
  <2> QED BY SMTT(30), <1>1, <1>5, <2>1, AccountsKept
<1> QED BY Zenon, <1>0, <1>1, <1>4, <1>5, <1>6, <1>8, RunningKeeps

\* handle_events completes a request, which leaves the kernel.
LEMMA HandleEventStep ==
    ASSUME AioConstants, SetSizes, AioInv, NEW t \in Threads, HandleEvent(t)
    PROVE  AioInv'
<1> USE DEF AioInv
<1>0. TypeOK /\ ThreadsKnown /\ AccountsSay /\ pc[t] = "event" /\ Running
      /\ num_posted \in Nat /\ num_free \in Nat /\ num_waiting \in Nat
  BY Zenon, Accounts DEF TypeOK, HandleEvent, Goto
<1>1. PICK r \in events[t] : /\ completions' = [completions EXCEPT ![r] = @ + 1]
                             /\ events' = [events EXCEPT ![t] = @ \ {r}]
  BY Zenon DEF HandleEvent
<1>2. /\ UNCHANGED <<phase, max_events, waiting, posted, num_waiting, num_posted, inflight, ready,
                     state, cur, count, cpc, owner, refused>>
      /\ num_free' = num_free + 1 /\ pc' = [pc EXCEPT ![t] = "dec"]
  BY Zenon DEF HandleEvent, Goto
<1>3. r \in AioRequests /\ cpc[r] # "segv" /\ r \in InKernel /\ completions \in [AioRequests -> Nat]
  BY Zenon, <1>0, <1>1 DEF TypeOK, Running, InKernel, Threads
<1>4. TypeOK'
  BY <1>0, <1>1, <1>2 DEF TypeOK, Threads
<1>7. /\ FreeTransit' = FreeTransit + 1 /\ WaitingTransit' = WaitingTransit
      /\ PostedTransit' = PostedTransit - 1
      /\ InKernel' = InKernel \ {r} /\ ThreadsKnown' /\ Places(r)' = Quota(r)'
      /\ \A q \in AioRequests \ {r} : Places(q)' = Places(q) /\ cpc'[q] = cpc[q]
  <2>1. CASE t = "post"
    <3>1. /\ pc'["post"] = "dec" /\ pc["post"] = "event" /\ pc'["wait"] = pc["wait"]
          /\ events'["post"] = events["post"] \ {r} /\ events'["wait"] = events["wait"]
          /\ r \in events["post"]
      BY Zenon, <1>0, <1>1, <1>2, <2>1 DEF TypeOK, Threads
    <3>2. FreeTransit' = FreeTransit + 1 /\ WaitingTransit' = WaitingTransit /\ PostedTransit' = PostedTransit - 1
      <4>1. FreeTransit' = FreeTransit + 1
        BY Zenon, <1>0, <1>2, <3>1 DEF FreeTransit, B, TypeOK
      <4>2. WaitingTransit' = WaitingTransit
        BY Zenon, <1>0, <1>2, <3>1 DEF WaitingTransit, B
      <4>3. PostedTransit' = PostedTransit - 1
        BY <1>0, <1>2, <3>1 DEF PostedTransit, B, TypeOK
      <4> QED BY Zenon, <4>1, <4>2, <4>3
    <3>3. /\ r \notin inflight /\ r \notin ready /\ r \notin events["wait"] /\ ~InHand(r)
          /\ ~Contains(waiting, r) /\ completions[r] = 0 /\ cpc[r] # "new"
      BY Zenon, <1>0, <1>3, <3>1, WhereIs
    <3>4. InKernel' = InKernel \ {r}
      BY Zenon, <1>2, <3>1, <3>3 DEF InKernel
    <3>5. ThreadsKnown'
      BY Zenon, <1>0, <1>2, <3>1, <3>4 DEF ThreadsKnown, Threads
    <3>6. ~InHand(r)'
      BY Zenon, <1>0, <1>2, <1>3, <3>1 DEF InHand, ThreadsKnown
    <3>7. Places(r)' = Quota(r)'
      <4>1. OnlyIn(r, "none")'
        BY Zenon, <1>1, <1>2, <1>3, <3>1, <3>3, <3>6 DEF OnlyIn, InHand
      <4>2. completions'[r] = 1 /\ Quota(r)' = 1
        <5>1. completions'[r] = 1
          BY SMTT(30), <1>1, <1>2, <1>3, <3>3
        <5> QED BY Zenon, <1>1, <1>2, <1>3, <3>3, <5>1 DEF Quota
      <4> QED BY <1>3, <4>1, <4>2, OnlyPlace
    <3>8. ASSUME NEW q \in AioRequests \ {r} PROVE Places(q)' = Places(q) /\ cpc'[q] = cpc[q]
      <4>1. Stays(q) /\ cpc'[q] = cpc[q]
        BY Zenon, <1>1, <1>2, <1>3, <3>1, <3>4, <3>8 DEF Stays, InHand
      <4> QED BY Zenon, <4>1, StayingPlaces
    <3> QED BY Zenon, <3>2, <3>4, <3>5, <3>7, <3>8
  <2>2. CASE t = "wait"
    <3>1. /\ pc'["wait"] = "dec" /\ pc["wait"] = "event" /\ pc'["post"] = pc["post"]
          /\ events'["wait"] = events["wait"] \ {r} /\ events'["post"] = events["post"]
          /\ r \in events["wait"]
      BY Zenon, <1>0, <1>1, <1>2, <2>2 DEF TypeOK, Threads
    <3>2. FreeTransit' = FreeTransit + 1 /\ WaitingTransit' = WaitingTransit /\ PostedTransit' = PostedTransit - 1
      <4>1. FreeTransit' = FreeTransit + 1
        BY <1>0, <1>2, <3>1 DEF FreeTransit, B, TypeOK
      <4>2. WaitingTransit' = WaitingTransit
        BY Zenon, <1>0, <1>2, <3>1 DEF WaitingTransit, B
      <4>3. PostedTransit' = PostedTransit - 1
        BY <1>0, <1>2, <3>1 DEF PostedTransit, B, TypeOK
      <4> QED BY Zenon, <4>1, <4>2, <4>3
    <3>3. /\ r \notin inflight /\ r \notin ready /\ r \notin events["post"] /\ ~InHand(r)
          /\ ~Contains(waiting, r) /\ completions[r] = 0 /\ cpc[r] # "new"
      BY Zenon, <1>0, <1>3, <3>1, WhereIs
    <3>4. InKernel' = InKernel \ {r}
      BY Zenon, <1>2, <3>1, <3>3 DEF InKernel
    <3>5. ThreadsKnown'
      BY Zenon, <1>0, <1>2, <3>1, <3>4 DEF ThreadsKnown, Threads
    <3>6. ~InHand(r)'
      BY Zenon, <1>0, <1>2, <1>3, <3>1 DEF InHand, ThreadsKnown
    <3>7. Places(r)' = Quota(r)'
      <4>1. OnlyIn(r, "none")'
        BY Zenon, <1>1, <1>2, <1>3, <3>1, <3>3, <3>6 DEF OnlyIn, InHand
      <4>2. completions'[r] = 1 /\ Quota(r)' = 1
        <5>1. completions'[r] = 1
          BY SMTT(30), <1>1, <1>2, <1>3, <3>3
        <5> QED BY Zenon, <1>1, <1>2, <1>3, <3>3, <5>1 DEF Quota
      <4> QED BY <1>3, <4>1, <4>2, OnlyPlace
    <3>8. ASSUME NEW q \in AioRequests \ {r} PROVE Places(q)' = Places(q) /\ cpc'[q] = cpc[q]
      <4>1. Stays(q) /\ cpc'[q] = cpc[q]
        BY Zenon, <1>1, <1>2, <1>3, <3>1, <3>4, <3>8 DEF Stays, InHand
      <4> QED BY Zenon, <4>1, StayingPlaces
    <3> QED BY Zenon, <3>2, <3>4, <3>5, <3>7, <3>8
  <2> QED BY Zenon, <2>1, <2>2 DEF Threads
<1>8. OnePlace' /\ WaitingOnce'
  BY Zenon, <1>2, <1>3, <1>7, OthersStay DEF WaitingOnce
<1>9. Cardinality(InKernel)' = Cardinality(InKernel) - 1
  BY Zenon, <1>0, <1>3, <1>7, KernelFinite DEF SetSizes
<1>10. Clients("wait_sem")' = Clients("wait_sem") /\ Clients("posted_sem")' = Clients("posted_sem")
  BY Zenon, <1>2 DEF Clients
<1>11. FreeEventsExact' /\ WaitingExact' /\ PostedExact'
  <2>1. Moves(-1, 0, 0)
    BY <1>0, <1>2, <1>7, <1>9, <1>10 DEF AccountsSay, Moves
  <2>2. -1 \in Int /\ 0 \in Int
    OBVIOUS
  <2> QED BY Zenon, <1>2, <1>4, <2>1, <2>2, AccountsKept
<1> QED BY Zenon, <1>0, <1>2, <1>4, <1>7, <1>8, <1>11, RunningKeeps

-----------------------------------------------------------------------------
\* The invariant holds in the constructor's first state.
LEMMA AioInit == ASSUME AioConstants, SetSizes, Init PROVE AioInv
<1>1. InKernel = {} /\ Cardinality(InKernel) = 0
  BY Zenon DEF Init, InKernel, Threads, SetSizes
<1>2. TypeOK
  <2>1. max_events \in Int
    BY DEF Init, AioConstants, Lengths
  <2>2. waiting \in Seq(AioRequests) /\ {num_waiting, num_free, num_posted} \subseteq Nat
    BY DEF Init
  <2>3. /\ pc \in [Threads -> {"sem"}] /\ state \in [Threads -> {"RUNNING"}]
        /\ count \in [Threads -> Nat] /\ events \in [Threads -> SUBSET AioRequests]
    BY Zenon DEF Init
  <2>4. cpc \in [AioRequests -> ClientPcs] /\ completions \in [AioRequests -> Nat]
    BY Zenon DEF Init, ClientPcs
  <2> QED BY Zenon, <2>1, <2>2, <2>3, <2>4 DEF Init, TypeOK
<1>3. NotStarted /\ LengthKnown
  BY <1>1 DEF Init, NotStarted, LengthKnown, AioConstants, Lengths
<1>4. ThreadsKnown /\ WaitingOnce
  BY DEF Init, ThreadsKnown, Threads, WaitingOnce
<1>5. OnePlace
  BY <1>1 DEF Init, OnePlace, Threads, B, Contains
<1>6. Clients("wait_sem") = 0
  <2>1. {r \in AioRequests : cpc[r] = "wait_sem"} = {}
    BY Zenon DEF Init
  <2> QED BY Zenon, <2>1 DEF Clients, SetSizes
<1>7. WaitingExact
  BY <1>6 DEF Init, WaitingExact, Clients, B, Threads
<1>8. FreeEventsExact /\ PostedExact
  BY Zenon DEF Init, FreeEventsExact, PostedExact
<1> QED BY Zenon, <1>2, <1>3, <1>4, <1>5, <1>7, <1>8 DEF AioInv

\* Every step keeps it.
LEMMA AioNext == ASSUME AioConstants, SetSizes, AioInv, [Next]_vars PROVE AioInv'
<1>1. CASE UNCHANGED vars
  <2> USE <1>1 DEF vars, AioInv
  <2>1. TypeOK' /\ NotStarted' /\ LengthKnown'
    BY Zenon DEF TypeOK, NotStarted, LengthKnown, InKernel
  <2>2. ThreadsKnown' /\ WaitingOnce'
    BY Zenon DEF ThreadsKnown, WaitingOnce, InKernel
  <2>3. OnePlace'
    <3>1. \A q \in AioRequests : Stays(q) /\ Quota(q)' = Quota(q)
      BY Zenon DEF Stays, InHand, InKernel, Contains, Quota
    <3>2. \A q \in AioRequests : Places(q)' = Places(q)
      BY Zenon, <3>1, StayingPlaces
    <3> QED BY Zenon, <3>1, <3>2, PlacesQuota, PlacesQuotaNext
  <2>4. FreeEventsExact' /\ PostedExact'
    BY Zenon DEF FreeEventsExact, PostedExact, InKernel, B
  <2>5. WaitingExact'
    BY Zenon DEF WaitingExact, B
  <2> QED BY Zenon, <2>1, <2>2, <2>3, <2>4, <2>5
<1>2. CASE Negotiate \/ Construct
  BY Zenon, <1>2, SetupSteps
<1>3. ASSUME NEW r \in AioRequests,
             add_request(r) \/ CancelWaiting(r) \/ CancelWaitingDec(r) \/ CancelPosted(r)
               \/ CancelPostedDec(r) \/ KernelDone(r)
      PROVE  AioInv'
  BY Zenon, <1>3, AddStep, CancelWaitingStep, CancelWaitingDecStep, CancelPostedStep, CancelPostedDecStep,
     KernelDoneStep
<1>4. ASSUME NEW t \in Threads, ThreadStep(t) PROVE AioInv'
  BY Zenon, <1>4, ThreadControl, GetEventsStep, HandleEventStep DEF ThreadStep
<1>5. CASE PostTakeEvent \/ WaitRestore
  <2>1. "post" \in Threads /\ "wait" \in Threads
    BY Zenon DEF Threads
  <2>2. CASE PostTakeEvent
    BY Zenon, <2>1, <2>2, ThreadControl
  <2>3. CASE WaitRestore
    BY Zenon, <2>1, <2>3, ThreadControl
  <2> QED BY Zenon, <1>5, <2>2, <2>3
<1>6. CASE PostPop \/ PostSubmit \/ PostPush
  BY Zenon, <1>6, PostPopStep, PostSubmitStep, PostPushStep
<1>7. CASE Destroy \/ StopWake \/ Join
  BY Zenon, <1>7, OwnerSteps
<1> QED BY Zenon, <1>1, <1>2, <1>3, <1>4, <1>5, <1>6, <1>7 DEF Next, PostStep, WaitStep, Threads

Sets == INSTANCE FiniteSetTheorems

\* The facts on sizes of finite sets that the steps use.
LEMMA SetSizesHold == SetSizes
<1>1. \A S : Sets!Cardinality(S) = Cardinality(S)
  BY Zenon DEF Sets!Cardinality, Cardinality
<1>2. \A S : Sets!IsFiniteSet(S) <=> IsFiniteSet(S)
  BY Zenon DEF Sets!IsFiniteSet, IsFiniteSet
<1>3. Cardinality({}) = 0
  BY Zenon, <1>1, Sets!FS_EmptySet
<1>4. \A S : IsFiniteSet(S) => Cardinality(S) \in Nat
  BY Zenon, <1>1, <1>2, Sets!FS_CardinalityType
<1>5. \A S, T : (IsFiniteSet(S) /\ T \subseteq S) => IsFiniteSet(T)
  BY Zenon, <1>2, Sets!FS_Subset
<1>6. \A S, x : (IsFiniteSet(S) /\ x \notin S) => Cardinality(S \cup {x}) = Cardinality(S) + 1
  BY Zenon, <1>1, <1>2, Sets!FS_AddElement
<1>7. \A S, x : (IsFiniteSet(S) /\ x \in S) => Cardinality(S \ {x}) = Cardinality(S) - 1
  BY Zenon, <1>1, <1>2, Sets!FS_RemoveElement
<1> QED BY Zenon, <1>3, <1>4, <1>5, <1>6, <1>7 DEF SetSizes

\* For any finite set of requests, any length of the queue and any behaviour of
\* the kernel: the three semaphores of linuxaio_queue are exact, a request is
\* in one place and completed once (twice only when a cancel that the kernel
\* granted ends the process), and the queue has the length asked for.
THEOREM AioIsAccounted == ASSUME AioConstants PROVE Spec => []AioAccounted
<1>0. SetSizes
  BY Zenon, SetSizesHold
<1>1. Init => AioInv
  BY Zenon, <1>0, AioInit
<1>2. AioInv /\ [Next]_vars => AioInv'
  BY Zenon, <1>0, AioNext
<1>3. AioInv => AioAccounted
  BY Zenon DEF AioInv, AioAccounted, LengthKnown, SetupAllOrNothing
<1> QED BY <1>1, <1>2, <1>3, PTL DEF Spec

=============================================================================
