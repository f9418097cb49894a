----------------------------- MODULE PoolsSteps ------------------------------
(***************************************************************************)
(* The disks, the calls that wait, the calls that move free blocks and the *)
(* destructors keep the invariant of module PoolsInvariant.                *)
(***************************************************************************)
EXTENDS PoolsInvariant

-----------------------------------------------------------------------------
(* Steps that move blocks between the free lists. *)

\* While the client moves blocks between the free lists and itself, requests
\* and contents stay as they are.
LEMMA FreeListsMove ==
    ASSUME PoolInv, cpc \in {"idle", "steal", "shrink"},
           cpc' \in {"idle", "steal", "shrink", "close_w"},
           UNCHANGED <<w_busy, p_busy, leaked, io, data, cblk>>,
           TypeOK', Places', Calls'
    PROVE  PoolInv'
<1>1. /\ w_busy' = w_busy /\ p_busy' = p_busy /\ leaked' = leaked /\ cblk' = cblk
      /\ req' = req /\ queue' = queue /\ serving' = serving
      /\ content' = content /\ stored' = stored /\ latest' = latest /\ failed' = failed
  BY Zenon DEF io, data
<1>2. Flights'
  <2>1. Flights
    BY Zenon DEF PoolInv
  <2> QED BY <1>1, <2>1 DEF Flights, Pending
<1>3. Held'
  BY Zenon, <1>1 DEF PoolInv, Held, Pending, Reading
<1>4. ASSUME Live' PROVE Fresh'
  <2>1. Fresh
    BY Zenon DEF PoolInv, Live, Closing
  <2>2. \A b \in Blocks, bid \in Bids : Writing(b, bid)' <=> Writing(b, bid)
    BY Zenon, <1>1 DEF Writing, Pending
  <2>3. \A bid \in Bids : Quiet(bid)' <=> Quiet(bid)
    BY Zenon, <2>2 DEF Quiet
  <2>4. FreshWrites'
    <3>1. \A b, c \in Blocks, bid \in Bids :
            Before(b, c, DiskOf[bid]) => Before(b, c, DiskOf[bid])'
      BY Zenon, <1>1 DEF Before
    <3>2. \A b \in Blocks, bid \in Bids : Current(b, bid) => Current(b, bid)'
      BY Zenon, <1>1 DEF Current
    <3> QED BY Zenon, <1>1, <2>1, <2>2, <3>1, <3>2, WritesKept DEF Fresh
  <2>5. FreshBusy'
    BY Zenon, <1>1, <2>1 DEF Fresh, FreshBusy
  <2>6. FreshCached'
    BY Zenon, <1>1, <2>1, <2>3 DEF Fresh, FreshCached, Promise, Delivered, Pending
  <2>7. FreshRead'
    BY Zenon DEF FreshRead
  <2> QED BY Zenon, <2>4, <2>5, <2>6, <2>7 DEF Fresh
<1> QED BY Zenon, <1>2, <1>3, <1>4 DEF PoolInv

\* write_pool::steal is called.
LEMMA StealStep == ASSUME PoolInv, Steal PROVE PoolInv' /\ Owned' = Owned
<1>1. /\ cpc = "idle" /\ cpc' = "steal"
      /\ UNCHANGED <<w_free, w_busy, p_free, p_busy, free_blocks_size, user, leaked, io, data,
                     cblk, cbid, cleft>>
  BY Zenon DEF Steal, pools
<1>2. TypeOK'
  BY Zenon, <1>1 DEF PoolInv, TypeOK, io, data
<1>3. Places' /\ Calls' /\ Owned' = Owned
  BY Zenon, <1>1 DEF PoolInv, Places, Calls, Reading, Owned
<1> QED BY Zenon, <1>1, <1>2, <1>3, FreeListsMove

\* A free block leaves the write pool.
LEMMA StealFreeStep ==
    ASSUME PoolInv, StealFree
    PROVE  PoolInv' /\ (cpc = "steal" => Owned' = Owned)
<1>0. PICK b \in w_free : w_free' = w_free \ {b} /\ TakeOut(b)
  BY Zenon DEF StealFree
<1>1. /\ cpc \in {"steal", "shrink"} /\ cblk = NoBlock
      /\ UNCHANGED <<w_busy, p_free, p_busy, free_blocks_size, leaked, io, data>>
  BY Zenon DEF StealFree, PoolInv, Calls
<1>2. CASE cpc = "shrink"
  <2>1. /\ cpc' = IF cleft = 1 THEN "idle" ELSE "shrink"
        /\ cleft' = cleft - 1 /\ UNCHANGED <<user, cblk, cbid>>
    BY Zenon, <1>0, <1>2 DEF TakeOut
  <2>2. cleft \in Nat /\ cleft > 0
    BY Zenon, <1>2 DEF PoolInv, TypeOK, Calls
  <2>3. TypeOK'
    BY <1>0, <1>1, <1>2, <2>1, <2>2 DEF PoolInv, TypeOK, io, data
  <2>4. Places'
    BY Zenon, <1>0, <1>1, <2>1 DEF PoolInv, Places, Reading, Apart
  <2>5. Calls'
    BY <1>1, <1>2, <2>1, <2>2 DEF PoolInv, Calls
  <2> QED BY Zenon, <1>1, <1>2, <2>1, <2>3, <2>4, <2>5, FreeListsMove
<1>3. CASE cpc = "steal"
  <2>1. user' = user \cup {b} /\ cpc' = "idle" /\ cblk' = NoBlock /\ cbid' = NoBid /\ cleft' = 0
    BY Zenon, <1>0, <1>3 DEF TakeOut, Return
  <2>2. TypeOK'
    BY Zenon, <1>0, <1>1, <2>1 DEF PoolInv, TypeOK, io, data
  <2>3. Places' /\ Owned' = Owned
    BY <1>0, <1>1, <2>1 DEF PoolInv, Places, Reading, Apart, Owned
  <2>4. Calls'
    BY Zenon, <1>1, <2>1 DEF PoolInv, Calls
  <2> QED BY Zenon, <1>1, <1>3, <2>1, <2>2, <2>3, <2>4, FreeListsMove
<1> QED BY Zenon, <1>1, <1>2, <1>3

\* wait_any throws in steal.
LEMMA StealThrowStep == ASSUME PoolInv, StealThrow PROVE PoolInv' /\ Owned' = Owned
<1>1. /\ cpc \in {"steal", "shrink"} /\ cblk = NoBlock
      /\ cpc' = "idle" /\ cblk' = NoBlock /\ cbid' = NoBid /\ cleft' = 0
      /\ UNCHANGED <<w_free, w_busy, p_free, p_busy, free_blocks_size, user, leaked, io, data>>
  BY Zenon DEF StealThrow, Throw, Return, pools, PoolInv, Calls
<1>2. TypeOK'
  BY Zenon, <1>1 DEF PoolInv, TypeOK, io, data
<1>3. Places' /\ Owned' = Owned
  BY Zenon, <1>1 DEF PoolInv, Places, Reading, Owned
<1>4. Calls'
  BY Zenon, <1>1 DEF PoolInv, Calls
<1> QED BY Zenon, <1>1, <1>2, <1>3, <1>4, FreeListsMove

\* write_pool::resize makes new blocks, or begins to steal.
LEMMA ResizeWriteStep ==
    ASSUME SetSizes, PoolInv, NEW n \in Nat, ResizeWrite(n)
    PROVE  PoolInv' /\ Owned \subseteq Owned'
<1> DEFINE size == Cardinality(w_free) + Len(w_busy)
<1>1. /\ cpc = "idle" /\ cblk = NoBlock
      /\ UNCHANGED <<w_busy, p_free, p_busy, free_blocks_size, user, leaked, io, data, cblk, cbid>>
  BY Zenon DEF ResizeWrite, PoolInv, Calls
<1>2. CASE n > size /\ UNCHANGED <<cpc, cleft>> /\ \E new \in SUBSET Unused : w_free' = w_free \cup new
  <2>1. PICK new \in SUBSET Unused : w_free' = w_free \cup new
    BY Zenon, <1>2
  <2>2. TypeOK'
    BY Zenon, <1>1, <1>2, <2>1 DEF PoolInv, TypeOK, io, data, Unused
  <2>3. Places' /\ Owned \subseteq Owned'
    <3>1. new \cap Owned = {}
      BY Zenon, UnusedOwned
    <3> QED BY Zenon, <1>1, <2>1, <3>1 DEF PoolInv, Places, Reading, Apart, Owned
  <2>4. Calls'
    BY Zenon, <1>1, <1>2 DEF PoolInv, Calls
  <2> QED BY Zenon, <1>1, <1>2, <2>2, <2>3, <2>4, FreeListsMove
<1>3. CASE n < size /\ cpc' = "shrink" /\ cleft' = size - n /\ UNCHANGED w_free
  <2>1. size \in Nat
    BY FiniteBlocks DEF PoolInv, TypeOK
  <2>2. cleft' \in Nat /\ cleft' > 0
    BY <1>3, <2>1
  <2>3. TypeOK'
    BY Zenon, <1>1, <1>3, <2>2 DEF PoolInv, TypeOK, io, data
  <2>4. Places' /\ Owned' = Owned
    BY Zenon, <1>1, <1>3 DEF PoolInv, Places, Reading, Owned
  <2>5. Calls'
    BY Zenon, <1>1, <1>3, <2>2 DEF PoolInv, Calls
  <2> QED BY Zenon, <1>1, <1>3, <2>3, <2>4, <2>5, FreeListsMove
<1> QED BY Zenon, <1>2, <1>3 DEF ResizeWrite

\* write_pool::add and prefetch_pool::add.
LEMMA AddStep ==
    ASSUME PoolInv, NEW b \in Blocks, Add(b)
    PROVE  PoolInv' /\ Owned' = Owned
<1>1. /\ cpc = "idle" /\ cblk = NoBlock /\ b \in user
      /\ w_free' = w_free \cup {b} /\ user' = user \ {b}
      /\ UNCHANGED <<w_busy, p_free, p_busy, free_blocks_size, leaked, io, data, cpc, cblk, cbid, cleft>>
  BY Zenon DEF Add, client, PoolInv, Calls
<1>2. TypeOK'
  BY Zenon, <1>1 DEF PoolInv, TypeOK, io, data
<1>3. Places' /\ Owned' = Owned
  BY <1>1 DEF PoolInv, Places, Reading, Apart, Owned
<1>4. Calls'
  BY Zenon, <1>1 DEF PoolInv, Calls
<1> QED BY Zenon, <1>1, <1>2, <1>3, <1>4, FreeListsMove

\* prefetch_pool::add keeps the invariant.
LEMMA AddPrefetchStep ==
    ASSUME SetSizes, PoolInv, NEW b \in Blocks, AddPrefetch(b)
    PROVE  PoolInv' /\ Owned' = Owned
<1>1. /\ cpc = "idle" /\ cblk = NoBlock /\ b \in user
      /\ p_free' = p_free \cup {b} /\ user' = user \ {b}
      /\ free_blocks_size' = free_blocks_size + 1
      /\ UNCHANGED <<w_free, w_busy, p_busy, leaked, io, data, cpc, cblk, cbid, cleft>>
  BY Zenon DEF AddPrefetch, client, PoolInv, Calls
<1>2. TypeOK'
  BY <1>1 DEF PoolInv, TypeOK, io, data
<1>3. Apart(w_free', BusyOf(w_busy'), p_free', CachedOf(p_busy'), user', leaked', Reading') /\ Owned' = Owned
  BY <1>1 DEF PoolInv, Places, Reading, Apart, Owned
<1>4. Cardinality(p_free') = Cardinality(p_free) + 1
  <2>1. b \notin p_free /\ p_free \in SUBSET Blocks
    BY Zenon, <1>1 DEF PoolInv, Places, Apart, TypeOK
  <2> QED BY <1>1, <2>1, OneMoreBlock
<1>5. Places'
  BY Zenon, <1>1, <1>3, <1>4 DEF PoolInv, Places
<1>6. Calls'
  BY Zenon, <1>1 DEF PoolInv, Calls
<1> QED BY Zenon, <1>1, <1>2, <1>3, <1>5, <1>6, FreeListsMove

\* prefetch_pool::steal.
LEMMA StealPrefetchStep == ASSUME SetSizes, PoolInv, StealPrefetch PROVE PoolInv' /\ Owned' = Owned
<1>0. PICK b \in p_free : p_free' = p_free \ {b} /\ user' = user \cup {b}
  BY Zenon DEF StealPrefetch
<1>1. /\ cpc = "idle" /\ cblk = NoBlock
      /\ free_blocks_size' = free_blocks_size - 1
      /\ UNCHANGED <<w_free, w_busy, p_busy, leaked, io, data, cpc, cblk, cbid, cleft>>
  BY Zenon DEF StealPrefetch, client, PoolInv, Calls
<1>2. Apart(w_free', BusyOf(w_busy'), p_free', CachedOf(p_busy'), user', leaked', Reading') /\ Owned' = Owned
  BY <1>0, <1>1 DEF PoolInv, Places, Reading, Apart, Owned
<1>3. Cardinality(p_free') = Cardinality(p_free) - 1 /\ Cardinality(p_free') \in Nat
  <2>1. p_free \in SUBSET Blocks /\ p_free' \in SUBSET Blocks
    BY Zenon, <1>0 DEF PoolInv, TypeOK
  <2> QED BY <1>0, <2>1, OneBlockLess, FiniteBlocks
<1>4. Places'
  BY Zenon, <1>1, <1>2, <1>3 DEF PoolInv, Places
<1>5. TypeOK'
  BY Zenon, <1>0, <1>1, <1>3, <1>4 DEF PoolInv, TypeOK, io, data, Places
<1>6. Calls'
  BY Zenon, <1>1 DEF PoolInv, Calls
<1> QED BY Zenon, <1>1, <1>2, <1>4, <1>5, <1>6, FreeListsMove

\* prefetch_pool::resize.
LEMMA ResizePrefetchStep ==
    ASSUME SetSizes, PoolInv, NEW n \in Nat, ResizePrefetch(n)
    PROVE  PoolInv'
<1> DEFINE held == Cardinality({d \in Bids : p_busy[d] # NoBlock})
           size == free_blocks_size + held
           gone == IF size - n < free_blocks_size THEN size - n ELSE free_blocks_size
<1>1. /\ cpc = "idle" /\ cblk = NoBlock
      /\ UNCHANGED <<w_free, w_busy, p_busy, user, leaked, io, data, cpc, cblk, cbid, cleft>>
  BY Zenon DEF ResizePrefetch, client, PoolInv, Calls
<1>2. held \in Nat
  BY Zenon, FiniteBids
<1>3. free_blocks_size \in Nat /\ free_blocks_size = Cardinality(p_free) /\ IsFiniteSet(p_free)
  BY Zenon, FiniteBlocks DEF PoolInv, TypeOK, Places
<1> HIDE DEF held
<1>4. ASSUME Apart(w_free', BusyOf(w_busy'), p_free', CachedOf(p_busy'), user', leaked', Reading'),
             p_free' \subseteq Blocks, free_blocks_size' = Cardinality(p_free')
      PROVE  PoolInv'
  <2>1. Places'
    BY Zenon, <1>1, <1>4 DEF PoolInv, Places
  <2>2. TypeOK'
    BY Zenon, <1>1, <1>4, FiniteBlocks DEF PoolInv, TypeOK, io, data
  <2>3. Calls'
    BY Zenon, <1>1 DEF PoolInv, Calls
  <2> QED BY Zenon, <1>1, <2>1, <2>2, <2>3, FreeListsMove
<1>5. CASE n > size /\ free_blocks_size' = free_blocks_size + (n - size)
           /\ \E new \in SUBSET Unused : Cardinality(new) = n - size /\ p_free' = p_free \cup new
  <2>1. PICK new \in SUBSET Unused : Cardinality(new) = n - size /\ p_free' = p_free \cup new
    BY Zenon, <1>5
  <2>2. Apart(w_free', BusyOf(w_busy'), p_free', CachedOf(p_busy'), user', leaked', Reading')
    <3>1. new \cap Owned = {}
      BY Zenon, UnusedOwned
    <3> QED BY <1>1, <2>1, <3>1 DEF PoolInv, Places, Reading, Apart, Owned
  <2>3. p_free \subseteq Blocks /\ new \subseteq Blocks /\ p_free \cap new = {}
    BY Zenon DEF PoolInv, TypeOK, Unused
  <2>4. Cardinality(p_free') = Cardinality(p_free) + (n - size)
    BY Zenon, <2>1, <2>3, ApartCardinality
  <2> QED BY Zenon, <1>3, <1>4, <1>5, <2>1, <2>2, <2>3, <2>4
<1>6. CASE n < size /\ free_blocks_size' = free_blocks_size - gone
           /\ \E old \in SUBSET p_free : Cardinality(old) = gone /\ p_free' = p_free \ old
  <2>1. PICK old \in SUBSET p_free : Cardinality(old) = gone /\ p_free' = p_free \ old
    BY Zenon, <1>6
  <2>2. Apart(w_free', BusyOf(w_busy'), p_free', CachedOf(p_busy'), user', leaked', Reading')
    BY Zenon, <1>1, <2>1 DEF PoolInv, Places, Reading, Apart
  <2>3. p_free' \subseteq Blocks /\ old \subseteq Blocks /\ p_free' \cap old = {} /\ p_free = p_free' \cup old
    BY Zenon, <2>1 DEF PoolInv, TypeOK
  <2>4. Cardinality(p_free) = Cardinality(p_free') + gone
    BY Zenon, <2>1, <2>3, ApartCardinality
  <2>5. Cardinality(p_free') \in Nat /\ gone \in Int
    BY <1>2, <1>3, <2>3, FiniteBlocks
  <2> HIDE DEF gone
  <2>6. free_blocks_size' = Cardinality(p_free')
    BY <1>3, <1>6, <2>4, <2>5
  <2> QED BY Zenon, <1>4, <2>2, <2>3, <2>6
<1> QED BY Zenon, <1>5, <1>6 DEF ResizePrefetch, held

\* ~write_pool begins with its free blocks.
LEMMA CloseStep == ASSUME PoolInv, Close PROVE PoolInv'
<1>1. /\ cpc = "idle" /\ cpc' = "close_w" /\ w_free' = {}
      /\ UNCHANGED <<w_busy, p_free, p_busy, free_blocks_size, user, leaked, io, data, cblk, cbid, cleft>>
  BY Zenon DEF Close
<1>2. TypeOK'
  BY Zenon, <1>1 DEF PoolInv, TypeOK, io, data
<1>3. Places'
  BY Zenon, <1>1 DEF PoolInv, Places, Reading, Apart
<1>4. Calls'
  BY Zenon, <1>1 DEF PoolInv, Calls
<1> QED BY Zenon, <1>1, <1>2, <1>3, <1>4, FreeListsMove

-----------------------------------------------------------------------------
(* The disks. *)

\* The worker takes the request at the front.
LEMMA PopFront ==
    ASSUME NEW S, NEW q \in Seq(S), q # << >>, Distinct(q)
    PROVE  /\ Head(q) \in S /\ Has(q, Head(q))
           /\ Tail(q) \in Seq(S) /\ Distinct(Tail(q))
           /\ \A b : Has(Tail(q), b) <=> (Has(q, b) /\ b # Head(q))
           /\ \A b, c : Precedes(q, b, c) =>
                /\ Has(Tail(q), c)
                /\ b = Head(q) \/ Precedes(Tail(q), b, c)
<1> DEFINE K == (DOMAIN q) \ {1}
<1>1. 1 \in DOMAIN q /\ Head(q) = q[1] /\ Head(q) \in S /\ DOMAIN q = 1..Len(q) /\ Len(q) \in Nat
  OBVIOUS
<1>2. Tail(q) \in Seq(S) /\ Keeps(Tail(q), q, K) /\ K \in SUBSET DOMAIN q
  BY Zenon, TailKeeps
<1>3. \A b : (\E m \in K : q[m] = b) <=> (Has(q, b) /\ b # Head(q))
  BY Zenon, <1>1 DEF Has, Distinct
<1> HIDE DEF K
<1>4. /\ Distinct(Tail(q))
      /\ \A b : Has(Tail(q), b) <=> \E m \in K : q[m] = b
      /\ \A b, c : ((\E m \in K : q[m] = b) /\ (\E m \in K : q[m] = c) /\ Precedes(q, b, c))
                       => Precedes(Tail(q), b, c)
  BY Zenon, <1>2, KeepsQueue
<1>5. \A b, c : Precedes(q, b, c) => Has(q, b) /\ Has(q, c) /\ c # Head(q)
  <2> SUFFICES ASSUME NEW b, NEW c, Precedes(q, b, c) PROVE Has(q, b) /\ Has(q, c) /\ c # Head(q)
    BY Zenon
  <2>1. PICK i, j \in DOMAIN q : i < j /\ q[i] = b /\ q[j] = c
    BY Zenon DEF Precedes
  <2>2. j # 1
    BY <1>1, <2>1
  <2> QED BY Zenon, <1>1, <2>1, <2>2 DEF Has, Distinct
<1>6. Has(q, Head(q))
  BY Zenon, <1>1 DEF Has
<1> QED BY Zenon, <1>1, <1>2, <1>3, <1>4, <1>5, <1>6

\* A worker that takes the next request of its disk keeps the invariant.
LEMMA ServeStep == ASSUME PoolInv, NEW d \in Disks, Serve(d) PROVE PoolInv' /\ Owned' = Owned
<1>1. PICK op \in Ops : /\ queue[d][op] # <<>>
                        /\ serving' = [serving EXCEPT ![d] = Head(queue[d][op])]
                        /\ queue' = [queue EXCEPT ![d][op] = Tail(@)]
  BY Zenon DEF Serve
<1>2. /\ serving[d] = NoBlock
      /\ UNCHANGED <<w_free, w_busy, p_free, p_busy, free_blocks_size, user, leaked, req,
                     content, stored, latest, failed, cpc, cblk, cbid, cleft>>
  BY Zenon DEF Serve, pools, data, client
<1>3. TypeOK /\ Flights /\ queue[d][op] \in Seq(Blocks) /\ Distinct(queue[d][op])
  BY DEF PoolInv, TypeOK, Flights
<1>4. PICK h \in Blocks : h = Head(queue[d][op])
  BY Zenon, <1>1, <1>3, PopFront
<1>5. /\ Has(queue[d][op], h)
      /\ Tail(queue[d][op]) \in Seq(Blocks) /\ Distinct(Tail(queue[d][op]))
      /\ \A b : Has(Tail(queue[d][op]), b) <=> (Has(queue[d][op], b) /\ b # h)
      /\ \A b, c : Precedes(queue[d][op], b, c) =>
           /\ Has(Tail(queue[d][op]), c)
           /\ b = h \/ Precedes(Tail(queue[d][op]), b, c)
  BY Zenon, <1>1, <1>3, <1>4, PopFront
<1>6. /\ serving' \in [Disks -> Blocks \cup {NoBlock}]
      /\ serving'[d] = h /\ \A e \in Disks \ {d} : serving'[e] = serving[e]
  BY Zenon, <1>1, <1>3, <1>4 DEF TypeOK
<1>7. /\ queue' \in [Disks -> [Ops -> Seq(Blocks)]]
      /\ queue'[d][op] = Tail(queue[d][op])
      /\ \A e \in Disks, o \in Ops : (e # d \/ o # op) => queue'[e][o] = queue[e][o]
  BY Zenon, <1>1, <1>3, <1>5 DEF TypeOK
<1>8. TypeOK'
  BY Zenon, <1>2, <1>3, <1>6, <1>7 DEF TypeOK
<1>9. Pending(h) /\ req[h].op = op /\ DiskOf[req[h].bid] = d /\ req[h].bid \in Bids
  BY <1>3, <1>5 DEF Flights
<1>10. \A b \in Blocks : Pending(b)' <=> Pending(b)
  BY Zenon, <1>2 DEF Pending
<1>11. Flights'
  <2>1. ASSUME NEW b \in Blocks, Pending(b)
        PROVE  /\ req[b].op \in Ops /\ req[b].bid \in Bids /\ ~req[b].err
               /\ \/ serving'[DiskOf[req[b].bid]] = b
                  \/ Has(queue'[DiskOf[req[b].bid]][req[b].op], b)
    <3>1. /\ req[b].op \in Ops /\ req[b].bid \in Bids /\ ~req[b].err
          /\ \/ serving[DiskOf[req[b].bid]] = b
             \/ Has(queue[DiskOf[req[b].bid]][req[b].op], b)
          /\ DiskOf[req[b].bid] \in Disks
      BY <1>3, <2>1, PoolsAssumption DEF Flights
    <3>2. CASE b = h
      BY Zenon, <1>6, <1>9, <3>1, <3>2
    <3>3. CASE b # h
      <4>1. CASE serving[DiskOf[req[b].bid]] = b
        <5>1. DiskOf[req[b].bid] # d
          BY Zenon, <1>2, <4>1, PoolsAssumption
        <5> QED BY Zenon, <1>6, <3>1, <4>1, <5>1
      <4>2. CASE Has(queue[DiskOf[req[b].bid]][req[b].op], b)
        <5>1. CASE DiskOf[req[b].bid] = d /\ req[b].op = op
          BY Zenon, <1>5, <1>7, <3>1, <3>3, <4>2, <5>1
        <5>2. CASE ~(DiskOf[req[b].bid] = d /\ req[b].op = op)
          BY Zenon, <1>7, <3>1, <4>2, <5>2
        <5> QED BY Zenon, <5>1, <5>2
      <4> QED BY Zenon, <3>1, <4>1, <4>2
    <3> QED BY Zenon, <3>2, <3>3
  <2>2. ASSUME NEW e \in Disks, NEW o \in Ops, NEW b \in Blocks, Has(queue'[e][o], b)
        PROVE  Pending(b) /\ req[b].op = o /\ DiskOf[req[b].bid] = e /\ serving'[e] # b
    <3>1. Has(queue[e][o], b) /\ ((e = d /\ o = op) => b # h)
      BY Zenon, <1>5, <1>7, <2>2
    <3>2. Pending(b) /\ req[b].op = o /\ DiskOf[req[b].bid] = e /\ serving[e] # b
      BY <1>3, <3>1 DEF Flights
    <3> QED BY Zenon, <1>6, <1>9, <3>1, <3>2
  <2>3. ASSUME NEW e \in Disks, serving'[e] # NoBlock
        PROVE  ~req'[serving'[e]].done /\ DiskOf[req'[serving'[e]].bid] = e
    <3>1. CASE e = d
      BY Zenon, <1>2, <1>6, <1>9, <3>1 DEF Pending
    <3>2. CASE e # d
      BY Zenon, <1>2, <1>3, <1>6, <2>3, <3>2 DEF Flights, Pending
    <3> QED BY Zenon, <3>1, <3>2
  <2>4. \A e \in Disks, o \in Ops : Distinct(queue'[e][o])
    <3> TAKE e \in Disks, o \in Ops
    <3>1. CASE e = d /\ o = op
      BY Zenon, <1>5, <1>7, <3>1
    <3>2. CASE e # d \/ o # op
      BY <1>3, <1>7, <3>2 DEF Flights
    <3> QED BY Zenon, <3>1, <3>2
  <2> QED BY <1>2, <2>1, <2>2, <2>3, <2>4 DEF Flights, Pending
<1>12. Places' /\ Calls' /\ Held' /\ Owned' = Owned
  BY Zenon, <1>2 DEF PoolInv, Places, Calls, Held, Reading, Owned, Pending
<1>13. ASSUME Live' PROVE Fresh'
  <2>1. Fresh
    BY Zenon, <1>2, <1>13 DEF PoolInv, Live, Closing
  <2>2. \A b \in Blocks, bid \in Bids : Writing(b, bid)' <=> Writing(b, bid)
    BY Zenon, <1>2 DEF Writing, Pending
  <2>3. \A bid \in Bids : Quiet(bid)' <=> Quiet(bid)
    BY Zenon, <2>2 DEF Quiet
  <2>4. ASSUME NEW b \in Blocks, NEW c \in Blocks, NEW e \in Disks, Before(b, c, e)
        PROVE  Before(b, c, e)'
    <3>0. "write" \in Ops
      BY Zenon DEF Ops
    <3>1. CASE e # d \/ op # "write"
      <4>1. queue'[e]["write"] = queue[e]["write"] /\ (serving'[e] = b \/ serving[e] # b)
        BY Zenon, <1>2, <1>6, <1>7, <3>0, <3>1, PoolsAssumption
      <4> QED BY Zenon, <2>4, <4>1 DEF Before
    <3>2. CASE e = d /\ op = "write"
      <4>1. Precedes(queue[d]["write"], b, c)
        BY Zenon, <1>2, <2>4, <3>2, PoolsAssumption DEF Before
      <4> QED BY Zenon, <1>5, <1>6, <1>7, <3>2, <4>1 DEF Before
    <3> QED BY Zenon, <3>1, <3>2
  <2>5. \A b, c \in Blocks, bid \in Bids : Before(b, c, DiskOf[bid]) => Before(b, c, DiskOf[bid])'
    BY Zenon, <2>4, PoolsAssumption
  <2>6. \A b \in Blocks, bid \in Bids : Current(b, bid) => Current(b, bid)'
    BY Zenon, <1>2 DEF Current
  <2>7. FreshWrites'
    BY Zenon, <1>2, <2>1, <2>2, <2>5, <2>6, WritesKept DEF Fresh
  <2>8. FreshBusy'
    BY Zenon, <1>2, <2>1 DEF Fresh, FreshBusy
  <2>9. FreshCached'
    BY Zenon, <1>2, <2>1, <2>3 DEF Fresh, FreshCached, Promise, Delivered, Pending
  <2>10. FreshRead'
    <3> SUFFICES ASSUME cpc' = "read" PROVE Promise(cblk, cbid)' /\ Delivered(cblk, cbid)'
      BY Zenon DEF FreshRead
    <3>1. Promise(cblk, cbid) /\ Delivered(cblk, cbid) /\ cbid \in Bids
      BY Zenon, <1>2, <2>1 DEF Fresh, FreshRead, PoolInv, Calls
    <3> QED BY Zenon, <1>2, <2>3, <3>1 DEF Promise, Delivered, Pending
  <2> QED BY Zenon, <2>7, <2>8, <2>9, <2>10 DEF Fresh
<1> QED BY Zenon, <1>8, <1>11, <1>12, <1>13 DEF PoolInv

\* A request is over: what remains of the others.
LEMMA RequestEnds ==
    ASSUME PoolInv, NEW d \in Disks, NEW err \in BOOLEAN, Completed(d, err), queue' = queue,
           NEW b, b = serving[d]
    PROVE  /\ b \in Blocks /\ Pending(b) /\ req[b].op \in Ops /\ req[b].bid \in Bids
           /\ DiskOf[req[b].bid] = d
           /\ req' \in [Blocks -> [op : Ops \cup {"none"}, bid : Bids \cup {NoBid},
                                   done : BOOLEAN, err : BOOLEAN]]
           /\ serving' \in [Disks -> Blocks \cup {NoBlock}]
           /\ req'[b].done /\ req'[b].err = err
           /\ \A x \in Blocks \ {b} : req'[x] = req[x]
           /\ \A x \in Blocks, bid \in Bids : Writing(x, bid)' <=> (Writing(x, bid) /\ x # b)
           /\ \A x, y \in Blocks, e \in Disks : (x # b /\ Before(x, y, e)) => Before(x, y, e)'
           /\ \A x \in Blocks : ~Before(x, b, d)
           /\ Flights'
<1>1. /\ b # NoBlock /\ req' = [req EXCEPT ![b] = Over(err)]
      /\ serving' = [serving EXCEPT ![d] = NoBlock]
  BY Zenon DEF Completed
<1>2. TypeOK /\ Flights
  BY Zenon DEF PoolInv
<1>3. b \in Blocks
  BY Zenon, <1>1, <1>2 DEF TypeOK
<1>4. /\ Pending(b) /\ DiskOf[req[b].bid] = d /\ req[b].op \in Ops /\ req[b].bid \in Bids
  BY Zenon, <1>1, <1>2, <1>3 DEF Flights
<1>5. /\ req'[b] = Over(err) /\ \A x \in Blocks \ {b} : req'[x] = req[x]
      /\ req' = [x \in Blocks |-> req'[x]]
  BY Zenon, <1>1, <1>2, <1>3 DEF TypeOK
<1>6. req' \in [Blocks -> [op : Ops \cup {"none"}, bid : Bids \cup {NoBid},
                           done : BOOLEAN, err : BOOLEAN]]
  <2>1. Over(err) \in [op : Ops \cup {"none"}, bid : Bids \cup {NoBid}, done : BOOLEAN, err : BOOLEAN]
    BY Zenon DEF Over
  <2> QED BY Zenon, <1>1, <1>2, <2>1 DEF TypeOK
<1>7. /\ serving' \in [Disks -> Blocks \cup {NoBlock}]
      /\ serving'[d] = NoBlock /\ \A e \in Disks \ {d} : serving'[e] = serving[e]
  BY Zenon, <1>1, <1>2 DEF TypeOK
<1>8. req'[b].done /\ req'[b].err = err
  BY <1>5 DEF Over
<1>9. \A x \in Blocks : Pending(x)' <=> (Pending(x) /\ x # b)
  BY Zenon, <1>3, <1>5, <1>8 DEF Pending
<1>10. \A x \in Blocks, bid \in Bids : Writing(x, bid)' <=> (Writing(x, bid) /\ x # b)
  BY Zenon, <1>5, <1>9 DEF Writing
<1>11. \A e \in Disks, o \in Ops : ~Has(queue[e][o], b)
  BY <1>2, <1>3, <1>4 DEF Flights
<1>12. "write" \in Ops
  BY Zenon DEF Ops
<1>13. ASSUME NEW x \in Blocks, NEW y \in Blocks, NEW e \in Disks, x # b, Before(x, y, e)
       PROVE  Before(x, y, e)'
  BY Zenon, <1>7, <1>13 DEF Before
<1>14. \A x \in Blocks : ~Before(x, b, d)
  BY Zenon, <1>11, <1>12 DEF Before, Precedes, Has
<1>15. Flights'
  <2>1. ASSUME NEW x \in Blocks, Pending(x)'
        PROVE  /\ req'[x].op \in Ops /\ req'[x].bid \in Bids /\ ~req'[x].err
               /\ \/ serving'[DiskOf[req'[x].bid]] = x
                  \/ Has(queue'[DiskOf[req'[x].bid]][req'[x].op], x)
    <3>1. Pending(x) /\ x # b /\ req'[x] = req[x]
      BY Zenon, <1>5, <1>9, <2>1
    <3>2. /\ req[x].op \in Ops /\ req[x].bid \in Bids /\ ~req[x].err
          /\ \/ serving[DiskOf[req[x].bid]] = x
             \/ Has(queue[DiskOf[req[x].bid]][req[x].op], x)
          /\ DiskOf[req[x].bid] \in Disks
      BY <1>2, <3>1, PoolsAssumption DEF Flights
    <3> QED BY <1>7, <3>1, <3>2
  <2>2. ASSUME NEW e \in Disks, NEW o \in Ops, NEW x \in Blocks, Has(queue[e][o], x)
        PROVE  Pending(x)' /\ req'[x].op = o /\ DiskOf[req'[x].bid] = e /\ serving'[e] # x
    <3>1. x # b
      BY Zenon, <1>11, <2>2
    <3>2. Pending(x) /\ req[x].op = o /\ DiskOf[req[x].bid] = e /\ serving[e] # x
      BY <1>2, <2>2 DEF Flights
    <3> QED BY <1>5, <1>7, <1>9, <3>1, <3>2, PoolsAssumption
  <2>3. ASSUME NEW e \in Disks, serving'[e] # NoBlock
        PROVE  ~req'[serving'[e]].done /\ DiskOf[req'[serving'[e]].bid] = e
    <3>1. e # d /\ serving'[e] = serving[e]
      BY Zenon, <1>7, <2>3
    <3>2. serving[e] \in Blocks /\ Pending(serving[e]) /\ DiskOf[req[serving[e]].bid] = e
      BY <1>2, <2>3, <3>1 DEF Flights, TypeOK
    <3>3. serving[e] # b
      BY Zenon, <1>4, <3>1, <3>2
    <3> QED BY Zenon, <1>5, <3>1, <3>2, <3>3 DEF Pending
  <2>4. \A e \in Disks, o \in Ops : Distinct(queue[e][o])
    BY Zenon, <1>2 DEF Flights
  <2> QED BY <2>1, <2>2, <2>3, <2>4 DEF Flights, Pending
<1> QED BY Zenon, <1>3, <1>4, <1>5, <1>6, <1>7, <1>8, <1>10, <1>13, <1>14, <1>15

\* A transfer is over, and what it leaves in its block and on the disk.
LEMMA TransferEnds ==
    ASSUME PoolInv, NEW d \in Disks, NEW err \in BOOLEAN, Completed(d, err),
           UNCHANGED <<pools, queue, latest, client>>,
           NEW b, b = serving[d],
           content' \in [Blocks -> Values \cup {NoValue}],
           stored' \in [Bids -> Values \cup {NoValue}], failed' \subseteq Bids,
           \A x \in Blocks \ {b} : content'[x] = content[x],
           req[b].op = "write" => content'[b] = content[b],
           (req[b].op = "read" /\ ~err) => content'[b] = stored[req[b].bid],
           \A bid \in Bids : ~Writing(b, bid) =>
               stored'[bid] = stored[bid] /\ (bid \in failed' <=> bid \in failed),
           \A bid \in Bids : Writing(b, bid) => stored'[bid] = content[b] \/ bid \in failed'
    PROVE  PoolInv' /\ Owned' = Owned
<1>1. /\ UNCHANGED <<w_free, w_busy, p_free, p_busy, free_blocks_size, user, leaked>>
      /\ queue' = queue /\ latest' = latest /\ UNCHANGED <<cpc, cblk, cbid, cleft>>
  BY Zenon DEF pools, client
<1>2. /\ b \in Blocks /\ Pending(b) /\ req[b].op \in Ops /\ req[b].bid \in Bids
      /\ req' \in [Blocks -> [op : Ops \cup {"none"}, bid : Bids \cup {NoBid},
                              done : BOOLEAN, err : BOOLEAN]]
      /\ serving' \in [Disks -> Blocks \cup {NoBlock}]
      /\ req'[b].done /\ req'[b].err = err
      /\ \A x \in Blocks \ {b} : req'[x] = req[x]
      /\ Flights'
  BY <1>1, RequestEnds
<1>3. /\ \A x \in Blocks, bid \in Bids : Writing(x, bid)' <=> (Writing(x, bid) /\ x # b)
      /\ \A x, y \in Blocks, e \in Disks : (x # b /\ Before(x, y, e)) => Before(x, y, e)'
      /\ \A x \in Blocks : ~Before(x, b, d)
      /\ DiskOf[req[b].bid] = d
  BY <1>1, RequestEnds
<1>4. TypeOK
  BY Zenon DEF PoolInv
<1>5. TypeOK'
  BY Zenon, <1>1, <1>2, <1>4 DEF TypeOK
<1>6. Places' /\ Calls' /\ Owned' = Owned
  BY Zenon, <1>1 DEF PoolInv, Places, Calls, Reading, Owned
<1>7. \A x \in Blocks : Pending(x)' => Pending(x) /\ x # b /\ req'[x] = req[x]
  BY Zenon, <1>2 DEF Pending
<1>8. Held'
  <2>1. Held /\ Calls
    BY Zenon DEF PoolInv
  <2>2. \A x \in Blocks : Pending(x)' => x \in (BusyOf(w_busy) \cup CachedOf(p_busy) \cup Reading \cup leaked)'
    BY Zenon, <1>1, <1>7, <2>1 DEF Held, Reading
  <2>3. \A i \in DOMAIN w_busy' : Pending(w_busy[i].block)' =>
          /\ req'[w_busy'[i].block].op = "write"
          /\ w_busy'[i].bid # NoBid => req'[w_busy'[i].block].bid = w_busy'[i].bid
    BY <1>1, <1>4, <1>7, <2>1, BlocksOfPools DEF Held, Pending
  <2>4. \A e \in Bids : (p_busy'[e] # NoBlock /\ Pending(p_busy[e])') => req'[p_busy'[e]].bid = e
    BY <1>1, <1>4, <1>7, <2>1 DEF Held, Pending, TypeOK
  <2>5. (cpc' = "read" /\ Pending(cblk)') => req'[cblk'].bid = cbid'
    BY Zenon, <1>1, <1>4, <1>7, <2>1 DEF Held, Pending, TypeOK, Calls
  <2> QED BY Zenon, <2>2, <2>3, <2>4, <2>5 DEF Held
<1>9. ASSUME Live' PROVE Fresh'
  <2>1. Fresh
    BY Zenon, <1>1, <1>9 DEF PoolInv, Live, Closing
  <2>2. \A bid \in Bids : Quiet(bid) => Quiet(bid)' /\ ~Writing(b, bid)
    BY Zenon, <1>2, <1>3 DEF Quiet
  <2>3. \A x \in Blocks, bid \in Bids : Current(x, bid)' <=> Current(x, bid)
    BY Zenon, <1>1 DEF Current
  <2>4. \A bid \in Bids : \A x \in Blocks : Writing(x, bid) => DiskOf[bid] \in Disks
    BY Zenon, PoolsAssumption
  <2>5. ASSUME NEW bid \in Bids
        PROVE  \/ \E c \in Blocks : LastWrite(c, bid)'
               \/ Quiet(bid)' /\ (stored'[bid] = latest'[bid] \/ bid \in failed')
    <3>1. CASE Quiet(bid) /\ (stored[bid] = latest[bid] \/ bid \in failed)
      BY Zenon, <1>1, <2>2, <3>1
    <3>2. ASSUME NEW c \in Blocks, LastWrite(c, bid), c # b
          PROVE  LastWrite(c, bid)'
      <4>1. Writing(c, bid)' /\ Current(c, bid)' /\ content'[c] = latest'[bid]
        BY Zenon, <1>1, <1>3, <2>3, <3>2 DEF LastWrite
      <4>2. ASSUME NEW x \in Blocks, x # c, Writing(x, bid)' PROVE Before(x, c, DiskOf[bid])'
        BY Zenon, <1>3, <2>4, <3>2, <4>2 DEF LastWrite
      <4> QED BY Zenon, <4>1, <4>2 DEF LastWrite
    <3>3. CASE LastWrite(b, bid)
      <4>1. Writing(b, bid) /\ content[b] = latest[bid] /\ DiskOf[bid] = d
        BY Zenon, <1>3, <3>3 DEF LastWrite, Writing
      <4>2. \A x \in Blocks : x # b => ~Writing(x, bid)
        BY Zenon, <1>3, <3>3, <4>1 DEF LastWrite
      <4>3. Quiet(bid)'
        BY Zenon, <1>3, <4>2 DEF Quiet
      <4> QED BY Zenon, <1>1, <4>1, <4>3
    <3> QED BY Zenon, <1>2, <2>1, <3>1, <3>2, <3>3 DEF Fresh, FreshWrites
  <2>6. FreshWrites'
    BY Zenon, <2>5 DEF FreshWrites
  <2>7. FreshBusy'
    <3> SUFFICES ASSUME NEW i \in DOMAIN w_busy, w_busy[i].bid # NoBid
                 PROVE  content'[w_busy[i].block] = latest[w_busy[i].bid]
      BY Zenon, <1>1 DEF FreshBusy
    <3>1. content[w_busy[i].block] = latest[w_busy[i].bid] /\ w_busy[i].block \in Blocks
      BY Zenon, <1>4, <2>1, BlocksOfPools DEF Fresh, FreshBusy
    <3>2. w_busy[i].block = b => req[b].op = "write"
      BY <1>2 DEF PoolInv, Held
    <3> QED BY Zenon, <3>1, <3>2
  <2>8. ASSUME NEW x \in Blocks, NEW bid \in Bids, Pending(x) => req[x].bid = bid, Promise(x, bid)
        PROVE  Promise(x, bid)' /\ (Delivered(x, bid) => Delivered(x, bid)')
    <3>1. CASE x # b
      <4>1. req'[x] = req[x] /\ content'[x] = content[x]
        BY Zenon, <1>2, <3>1
      <4>2. Promise(x, bid)'
        BY Zenon, <1>1, <2>2, <2>8, <4>1 DEF Promise, Pending
      <4>3. Delivered(x, bid) => Delivered(x, bid)'
        BY Zenon, <1>1, <2>2, <4>1 DEF Delivered
      <4> QED BY Zenon, <4>2, <4>3
    <3>2. CASE x = b
      <4>1. Promise(x, bid)'
        BY Zenon, <1>2, <3>2 DEF Promise, Pending
      <4>2. req[b].bid = bid
        BY Zenon, <1>2, <2>8, <3>2
      <4>3. CASE req[b].op = "write"
        BY Zenon, <1>1, <1>2, <2>8, <3>2, <4>1, <4>3 DEF Promise, Delivered
      <4>4. CASE req[b].op = "read"
        <5>1. Quiet(bid)
          BY Zenon, <1>2, <2>8, <3>2, <4>4 DEF Promise
        <5>2. stored[bid] = latest[bid] \/ bid \in failed
          BY Zenon, <2>1, <5>1 DEF Fresh, FreshWrites, LastWrite, Quiet
        <5>3. ~err => content'[b] = stored[bid]
          BY Zenon, <4>2, <4>4
        <5>4. Quiet(bid)' /\ (bid \in failed' <=> bid \in failed)
          BY Zenon, <2>2, <5>1
        <5>5. Delivered(b, bid)'
          BY Zenon, <1>1, <1>2, <5>2, <5>3, <5>4 DEF Delivered
        <5> QED BY Zenon, <3>2, <4>1, <5>5
      <4> QED BY Zenon, <1>2, <4>3, <4>4 DEF Ops
    <3> QED BY Zenon, <3>1, <3>2
  <2>9. FreshCached'
    <3> SUFFICES ASSUME NEW bid \in Bids, p_busy[bid] # NoBlock
                 PROVE  /\ ~(cpc = "write" /\ cbid = bid) => Promise(p_busy[bid], bid)'
                        /\ ~(cpc \in {"write", "invalidate"} /\ cbid = bid) => Delivered(p_busy[bid], bid)'
      BY Zenon, <1>1 DEF FreshCached
    <3>1. PICK x \in Blocks : x = p_busy[bid]
      BY Zenon, <1>4 DEF TypeOK
    <3>2. Pending(x) => req[x].bid = bid
      BY Zenon, <3>1 DEF PoolInv, Held
    <3>3. /\ ~(cpc = "write" /\ cbid = bid) => Promise(x, bid)
          /\ ~(cpc \in {"write", "invalidate"} /\ cbid = bid) => Delivered(x, bid)
      BY Zenon, <2>1, <3>1 DEF Fresh, FreshCached
    <3>4. /\ ~(cpc = "write" /\ cbid = bid) => Promise(x, bid)'
          /\ ~(cpc \in {"write", "invalidate"} /\ cbid = bid) => Delivered(x, bid)'
      BY Zenon, <2>8, <3>2, <3>3
    <3>5. x = p_busy'[bid]
      BY Zenon, <1>1, <3>1
    <3> QED BY Zenon, <3>4, <3>5
  <2>10. FreshRead'
    <3> SUFFICES ASSUME cpc = "read" PROVE Promise(cblk, cbid)' /\ Delivered(cblk, cbid)'
      BY Zenon, <1>1 DEF FreshRead
    <3>1. PICK x \in Blocks : x = cblk
      BY Zenon, <1>4 DEF TypeOK, PoolInv, Calls
    <3>2. PICK bid \in Bids : bid = cbid
      BY Zenon DEF PoolInv, Calls
    <3>3. (Pending(x) => req[x].bid = bid) /\ Promise(x, bid) /\ Delivered(x, bid)
      BY Zenon, <2>1, <3>1, <3>2 DEF PoolInv, Held, Fresh, FreshRead
    <3>4. Promise(x, bid)' /\ Delivered(x, bid)'
      BY Zenon, <2>8, <3>3
    <3>5. x = cblk' /\ bid = cbid'
      BY Zenon, <1>1, <3>1, <3>2
    <3> QED BY Zenon, <3>4, <3>5
  <2> QED BY Zenon, <2>6, <2>7, <2>9, <2>10 DEF Fresh
<1> QED BY Zenon, <1>2, <1>5, <1>6, <1>8, <1>9 DEF PoolInv

\* The transfer succeeds.
LEMMA CompleteStep ==
    ASSUME PoolInv, NEW d \in Disks, Complete(d)
    PROVE  PoolInv' /\ Owned' = Owned
<1>1. PICK b \in Blocks : b = serving[d] /\ req[b].bid \in Bids
  BY RequestEnds DEF Complete, Completed, PoolInv, Flights, TypeOK
<1>2. Completed(d, FALSE) /\ UNCHANGED <<pools, queue, latest, client>>
  BY Zenon DEF Complete
<1>3. TypeOK
  BY Zenon DEF PoolInv
<1>4. CASE req[b].op = "write" /\ stored' = [stored EXCEPT ![req[b].bid] = content[b]]
           /\ failed' = failed \ {req[b].bid} /\ content' = content
  <2>1. /\ content' \in [Blocks -> Values \cup {NoValue}]
        /\ stored' \in [Bids -> Values \cup {NoValue}] /\ failed' \subseteq Bids
    BY Zenon, <1>1, <1>3, <1>4 DEF TypeOK
  <2>2. \A bid \in Bids : ~Writing(b, bid) => bid # req[b].bid
    BY Zenon, <1>1, <1>2, <1>4, RequestEnds DEF Writing
  <2>3. \A bid \in Bids : ~Writing(b, bid) =>
               stored'[bid] = stored[bid] /\ (bid \in failed' <=> bid \in failed)
    BY Zenon, <1>1, <1>3, <1>4, <2>2 DEF TypeOK
  <2>4. \A bid \in Bids : Writing(b, bid) => stored'[bid] = content[b]
    BY Zenon, <1>1, <1>3, <1>4 DEF TypeOK, Writing
  <2> QED BY Zenon, <1>1, <1>2, <1>4, <2>1, <2>3, <2>4, TransferEnds
<1>5. CASE req[b].op = "read" /\ content' = [content EXCEPT ![b] = stored[req[b].bid]]
           /\ UNCHANGED <<stored, failed>>
  <2>1. /\ content' \in [Blocks -> Values \cup {NoValue}]
        /\ stored' \in [Bids -> Values \cup {NoValue}] /\ failed' \subseteq Bids
    BY Zenon, <1>1, <1>3, <1>5 DEF TypeOK
  <2>2. content'[b] = stored[req[b].bid] /\ \A x \in Blocks \ {b} : content'[x] = content[x]
    BY Zenon, <1>1, <1>3, <1>5 DEF TypeOK
  <2>3. \A bid \in Bids : ~Writing(b, bid)
    BY Zenon, <1>5 DEF Writing
  <2> QED BY Zenon, <1>1, <1>2, <1>5, <2>1, <2>2, <2>3, TransferEnds
<1> QED BY Zenon, <1>1, <1>4, <1>5 DEF Complete

\* The transfer raises io_error.
LEMMA FailStep ==
    ASSUME PoolInv, NEW d \in Disks, Fail(d)
    PROVE  PoolInv' /\ Owned' = Owned
<1>1. PICK b \in Blocks : b = serving[d]
  BY Zenon DEF Fail, Completed, PoolInv, TypeOK
<1>2. /\ Completed(d, TRUE) /\ UNCHANGED <<pools, queue, content, stored, latest, client>>
      /\ failed' = IF req[b].op = "write" THEN failed \cup {req[b].bid} ELSE failed
  BY Zenon, <1>1 DEF Fail
<1>3. TypeOK
  BY Zenon DEF PoolInv
<1>4. req[b].bid \in Bids /\ Pending(b)
  <2>1. Flights /\ b # NoBlock
    BY Zenon, <1>1, <1>2 DEF PoolInv, Completed
  <2> QED BY Zenon, <1>1, <2>1 DEF Flights
<1>5. /\ content' \in [Blocks -> Values \cup {NoValue}]
      /\ stored' \in [Bids -> Values \cup {NoValue}] /\ failed' \subseteq Bids
  BY Zenon, <1>2, <1>3, <1>4 DEF TypeOK
<1>6. \A bid \in Bids : ~Writing(b, bid) => (bid \in failed' <=> bid \in failed)
  BY Zenon, <1>2, <1>4 DEF Writing
<1>7. \A bid \in Bids : Writing(b, bid) => bid \in failed'
  BY Zenon, <1>2 DEF Writing
<1> QED BY Zenon, <1>1, <1>2, <1>5, <1>6, <1>7, TransferEnds

-----------------------------------------------------------------------------
(* The calls that wait. *)

\* wait() throws in invalidate: nobody relies on the hint any more.
LEMMA InvalidateThrowStep == ASSUME PoolInv, InvalidateThrow PROVE PoolInv' /\ Owned' = Owned
<1>1. /\ cpc \in {"write", "invalidate"} /\ req[p_busy[cbid]].err
      /\ cpc' = "idle" /\ cblk' = NoBlock /\ cbid' = NoBid /\ cleft' = 0
      /\ UNCHANGED <<w_free, w_busy, p_free, p_busy, free_blocks_size, user, leaked, req, queue,
                     serving, content, stored, latest, failed>>
  BY Zenon DEF InvalidateThrow, Throw, Return, pools, io, data
<1>2. TypeOK /\ Places /\ Calls /\ Flights /\ Held
  BY Zenon DEF PoolInv
<1>3. cblk = NoBlock /\ cbid \in Bids /\ p_busy[cbid] \in Blocks
  BY Zenon, <1>1, <1>2 DEF Calls, TypeOK
<1>4. req[p_busy[cbid]].done
  BY Zenon, <1>1, <1>2, <1>3 DEF Flights, Pending
<1>5. TypeOK'
  BY Zenon, <1>1, <1>2 DEF TypeOK
<1>6. Places' /\ Calls' /\ Owned' = Owned
  BY Zenon, <1>1, <1>2, <1>3 DEF Places, Calls, Reading, Owned
<1>7. Flights'
  BY <1>1, <1>2 DEF Flights, Pending
<1>8. Held'
  BY Zenon, <1>1, <1>2, <1>3 DEF Held, Pending, Reading
<1>9. Fresh'
  <2>1. Fresh
    BY Zenon, <1>1 DEF PoolInv, Live, Closing
  <2>2. \A b \in Blocks, bid \in Bids : Writing(b, bid)' <=> Writing(b, bid)
    BY Zenon, <1>1 DEF Writing, Pending
  <2>3. \A bid \in Bids : Quiet(bid)' <=> Quiet(bid)
    BY Zenon, <2>2 DEF Quiet
  <2>4. FreshWrites'
    <3>1. \A b, c \in Blocks, bid \in Bids :
            Before(b, c, DiskOf[bid]) => Before(b, c, DiskOf[bid])'
      BY Zenon, <1>1 DEF Before
    <3>2. \A b \in Blocks, bid \in Bids : Current(b, bid) => Current(b, bid)'
      BY Zenon, <1>1 DEF Current
    <3> QED BY Zenon, <1>1, <2>1, <2>2, <3>1, <3>2, WritesKept DEF Fresh
  <2>5. FreshBusy'
    BY Zenon, <1>1, <2>1 DEF Fresh, FreshBusy
  <2>6. FreshCached'
    <3> SUFFICES ASSUME NEW bid \in Bids, p_busy[bid] # NoBlock
                 PROVE  Promise(p_busy[bid], bid)' /\ Delivered(p_busy[bid], bid)'
      BY Zenon, <1>1 DEF FreshCached
    <3>1. CASE bid = cbid
      BY Zenon, <1>1, <1>4, <3>1 DEF Promise, Delivered, Pending
    <3>2. CASE bid # cbid
      BY Zenon, <1>1, <2>1, <2>3, <3>2 DEF Fresh, FreshCached, Promise, Delivered, Pending
    <3> QED BY Zenon, <3>1, <3>2
  <2>7. FreshRead'
    BY Zenon, <1>1 DEF FreshRead
  <2> QED BY Zenon, <2>4, <2>5, <2>6, <2>7 DEF Fresh
<1> QED BY Zenon, <1>5, <1>6, <1>7, <1>8, <1>9 DEF PoolInv

\* wait() on a read returns or throws.
LEMMA ReadWaitStep == ASSUME PoolInv, ReadWait PROVE PoolInv' /\ Owned' = Owned
<1>1. /\ cpc = "read" /\ req[cblk].done
      /\ user' = user \cup {cblk} /\ req' = [req EXCEPT ![cblk] = Over(FALSE)]
      /\ content' = [b \in Blocks |-> IF b \in {cblk} THEN NoValue ELSE content[b]]
      /\ cpc' = "idle" /\ cblk' = NoBlock /\ cbid' = NoBid /\ cleft' = 0
      /\ UNCHANGED <<w_free, w_busy, p_free, p_busy, free_blocks_size, leaked, queue, serving,
                     stored, latest, failed>>
  BY Zenon DEF ReadWait, wait, Forget, Return
<1>2. TypeOK /\ Places /\ Calls /\ Flights /\ Held /\ Fresh
  BY Zenon, <1>1 DEF PoolInv, Live, Closing
<1>3. cblk \in Blocks /\ Reading = {cblk} /\ Reading' = {}
  BY Zenon, <1>1, <1>2, PoolsAssumption DEF Calls, TypeOK, Reading
<1>4. /\ req'[cblk] = Over(FALSE) /\ \A b \in Blocks \ {cblk} : req'[b] = req[b]
      /\ \A b \in Blocks \ {cblk} : content'[b] = content[b]
  BY Zenon, <1>1, <1>2, <1>3 DEF TypeOK
<1>5. TypeOK'
  <2>1. Over(FALSE) \in [op : Ops \cup {"none"}, bid : Bids \cup {NoBid}, done : BOOLEAN, err : BOOLEAN]
    BY Zenon DEF Over
  <2>2. req' \in [Blocks -> [op : Ops \cup {"none"}, bid : Bids \cup {NoBid}, done : BOOLEAN, err : BOOLEAN]]
    BY Zenon, <1>1, <1>2, <2>1 DEF TypeOK
  <2>3. content' \in [Blocks -> Values \cup {NoValue}]
    BY Zenon, <1>1, <1>2 DEF TypeOK
  <2> QED BY Zenon, <1>1, <1>2, <1>3, <2>2, <2>3 DEF TypeOK
<1>6. Places' /\ Owned' = Owned
  BY Zenon, <1>1, <1>2, <1>3 DEF Places, Apart, Owned
<1>7. Calls'
  BY Zenon, <1>1, <1>2 DEF Calls
<1>8. Settled /\ \A b \in Blocks : Pending(b) => b # cblk
  BY <1>1, <1>3, <1>4 DEF Settled, Pending, Over
<1>9. Flights'
  BY Zenon, <1>1, <1>2, <1>8, FlightsKept
<1>10. cblk \notin BusyOf(w_busy) \cup CachedOf(p_busy)
  BY Zenon, <1>2, <1>3 DEF Places, Apart
<1>11. Held'
  <2>1. \A b \in Blocks :
          Pending(b) => b \in BusyOf(w_busy') \cup CachedOf(p_busy') \cup Reading' \cup leaked'
    BY Zenon, <1>1, <1>2, <1>3, <1>8 DEF Held
  <2>2. \A k \in DOMAIN w_busy' : \E i \in DOMAIN w_busy : w_busy'[k] = w_busy[i]
    BY Zenon, <1>1
  <2> QED BY Zenon, <1>1, <1>2, <1>8, <2>1, <2>2, HeldKept
<1>12. Fresh'
  <2>1. \A b \in Blocks, bid \in Bids : (Writing(b, bid) /\ Current(b, bid)) => Current(b, bid)'
    BY Zenon, <1>1, <1>8 DEF Current, Writing
  <2>2. \A b \in BusyOf(w_busy') \cup CachedOf(p_busy') : content'[b] = content[b] /\ req'[b] = req[b]
    BY Zenon, <1>1, <1>2, <1>4, <1>10, BlocksOfPools
  <2>3. \A b \in Blocks : Pending(b) => content'[b] = content[b]
    BY Zenon, <1>4, <1>8
  <2>4. \A k \in DOMAIN w_busy' : \E i \in DOMAIN w_busy : w_busy'[k] = w_busy[i]
    BY Zenon, <1>1
  <2> QED BY Zenon, <1>1, <1>2, <1>8, <2>1, <2>2, <2>3, <2>4, FreshKept
<1> QED BY Zenon, <1>5, <1>6, <1>7, <1>9, <1>11, <1>12 DEF PoolInv

-----------------------------------------------------------------------------
(* The destructors. *)

\* Requests and contents stay as they are while blocks are deleted.
LEMMA DestructorMoves ==
    ASSUME PoolInv, Closing, cpc # "closed", cpc' \in {"close_w", "close_p", "closed"},
           UNCHANGED <<io, data, cblk>>, leaked \subseteq leaked',
           TypeOK', Places', Calls',
           \A b \in Blocks : Pending(b) => b \in BusyOf(w_busy') \cup CachedOf(p_busy') \cup leaked',
           \A k \in DOMAIN w_busy' : \E i \in DOMAIN w_busy : w_busy'[k] = w_busy[i],
           \A bid \in Bids : p_busy'[bid] \in {NoBlock, p_busy[bid]},
           leaked' = {} =>
             /\ \A i \in DOMAIN w_busy :
                  Pending(w_busy[i].block) => \E k \in DOMAIN w_busy' : w_busy'[k] = w_busy[i]
             /\ \A bid \in Bids :
                  (p_busy[bid] # NoBlock /\ Pending(p_busy[bid])) => p_busy'[bid] = p_busy[bid]
    PROVE  PoolInv'
<1>1. /\ req' = req /\ queue' = queue /\ serving' = serving
      /\ content' = content /\ stored' = stored /\ latest' = latest /\ failed' = failed
      /\ cblk' = cblk
  BY Zenon DEF io, data
<1>2. TypeOK /\ Places /\ Calls /\ Flights /\ Held
  BY Zenon DEF PoolInv
<1>3. Settled
  BY Zenon, <1>1 DEF Settled, Pending
<1>4. Flights'
  BY Zenon, <1>1, <1>2, <1>3, FlightsKept
<1>5. Held'
  BY Zenon, <1>1, <1>2, <1>3, HeldKept DEF Closing
<1>6. ASSUME Live' PROVE Fresh'
  <2>1. leaked' = {} /\ leaked = {}
    BY Zenon, <1>6 DEF Live, Closing
  <2>2. Fresh
    BY Zenon, <2>1 DEF PoolInv, Live
  <2>3. ASSUME NEW b \in Blocks, NEW bid \in Bids, Writing(b, bid), Current(b, bid)
        PROVE  Current(b, bid)'
    <3>1. CASE \E i \in DOMAIN w_busy : w_busy[i].block = b /\ w_busy[i].bid = bid
      <4>1. PICK i \in DOMAIN w_busy : w_busy[i].block = b /\ w_busy[i].bid = bid
        BY Zenon, <3>1
      <4>2. PICK k \in DOMAIN w_busy' : w_busy'[k] = w_busy[i]
        BY Zenon, <2>1, <2>3, <4>1 DEF Writing
      <4> QED BY Zenon, <4>1, <4>2 DEF Current
    <3>2. CASE p_busy[bid] = b
      <4>1. p_busy'[bid] = b
        BY Zenon, <2>1, <2>3, <3>2, PoolsAssumption DEF Writing
      <4> QED BY Zenon, <4>1 DEF Current
    <3> QED BY Zenon, <2>3, <3>1, <3>2 DEF Current, Closing
  <2>4. cblk' = NoBlock
    BY Zenon, <1>1, <1>2 DEF Calls, Closing
  <2> QED BY Zenon, <1>1, <1>2, <1>3, <2>2, <2>3, <2>4, FreshKept DEF Closing
<1> QED BY Zenon, <1>2, <1>4, <1>5, <1>6 DEF PoolInv

\* ~write_pool.
LEMMA CloseWriteStep == ASSUME SetSizes, PoolInv, CloseWrite PROVE PoolInv'
<1>1. /\ cpc = "close_w"
      /\ UNCHANGED <<w_free, p_busy, user, io, data, cblk, cbid, cleft>>
  BY Zenon DEF CloseWrite
<1>2. TypeOK /\ Places /\ Calls /\ Held
  BY Zenon DEF PoolInv
<1>3. Reading = {} /\ Reading' = {} /\ cblk = NoBlock
  BY Zenon, <1>1, <1>2 DEF Reading, Calls
<1>4. CASE /\ w_busy = <<>> /\ cpc' = "close_p" /\ p_free' = {} /\ free_blocks_size' = 0
           /\ UNCHANGED <<w_busy, leaked>>
  <2>1. TypeOK'
    BY Zenon, <1>1, <1>2, <1>4 DEF TypeOK, io, data
  <2>2. Places'
    BY Zenon, <1>1, <1>2, <1>3, <1>4, NoBlocks DEF Places, Apart
  <2>3. Calls'
    BY Zenon, <1>1, <1>2, <1>4 DEF Calls
  <2>4. \A b \in Blocks : Pending(b) => b \in BusyOf(w_busy') \cup CachedOf(p_busy') \cup leaked'
    BY Zenon, <1>1, <1>2, <1>3, <1>4 DEF Held
  <2>5. \A k \in DOMAIN w_busy' : \E i \in DOMAIN w_busy : w_busy'[k] = w_busy[i]
    BY Zenon, <1>4
  <2>6. \A i \in DOMAIN w_busy : \E k \in DOMAIN w_busy' : w_busy'[k] = w_busy[i]
    BY Zenon, <1>4
  <2> QED BY Zenon, <1>1, <1>4, <2>1, <2>2, <2>3, <2>4, <2>5, <2>6, DestructorMoves DEF Closing
<1>5. CASE /\ w_busy # <<>> /\ req[w_busy[1].block].done
           /\ w_busy' = IF FailedAt(1) THEN <<>> ELSE Tail(w_busy)
           /\ leaked' = IF FailedAt(1) THEN leaked \cup Busy ELSE leaked
           /\ UNCHANGED <<cpc, p_free, free_blocks_size>>
  <2>1. w_busy \in Seq(Entries) /\ BusyOnce(w_busy) /\ BidOnce(w_busy) /\ Busy = BusyOf(w_busy)
    BY Zenon, <1>2 DEF TypeOK, Entries, Places, Busy, BusyOf
  <2>2. 1 \in DOMAIN w_busy /\ w_busy[1].block \in BusyOf(w_busy)
    BY <1>5, <2>1 DEF BusyOf
  <2>3. CASE FailedAt(1)
    <3>1. w_busy' = <<>> /\ leaked' = leaked \cup BusyOf(w_busy) /\ leaked' # {}
      BY Zenon, <1>5, <2>1, <2>2, <2>3
    <3>2. BusyOf(w_busy') = {} /\ BusyOnce(w_busy') /\ BidOnce(w_busy')
      BY <3>1 DEF BusyOf, BusyOnce, BidOnce
    <3>3. TypeOK'
      BY <1>1, <1>2, <1>5, <3>1, BlocksOfPools DEF TypeOK, io, data
    <3>4. Places'
      BY Zenon, <1>1, <1>2, <1>3, <1>5, <3>1, <3>2 DEF Places, Apart
    <3>5. Calls'
      BY Zenon, <1>1, <1>2, <1>5 DEF Calls
    <3>6. \A b \in Blocks : Pending(b) => b \in BusyOf(w_busy') \cup CachedOf(p_busy') \cup leaked'
      BY Zenon, <1>1, <1>2, <1>3, <3>1 DEF Held
    <3>7. \A k \in DOMAIN w_busy' : \E i \in DOMAIN w_busy : w_busy'[k] = w_busy[i]
      BY <3>1
    <3> QED BY Zenon, <1>1, <1>5, <3>1, <3>3, <3>4, <3>5, <3>6, <3>7, DestructorMoves DEF Closing
  <2>4. CASE ~FailedAt(1)
    <3>1. w_busy' = Tail(w_busy) /\ leaked' = leaked
      BY Zenon, <1>5, <2>4
    <3> DEFINE K == (DOMAIN w_busy) \ {1}
    <3>2. Tail(w_busy) \in Seq(Entries) /\ Keeps(Tail(w_busy), w_busy, K) /\ K \in SUBSET DOMAIN w_busy
      BY Zenon, <1>5, <2>1, TailKeeps
    <3>3. {w_busy[m].block : m \in K} = BusyOf(w_busy) \ {w_busy[1].block}
      BY Zenon, <2>1, <2>2 DEF BusyOnce, BusyOf
    <3>4. \A m \in DOMAIN w_busy : Pending(w_busy[m].block) => m \in K
      BY Zenon, <1>5 DEF Pending
    <3> HIDE DEF K
    <3>5. /\ BusyOnce(Tail(w_busy)) /\ BidOnce(Tail(w_busy))
          /\ BusyOf(Tail(w_busy)) = {w_busy[m].block : m \in K}
      BY Zenon, <2>1, <3>2, KeepsBusy
    <3>6. /\ \A k \in DOMAIN w_busy' : \E m \in K : w_busy'[k] = w_busy[m]
          /\ \A m \in K : \E k \in DOMAIN w_busy' : w_busy'[k] = w_busy[m]
      BY Zenon, <3>1, <3>2 DEF Keeps
    <3>7. TypeOK'
      BY Zenon, <1>1, <1>2, <1>5, <3>1, <3>2 DEF TypeOK, Entries, io, data
    <3>8. Places'
      BY Zenon, <1>1, <1>2, <1>3, <1>5, <3>1, <3>3, <3>5 DEF Places, Apart
    <3>9. Calls'
      BY Zenon, <1>1, <1>2, <1>5 DEF Calls
    <3>10. \A b \in Blocks : Pending(b) => b \in BusyOf(w_busy') \cup CachedOf(p_busy') \cup leaked'
      BY Zenon, <1>1, <1>2, <1>3, <1>5, <3>1, <3>3, <3>5 DEF Held, Pending
    <3>11. \A k \in DOMAIN w_busy' : \E i \in DOMAIN w_busy : w_busy'[k] = w_busy[i]
      BY Zenon, <3>2, <3>6
    <3>12. \A i \in DOMAIN w_busy : Pending(w_busy[i].block) => \E k \in DOMAIN w_busy' : w_busy'[k] = w_busy[i]
      BY Zenon, <3>4, <3>6
    <3> QED BY Zenon, <1>1, <1>5, <3>1, <3>7, <3>8, <3>9, <3>10, <3>11, <3>12, DestructorMoves DEF Closing
  <2> QED BY Zenon, <2>3, <2>4
<1> QED BY Zenon, <1>4, <1>5 DEF CloseWrite, wait

\* ~prefetch_pool.
LEMMA ClosePrefetchStep == ASSUME PoolInv, ClosePrefetch PROVE PoolInv'
<1>1. /\ cpc = "close_p"
      /\ UNCHANGED <<w_free, w_busy, p_free, free_blocks_size, user, io, data, cblk, cbid, cleft>>
  BY Zenon DEF ClosePrefetch
<1>2. TypeOK /\ Places /\ Calls /\ Held
  BY Zenon DEF PoolInv
<1>3. Reading = {} /\ Reading' = {} /\ cblk = NoBlock /\ Cached = CachedOf(p_busy)
  BY Zenon, <1>1, <1>2 DEF Reading, Calls, Cached, CachedOf
<1>4. /\ \A k \in DOMAIN w_busy' : \E i \in DOMAIN w_busy : w_busy'[k] = w_busy[i]
      /\ \A i \in DOMAIN w_busy : \E k \in DOMAIN w_busy' : w_busy'[k] = w_busy[i]
  BY Zenon, <1>1
<1>5. CASE Cached = {} /\ cpc' = "closed" /\ UNCHANGED <<p_busy, leaked>>
  <2>1. TypeOK'
    BY Zenon, <1>1, <1>2, <1>5 DEF TypeOK, io, data
  <2>2. Places'
    BY Zenon, <1>1, <1>2, <1>3, <1>5 DEF Places
  <2>3. Calls'
    BY Zenon, <1>1, <1>2, <1>3, <1>5 DEF Calls
  <2>4. \A b \in Blocks : Pending(b) => b \in BusyOf(w_busy') \cup CachedOf(p_busy') \cup leaked'
    BY Zenon, <1>1, <1>2, <1>3, <1>5 DEF Held
  <2> QED BY Zenon, <1>1, <1>4, <1>5, <2>1, <2>2, <2>3, <2>4, DestructorMoves DEF Closing
<1>6. ASSUME NEW bid \in Bids, p_busy[bid] # NoBlock, req[p_busy[bid]].done, cpc' = cpc,
             p_busy' = IF req[p_busy[bid]].err THEN [d \in Bids |-> NoBlock]
                       ELSE [p_busy EXCEPT ![bid] = NoBlock],
             leaked' = IF req[p_busy[bid]].err THEN leaked \cup Cached ELSE leaked
      PROVE  PoolInv'
  <2>1. p_busy[bid] \in Blocks /\ p_busy[bid] \in CachedOf(p_busy)
    BY Zenon, <1>2, <1>6 DEF TypeOK, CachedOf
  <2>2. CASE req[p_busy[bid]].err
    <3>1. p_busy' = [d \in Bids |-> NoBlock] /\ leaked' = leaked \cup CachedOf(p_busy) /\ leaked' # {}
      BY Zenon, <1>3, <1>6, <2>1, <2>2
    <3>2. CachedOf(p_busy') = {} /\ CachedOnce(p_busy')
      BY Zenon, <3>1 DEF CachedOf, CachedOnce
    <3>3. TypeOK'
      BY Zenon, <1>1, <1>2, <1>6, <3>1, BlocksOfPools DEF TypeOK, io, data
    <3>4. Places'
      BY Zenon, <1>1, <1>2, <1>3, <1>6, <3>1, <3>2 DEF Places, Apart
    <3>5. Calls'
      BY Zenon, <1>1, <1>2, <1>6 DEF Calls
    <3>6. \A b \in Blocks : Pending(b) => b \in BusyOf(w_busy') \cup CachedOf(p_busy') \cup leaked'
      BY Zenon, <1>1, <1>2, <1>3, <3>1 DEF Held
    <3>7. \A d \in Bids : p_busy'[d] \in {NoBlock, p_busy[d]}
      BY Zenon, <3>1
    <3> QED BY Zenon, <1>1, <1>4, <1>6, <3>1, <3>3, <3>4, <3>5, <3>6, <3>7, DestructorMoves DEF Closing
  <2>3. CASE ~req[p_busy[bid]].err
    <3>1. p_busy' = [p_busy EXCEPT ![bid] = NoBlock] /\ leaked' = leaked
      BY Zenon, <1>6, <2>3
    <3>2. /\ p_busy' \in [Bids -> Blocks \cup {NoBlock}] /\ CachedOnce(p_busy')
          /\ CachedOf(p_busy') = CachedOf(p_busy) \ {p_busy[bid]}
      BY Zenon, <1>2, <3>1, CachedLeaves DEF TypeOK, Places
    <3>3. TypeOK'
      BY Zenon, <1>1, <1>2, <1>6, <3>1, <3>2 DEF TypeOK, io, data
    <3>4. Places'
      BY Zenon, <1>1, <1>2, <1>3, <1>6, <3>1, <3>2 DEF Places, Apart
    <3>5. Calls'
      BY Zenon, <1>1, <1>2, <1>6 DEF Calls
    <3>6. \A b \in Blocks : Pending(b) => b \in BusyOf(w_busy') \cup CachedOf(p_busy') \cup leaked'
      BY Zenon, <1>1, <1>2, <1>3, <1>6, <3>1, <3>2 DEF Held, Pending
    <3>7. \A d \in Bids : p_busy'[d] \in {NoBlock, p_busy[d]} /\ (d # bid => p_busy'[d] = p_busy[d])
      BY Zenon, <1>2, <3>1 DEF TypeOK
    <3>8. \A d \in Bids : (p_busy[d] # NoBlock /\ Pending(p_busy[d])) => p_busy'[d] = p_busy[d]
      BY Zenon, <1>6, <3>7 DEF Pending
    <3> QED BY Zenon, <1>1, <1>4, <1>6, <3>1, <3>3, <3>4, <3>5, <3>6, <3>7, <3>8, DestructorMoves DEF Closing
  <2> QED BY Zenon, <2>2, <2>3
<1> QED BY Zenon, <1>5, <1>6 DEF ClosePrefetch, wait
=============================================================================
