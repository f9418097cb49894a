----------------------------- MODULE PoolsProofs -----------------------------
(***************************************************************************)
(* The calls that exchange blocks between the pools, the disks and the     *)
(* client keep the invariant of module PoolsInvariant; hence the           *)
(* properties of module Pools.                                             *)
(***************************************************************************)
EXTENDS PoolsSteps

-----------------------------------------------------------------------------
(* write_pool::steal with requests in flight. *)

\* wait_any has returned, and check_all_busy polls the other requests.
LEMMA StealCompletedStep ==
    ASSUME SetSizes, PoolInv, StealCompleted
    PROVE  PoolInv' /\ (cpc = "steal" => Owned' = Owned)
<1>1. PICK i \in DOMAIN w_busy :
        /\ DoneAt(i) /\ CheckAllBusy(Erase(w_busy, i))
        /\ Forget({w_busy[i].block} \cup w_free')
        /\ \/ TakeOut(w_busy[i].block) /\ leaked' = leaked
           \/ Throw /\ leaked' = leaked \cup {w_busy[i].block} /\ user' = user
  BY Zenon DEF StealCompleted
<1>2. /\ cpc \in {"steal", "shrink"} /\ w_free = {}
      /\ UNCHANGED <<p_free, p_busy, free_blocks_size, req, queue, serving, stored, latest, failed>>
  BY Zenon DEF StealCompleted, io
<1>3. TypeOK /\ Places /\ Calls /\ Flights /\ Held /\ Fresh
  BY Zenon, <1>2 DEF PoolInv, Live, Closing
<1>4. PICK b \in Blocks : b = w_busy[i].block
  BY Zenon, <1>3, BlocksOfPools
<1>5. w_busy \in Seq(Entries) /\ BusyOnce(w_busy) /\ BidOnce(w_busy)
  BY Zenon, <1>3 DEF TypeOK, Entries, Places
<1> DEFINE s == Erase(w_busy, i)
<1>6. /\ s \in Seq(Entries) /\ BusyOnce(s) /\ BidOnce(s)
      /\ BusyOf(s) = BusyOf(w_busy) \ {b}
      /\ \A k \in DOMAIN s : \E m \in DOMAIN w_busy : s[k] = w_busy[m]
      /\ \A m \in (DOMAIN w_busy) \ {i} : \E k \in DOMAIN s : s[k] = w_busy[m]
  BY <1>4, <1>5, EntryLeaves
<1>7. CheckAllBusy(s)
  BY Zenon, <1>1
<1> HIDE DEF s
<1>8. PICK K \in SUBSET DOMAIN s :
        /\ \A k \in DOMAIN s \ K : req[s[k].block].done
        /\ w_free' = w_free \cup {s[k].block : k \in DOMAIN s \ K}
        /\ w_busy' \in Seq(Entries) /\ BusyOnce(w_busy') /\ BidOnce(w_busy')
        /\ BusyOf(w_busy') = {s[m].block : m \in K}
        /\ \A k \in DOMAIN w_busy' : \E m \in K : w_busy'[k] = s[m]
        /\ \A m \in K : \E k \in DOMAIN w_busy' : w_busy'[k] = s[m]
  BY Zenon, <1>6, <1>7, CheckAllBusyKeeps
<1>9. /\ w_free' \cap BusyOf(w_busy') = {}
      /\ w_free' \cup BusyOf(w_busy') = BusyOf(w_busy) \ {b}
      /\ b \in BusyOf(w_busy)
  <2>1. w_free' = {s[k].block : k \in DOMAIN s \ K}
    BY Zenon, <1>2, <1>8
  <2>2. w_free' \cap BusyOf(w_busy') = {}
    <3> SUFFICES ASSUME NEW x \in w_free', x \in BusyOf(w_busy') PROVE FALSE
      BY Zenon
    <3>1. PICK k \in DOMAIN s \ K : x = s[k].block
      BY Zenon, <2>1
    <3>2. PICK m \in K : x = s[m].block
      BY Zenon, <1>8
    <3> QED BY Zenon, <1>6, <3>1, <3>2 DEF BusyOnce
  <2>3. w_free' \cup BusyOf(w_busy') = BusyOf(s)
    BY <1>8, <2>1 DEF BusyOf
  <2> QED BY Zenon, <1>4, <1>6, <2>2, <2>3 DEF BusyOf
<1>10. req[b].done /\ \A x \in w_free' : req[x].done
  BY Zenon, <1>1, <1>2, <1>4, <1>8 DEF DoneAt
<1>11. /\ content' \in [Blocks -> Values \cup {NoValue}]
       /\ \A x \in Blocks : x # b /\ x \notin w_free' => content'[x] = content[x]
  <2>1. content' = [x \in Blocks |-> IF x \in {b} \cup w_free' THEN NoValue ELSE content[x]]
    BY Zenon, <1>1, <1>4 DEF Forget
  <2> QED BY Zenon, <1>3, <2>1 DEF TypeOK
<1>12. Reading = {} /\ Reading' = {} /\ cblk = NoBlock /\ cblk' = NoBlock
       /\ cpc' \in {"idle", "shrink"} /\ cbid' \in Bids \cup {NoBid}
       /\ cleft' \in Nat /\ (cpc' = "shrink" => cleft' > 0)
  <2>1. cblk = NoBlock
    BY Zenon, <1>2, <1>3 DEF Calls
  <2>2. CASE cpc = "shrink" /\ TakeOut(w_busy[i].block)
    <3>1. cleft \in Nat /\ cleft > 0 /\ cbid \in Bids \cup {NoBid}
      BY Zenon, <1>3, <2>2 DEF Calls, TypeOK
    <3>2. /\ cpc' = IF cleft = 1 THEN "idle" ELSE "shrink"
          /\ cleft' = cleft - 1 /\ cblk' = cblk /\ cbid' = cbid
      BY Zenon, <2>2 DEF TakeOut
    <3> QED BY <2>1, <3>1, <3>2 DEF Reading
  <2>3. CASE Return
    BY Zenon, <2>1, <2>3 DEF Return, Reading
  <2> QED BY Zenon, <1>1, <2>2, <2>3 DEF TakeOut, Throw
<1>13. /\ user' \subseteq Blocks /\ leaked' \subseteq Blocks
       /\ \/ user' = user /\ leaked' = leaked /\ cpc = "shrink"
          \/ user' = user \cup {b} /\ leaked' = leaked
          \/ user' = user /\ leaked' = leaked \cup {b}
  BY Zenon, <1>1, <1>2, <1>3, <1>4 DEF TakeOut, TypeOK
<1>14. TypeOK'
  <2>1. w_free' \subseteq Blocks
    BY Zenon, <1>3, <1>9, BlocksOfPools
  <2>2. w_busy' \in Seq([block : Blocks, bid : Bids \cup {NoBid}])
    BY Zenon, <1>8 DEF Entries
  <2> QED BY Zenon, <1>2, <1>3, <1>11, <1>12, <1>13, <2>1, <2>2 DEF TypeOK
<1>15. Places'
  <2>1. Apart(w_free, BusyOf(w_busy), p_free, CachedOf(p_busy), user, leaked, Reading)
    BY Zenon, <1>3 DEF Places
  <2>2. Apart(w_free', BusyOf(w_busy'), p_free', CachedOf(p_busy'), user', leaked', Reading')
    BY <1>2, <1>9, <1>12, <1>13, <2>1 DEF Apart
  <2> QED BY Zenon, <1>2, <1>3, <1>8, <2>2 DEF Places
<1>16. Calls'
  BY Zenon, <1>12, <1>2 DEF Calls
<1>17. cpc = "steal" => Owned' = Owned
  BY Zenon, <1>2, <1>9, <1>12, <1>13 DEF Owned
<1>18. Settled
  BY Zenon, <1>2 DEF Settled, Pending
<1>19. Flights'
  BY Zenon, <1>2, <1>3, <1>18, FlightsKept
<1>20. \A k \in DOMAIN w_busy' : \E m \in DOMAIN w_busy : w_busy'[k] = w_busy[m]
  BY <1>6, <1>8
<1>21. Held'
  <2>1. \A x \in Blocks :
          Pending(x) => x \in BusyOf(w_busy') \cup CachedOf(p_busy') \cup Reading' \cup leaked'
    BY Zenon, <1>2, <1>3, <1>9, <1>10, <1>12, <1>13 DEF Held, Pending
  <2> QED BY Zenon, <1>2, <1>3, <1>12, <1>18, <1>20, <2>1, HeldKept
<1>22. Fresh'
  <2>1. ASSUME NEW x \in Blocks, NEW bid \in Bids, Writing(x, bid), Current(x, bid)
        PROVE  Current(x, bid)'
    <3>1. CASE \E m \in DOMAIN w_busy : w_busy[m].block = x /\ w_busy[m].bid = bid
      <4>1. PICK m \in DOMAIN w_busy : w_busy[m].block = x /\ w_busy[m].bid = bid
        BY Zenon, <3>1
      <4>2. x # b
        BY Zenon, <1>10, <2>1 DEF Writing, Pending
      <4>3. PICK k \in DOMAIN s : s[k] = w_busy[m]
        BY Zenon, <1>4, <1>6, <4>1, <4>2
      <4>4. k \in K
        BY Zenon, <1>8, <2>1, <4>1, <4>3 DEF Writing, Pending
      <4>5. PICK l \in DOMAIN w_busy' : w_busy'[l] = s[k]
        BY Zenon, <1>8, <4>4
      <4> QED BY Zenon, <4>1, <4>3, <4>5 DEF Current
    <3>2. CASE p_busy[bid] = x
      BY Zenon, <1>2, <1>12, <3>2 DEF Current
    <3> QED BY Zenon, <1>2, <2>1, <3>1, <3>2 DEF Current
  <2>2. \A x \in BusyOf(w_busy') \cup CachedOf(p_busy') : content'[x] = content[x] /\ req'[x] = req[x]
    <3>1. BusyOf(w_busy) \cap CachedOf(p_busy) = {}
      BY Zenon, <1>3 DEF Places, Apart
    <3> QED BY Zenon, <1>2, <1>3, <1>9, <1>11, <3>1, BlocksOfPools
  <2>3. \A x \in Blocks : Pending(x) => content'[x] = content[x]
    BY Zenon, <1>10, <1>11 DEF Pending
  <2> QED BY Zenon, <1>2, <1>3, <1>12, <1>18, <1>20, <2>1, <2>2, <2>3, FreshKept
<1> QED BY Zenon, <1>14, <1>15, <1>16, <1>17, <1>19, <1>21, <1>22 DEF PoolInv

-----------------------------------------------------------------------------
(* prefetch_pool::hint and read_write_pool::read. *)

\* A free block of the prefetch pool goes to the write pool for a busy one, or
\* becomes hinted itself.
LEMMA ApartExchanged ==
    ASSUME NEW wf, NEW wb, NEW pf, NEW pb, NEW us, NEW lk, Apart(wf, wb, pf, pb, us, lk, {}),
           NEW b \in pf, NEW y \in wb
    PROVE  /\ Apart(wf \cup {b}, wb \ {y}, pf \ {b}, pb \cup {y}, us, lk, {})
           /\ wf \cup wb \cup pf \cup pb \cup us \cup lk
                = (wf \cup {b}) \cup (wb \ {y}) \cup (pf \ {b}) \cup (pb \cup {y}) \cup us \cup lk
BY DEF Apart

\* A hint moves a block from the free list to the busy map of the prefetch pool.
LEMMA ApartHinted ==
    ASSUME NEW wf, NEW wb, NEW pf, NEW pb, NEW us, NEW lk, Apart(wf, wb, pf, pb, us, lk, {}),
           NEW b \in pf
    PROVE  /\ Apart(wf, wb, pf \ {b}, pb \cup {b}, us, lk, {})
           /\ wf \cup wb \cup pf \cup pb \cup us \cup lk
                = wf \cup wb \cup (pf \ {b}) \cup (pb \cup {b}) \cup us \cup lk
BY Zenon DEF Apart

\* The free blocks and the hash map hint() finds: those of the pool, or what
\* invalidate() has just made of them.
HintFinds(free, nfree, busy, bid) ==
    /\ cpc \in {"idle", "write", "invalidate"} /\ nfree = Cardinality(free) /\ CachedOnce(busy)
    /\ \A d \in Bids \ {bid} : busy[d] = p_busy[d]
    /\ \/ cpc = "idle" /\ busy = p_busy
       \/ cpc # "idle" /\ cbid = bid /\ busy[bid] = NoBlock /\ req[p_busy[bid]].done
    /\ CachedOf(busy) \cup free = CachedOf(p_busy) \cup p_free /\ CachedOf(busy) \cap free = {}
    /\ \A x \in free : ~Pending(x)
    /\ \A x \in Blocks \ free : content'[x] = content[x]

\* The call returns, and has touched nothing else.
HintReturns ==
    /\ UNCHANGED <<user, leaked, serving, stored, latest, failed>>
    /\ content' \in [Blocks -> Values \cup {NoValue}]
    /\ cpc' = "idle" /\ cblk' = NoBlock /\ cbid' \in Bids \cup {NoBid} /\ cleft' \in Nat

\* What all ways through hint() have in common: the blocks are where they are,
LEMMA HintPlaces ==
    ASSUME SetSizes, PoolInv, NEW bid \in Bids, NEW free \in SUBSET Blocks, NEW nfree,
           NEW busy \in [Bids -> Blocks \cup {NoBlock}],
           HintFinds(free, nfree, busy, bid), HintReturns
    PROVE  /\ TypeOK /\ Places /\ Flights /\ Held /\ Fresh
           /\ Reading = {} /\ Reading' = {} /\ Calls'
           /\ Apart(w_free, BusyOf(w_busy), free, CachedOf(busy), user, leaked, {})
           /\ Owned = w_free \cup BusyOf(w_busy) \cup free \cup CachedOf(busy) \cup user \cup leaked
           /\ nfree = Cardinality(free) /\ nfree \in Nat /\ CachedOnce(busy)
<1>1. TypeOK /\ Places /\ Calls /\ Flights /\ Held /\ Fresh
  BY Zenon DEF PoolInv, Live, Closing, HintFinds
<1>2. Reading = {} /\ Reading' = {} /\ Calls'
  BY Zenon, <1>1 DEF Calls, Reading, HintFinds, HintReturns
<1>3. /\ Apart(w_free, BusyOf(w_busy), free, CachedOf(busy), user, leaked, {})
      /\ Owned = w_free \cup BusyOf(w_busy) \cup free \cup CachedOf(busy) \cup user \cup leaked
  <2>1. CachedOf(busy) \cup free = CachedOf(p_busy) \cup p_free /\ CachedOf(busy) \cap free = {}
    BY Zenon DEF HintFinds
  <2> QED BY Zenon, <1>1, <1>2, <2>1 DEF Places, Apart, Owned
<1>4. nfree = Cardinality(free) /\ nfree \in Nat /\ CachedOnce(busy)
  BY Zenon, FiniteBlocks DEF HintFinds
<1> QED BY Zenon, <1>1, <1>2, <1>3, <1>4

\* and no block in flight is free or forgotten.
LEMMA HintRequests ==
    ASSUME SetSizes, PoolInv, NEW bid \in Bids, NEW free \in SUBSET Blocks, NEW nfree,
           NEW busy \in [Bids -> Blocks \cup {NoBlock}],
           HintFinds(free, nfree, busy, bid), HintReturns
    PROVE  /\ \A x \in Blocks : Pending(x) => x \in BusyOf(w_busy) \cup CachedOf(busy) \cup leaked
           /\ \A x \in Blocks : Pending(x) => content'[x] = content[x]
           /\ \A x \in BusyOf(w_busy) \cup CachedOf(busy) : content'[x] = content[x]
           /\ \A d \in Bids : busy[d] # NoBlock => Serves(busy[d], d)
           /\ \A x \in Blocks, d \in Bids : (Writing(x, d) /\ Current(x, d)) =>
                (\E i \in DOMAIN w_busy : w_busy[i].block = x /\ w_busy[i].bid = d) \/ busy[d] = x
<1>1. /\ TypeOK /\ Held /\ Reading = {}
      /\ Apart(w_free, BusyOf(w_busy), free, CachedOf(busy), user, leaked, {})
  BY Zenon, HintPlaces
<1>2. BusyOf(w_busy) \subseteq Blocks /\ CachedOf(busy) \subseteq Blocks
  BY Zenon, <1>1, BlocksOfPools DEF CachedOf
<1>3. \A x \in Blocks : Pending(x) => x \in BusyOf(w_busy) \cup CachedOf(busy) \cup leaked
  BY Zenon, <1>1 DEF Held, HintFinds
<1>4. /\ \A x \in Blocks : Pending(x) => content'[x] = content[x]
      /\ \A x \in BusyOf(w_busy) \cup CachedOf(busy) : content'[x] = content[x]
  BY Zenon, <1>1, <1>2 DEF Apart, HintFinds
<1>5. \A d \in Bids : busy[d] # NoBlock => Serves(busy[d], d)
  BY Zenon DEF Serves, HintFinds
<1>6. \A x \in Blocks, d \in Bids : (Writing(x, d) /\ Current(x, d)) =>
         (\E i \in DOMAIN w_busy : w_busy[i].block = x /\ w_busy[i].bid = d) \/ busy[d] = x
  BY Zenon DEF Current, Writing, Pending, HintFinds
<1> QED BY Zenon, <1>3, <1>4, <1>5, <1>6

\* The place is hinted already, or there is no free block.
LEMMA HintNothing ==
    ASSUME SetSizes, PoolInv, NEW bid \in Bids, NEW free \in SUBSET Blocks, NEW nfree,
           NEW busy \in [Bids -> Blocks \cup {NoBlock}],
           HintFinds(free, nfree, busy, bid), HintReturns,
           p_free' = free, free_blocks_size' = nfree, p_busy' = busy,
           UNCHANGED <<w_free, w_busy, req, queue>>
    PROVE  PoolInv' /\ Owned' = Owned
<1>1. /\ TypeOK /\ Places /\ Flights /\ Held /\ Fresh
      /\ Reading = {} /\ Reading' = {} /\ Calls'
      /\ Apart(w_free, BusyOf(w_busy), free, CachedOf(busy), user, leaked, {})
      /\ Owned = w_free \cup BusyOf(w_busy) \cup free \cup CachedOf(busy) \cup user \cup leaked
      /\ nfree = Cardinality(free) /\ nfree \in Nat /\ CachedOnce(busy)
  BY Zenon, HintPlaces
<1>2. UNCHANGED <<user, leaked, serving, stored, latest, failed>> /\ cpc' = "idle"
  BY Zenon DEF HintReturns
<1>3. TypeOK'
  BY Zenon, <1>1 DEF TypeOK, HintReturns
<1>4. Places' /\ Owned' = Owned
  BY Zenon, <1>1, <1>2 DEF Places, Owned
<1>5. Settled /\ Flights'
  BY Zenon, <1>1, <1>2, RequestsStay DEF io
<1>6. \A d \in Bids : p_busy'[d] # NoBlock => Serves(p_busy'[d], d)
  BY Zenon, HintRequests
<1>7. Held'
  <2>1. \A x \in Blocks :
          Pending(x) => x \in BusyOf(w_busy') \cup CachedOf(p_busy') \cup Reading' \cup leaked'
    BY Zenon, <1>2, HintRequests
  <2>2. /\ \A k \in DOMAIN w_busy' : \E i \in DOMAIN w_busy : w_busy'[k] = w_busy[i]
        /\ cpc' # "read"
    BY Zenon, <1>2
  <2> QED BY Zenon, <1>1, <1>5, <1>6, <2>1, <2>2, HeldMoved
<1>8. Fresh'
  <2>1. \A x \in Blocks, d \in Bids : (Writing(x, d) /\ Current(x, d)) => Current(x, d)'
    BY <1>2, HintRequests DEF Current
  <2>2. \A x \in BusyOf(w_busy') \cup CachedOf(p_busy') \cup Reading' :
           content'[x] = content[x] /\ req'[x] = req[x]
    BY <1>1, HintRequests
  <2>3. /\ \A k \in DOMAIN w_busy' : \E i \in DOMAIN w_busy : w_busy'[k] = w_busy[i]
        /\ cpc' \notin {"write", "invalidate"} /\ cpc' # "read"
    BY Zenon, <1>2
  <2>4. UNCHANGED <<queue, serving, stored, latest, failed>>
        /\ \A x \in Blocks : Pending(x) => content'[x] = content[x]
    BY Zenon, <1>2, HintRequests
  <2> QED BY Zenon, <1>1, <1>5, <1>6, <2>1, <2>2, <2>3, <2>4, FreshMoved
<1> QED BY Zenon, <1>1, <1>3, <1>4, <1>5, <1>7, <1>8 DEF PoolInv

\* The two ways to hint.
HintTakes(b, free, nfree, busy, bid) ==
    /\ p_free' = free \ {b} /\ free_blocks_size' = nfree - 1 /\ w_free' = InExchange(b)
    /\ p_busy' = [busy EXCEPT ![bid] = w_busy[RequestAt(bid)].block]
    /\ w_busy' = steal_request(bid) /\ UNCHANGED <<req, queue>>

HintReads(b, free, nfree, busy, bid) ==
    /\ p_free' = free \ {b} /\ free_blocks_size' = nfree - 1
    /\ p_busy' = [busy EXCEPT ![bid] = b]
    /\ Submit(b, "read", bid) /\ UNCHANGED <<w_free, w_busy>>

\* A write to the place is in flight: its block is hinted, and a free block
\* goes to the write pool in exchange.
LEMMA HintTaken ==
    ASSUME SetSizes, PoolInv, NEW bid \in Bids, NEW free \in SUBSET Blocks, NEW nfree,
           NEW busy \in [Bids -> Blocks \cup {NoBlock}],
           HintFinds(free, nfree, busy, bid), HintReturns,
           NEW b \in free, busy[bid] = NoBlock, has_request(bid), HintTakes(b, free, nfree, busy, bid)
    PROVE  PoolInv' /\ Owned' = Owned
<1>1. /\ TypeOK /\ Places /\ Flights /\ Held /\ Fresh
      /\ Reading = {} /\ Reading' = {} /\ Calls'
      /\ Apart(w_free, BusyOf(w_busy), free, CachedOf(busy), user, leaked, {})
      /\ Owned = w_free \cup BusyOf(w_busy) \cup free \cup CachedOf(busy) \cup user \cup leaked
      /\ nfree = Cardinality(free) /\ nfree \in Nat /\ CachedOnce(busy)
  BY Zenon, HintPlaces
<1>14. UNCHANGED <<req, queue>> /\ p_free' = free \ {b}
  BY Zenon DEF HintTakes
<1>2. UNCHANGED <<user, leaked, serving, stored, latest, failed>> /\ cpc' = "idle"
  BY Zenon DEF HintReturns
<1>3. PICK y \in Blocks : Taken(y, bid)
  BY Zenon, <1>1, RequestTaken DEF HintTakes
<1>4. /\ p_busy' = [busy EXCEPT ![bid] = y] /\ y \in BusyOf(w_busy) /\ Serves(y, bid)
      /\ w_busy' \in Seq(Entries) /\ BusyOnce(w_busy') /\ BidOnce(w_busy')
      /\ BusyOf(w_busy') = BusyOf(w_busy) \ {y}
  BY Zenon, <1>3 DEF Taken, HintTakes
<1>5. /\ p_busy' \in [Bids -> Blocks \cup {NoBlock}] /\ CachedOnce(p_busy')
      /\ CachedOf(p_busy') = CachedOf(busy) \cup {y}
      /\ p_busy'[bid] = y /\ \A d \in Bids \ {bid} : p_busy'[d] = busy[d]
  <2>1. y \notin CachedOf(busy)
    BY Zenon, <1>1, <1>4 DEF Apart
  <2>2. /\ p_busy' \in [Bids -> Blocks \cup {NoBlock}]
        /\ p_busy'[bid] = y /\ \A d \in Bids \ {bid} : p_busy'[d] = busy[d]
    BY Zenon, <1>4
  <2>3. CachedOnce(p_busy') /\ CachedOf(p_busy') = CachedOf(busy) \cup {y}
    <3>1. NoBlock \notin Blocks /\ CachedOnce(busy)
      BY Zenon, <1>1, PoolsAssumption
    <3> QED BY <2>1, <2>2, <3>1, CachedArrives
  <2> QED BY Zenon, <2>2, <2>3
<1>6. /\ p_free' \subseteq Blocks /\ free_blocks_size' = Cardinality(p_free') /\ free_blocks_size' \in Nat
      /\ w_free' = w_free \cup {b} /\ w_free' \subseteq Blocks
  <2>1. Cardinality(free \ {b}) = Cardinality(free) - 1
    BY Zenon, OneBlockLess
  <2>2. Cardinality(free \ {b}) \in Nat
    BY Zenon, FiniteBlocks
  <2> QED BY Zenon, <1>1, <2>1, <2>2 DEF InExchange, TypeOK, HintTakes
<1>7. TypeOK'
  BY Zenon, <1>1, <1>4, <1>5, <1>6, <1>14 DEF TypeOK, Entries, HintReturns
<1>8. Places' /\ Owned' = Owned
  <2>1. /\ Apart(w_free \cup {b}, BusyOf(w_busy) \ {y}, free \ {b}, CachedOf(busy) \cup {y}, user, leaked, {})
        /\ Owned = (w_free \cup {b}) \cup (BusyOf(w_busy) \ {y}) \cup (free \ {b})
                    \cup (CachedOf(busy) \cup {y}) \cup user \cup leaked
    BY <1>1, <1>4, ApartExchanged
  <2>2. Places'
    BY Zenon, <1>1, <1>2, <1>14, <1>4, <1>5, <1>6, <2>1 DEF Places
  <2> QED BY Zenon, <1>1, <1>2, <1>14, <1>4, <1>5, <1>6, <2>1, <2>2 DEF Owned
<1>9. Settled /\ Flights'
  BY Zenon, <1>1, <1>2, <1>14, RequestsStay DEF io
<1>10. \A d \in Bids : p_busy'[d] # NoBlock => Serves(p_busy'[d], d)
  <2>1. \A d \in Bids : busy[d] # NoBlock => Serves(busy[d], d)
    BY HintRequests
  <2>2. ASSUME NEW d \in Bids, p_busy'[d] # NoBlock PROVE Serves(p_busy'[d], d)
    <3>1. CASE d = bid
      BY Zenon, <1>4, <1>5, <3>1
    <3>2. CASE d # bid
      BY <1>5, <2>1, <2>2, <3>2
    <3> QED BY Zenon, <3>1, <3>2
  <2> QED BY Zenon, <2>2
<1>11. /\ \A k \in DOMAIN w_busy' : \E i \in DOMAIN w_busy : w_busy'[k] = w_busy[i]
       /\ cpc' \notin {"write", "invalidate"} /\ cpc' # "read"
  BY Zenon, <1>2, <1>3 DEF Taken
<1>12. Held'
  <2>1. \A x \in Blocks :
          Pending(x) => x \in BusyOf(w_busy') \cup CachedOf(p_busy') \cup Reading' \cup leaked'
    BY Zenon, <1>2, <1>4, <1>5, HintRequests
  <2> QED BY Zenon, <1>1, <1>9, <1>10, <1>11, <2>1, HeldMoved
<1>13. Fresh'
  <2>1. \A x \in Blocks, d \in Bids : (Writing(x, d) /\ Current(x, d)) => Current(x, d)'
    <3>1. ASSUME NEW x \in Blocks, NEW d \in Bids, busy[d] = x PROVE Current(x, d)'
      BY Zenon, <1>2, <1>5, <3>1, PoolsAssumption DEF Current
    <3>2. ASSUME NEW x \in Blocks, NEW d \in Bids,
                 NEW m \in DOMAIN w_busy, w_busy[m].block = x, w_busy[m].bid = d
          PROVE  Current(x, d)'
      BY Zenon, <1>2, <1>3, <1>5, <3>2 DEF Current, Taken
    <3> QED BY <3>1, <3>2, HintRequests
  <2>2. \A x \in BusyOf(w_busy') \cup CachedOf(p_busy') \cup Reading' :
           content'[x] = content[x] /\ req'[x] = req[x]
    <3>1. BusyOf(w_busy') \cup CachedOf(p_busy') \cup Reading' \subseteq BusyOf(w_busy) \cup CachedOf(busy)
      BY Zenon, <1>1, <1>4, <1>5
    <3>2. \A x \in BusyOf(w_busy) \cup CachedOf(busy) : content'[x] = content[x]
      BY HintRequests
    <3> QED BY Zenon, <3>1, <3>2, <1>14
  <2>3. UNCHANGED <<queue, serving, stored, latest, failed>>
        /\ \A x \in Blocks : Pending(x) => content'[x] = content[x]
    BY Zenon, <1>2, <1>14, HintRequests
  <2> QED BY Zenon, <1>1, <1>9, <1>10, <1>11, <2>1, <2>2, <2>3, FreshMoved
<1> QED BY Zenon, <1>1, <1>7, <1>8, <1>9, <1>12, <1>13 DEF PoolInv

\* The free block is read into.
LEMMA HintRead ==
    ASSUME SetSizes, PoolInv, NEW bid \in Bids, NEW free \in SUBSET Blocks, NEW nfree,
           NEW busy \in [Bids -> Blocks \cup {NoBlock}],
           HintFinds(free, nfree, busy, bid), HintReturns, cpc # "invalidate",
           NEW b \in free, busy[bid] = NoBlock, ~has_request(bid), HintReads(b, free, nfree, busy, bid)
    PROVE  PoolInv' /\ Owned' = Owned
<1>1. /\ TypeOK /\ Places /\ Flights /\ Held /\ Fresh
      /\ Reading = {} /\ Reading' = {} /\ Calls'
      /\ Apart(w_free, BusyOf(w_busy), free, CachedOf(busy), user, leaked, {})
      /\ Owned = w_free \cup BusyOf(w_busy) \cup free \cup CachedOf(busy) \cup user \cup leaked
      /\ nfree = Cardinality(free) /\ nfree \in Nat /\ CachedOnce(busy)
  BY Zenon, HintPlaces
<1>2. UNCHANGED <<user, leaked, serving, stored, latest, failed>> /\ cpc' = "idle" /\ cblk' = NoBlock
  BY Zenon DEF HintReturns
<1>14. UNCHANGED <<w_free, w_busy>> /\ Submit(b, "read", bid) /\ p_free' = free \ {b}
  BY Zenon DEF HintReads
<1>3. b \in Blocks /\ ~Pending(b) /\ b \notin CachedOf(busy) /\ b \notin BusyOf(w_busy)
  BY Zenon, <1>1 DEF Apart, HintFinds
<1>4. /\ p_busy' \in [Bids -> Blocks \cup {NoBlock}] /\ CachedOnce(p_busy')
      /\ CachedOf(p_busy') = CachedOf(busy) \cup {b}
      /\ p_busy'[bid] = b /\ \A d \in Bids \ {bid} : p_busy'[d] = busy[d]
  <2>1. /\ p_busy' \in [Bids -> Blocks \cup {NoBlock}]
        /\ p_busy'[bid] = b /\ \A d \in Bids \ {bid} : p_busy'[d] = busy[d]
    BY Zenon, <1>3 DEF HintReads
  <2>2. CachedOnce(p_busy') /\ CachedOf(p_busy') = CachedOf(busy) \cup {b}
    <3>1. NoBlock \notin Blocks /\ CachedOnce(busy)
      BY Zenon, <1>1, PoolsAssumption
    <3> QED BY <1>3, <2>1, <3>1, CachedArrives
  <2> QED BY Zenon, <2>1, <2>2
<1>5. p_free' \subseteq Blocks /\ free_blocks_size' = Cardinality(p_free') /\ free_blocks_size' \in Nat
  <2>1. Cardinality(free \ {b}) = Cardinality(free) - 1
    BY Zenon, OneBlockLess
  <2>2. Cardinality(free \ {b}) \in Nat
    BY Zenon, FiniteBlocks
  <2> QED BY Zenon, <1>1, <2>1, <2>2 DEF HintReads
<1>6. /\ req' \in [Blocks -> [op : Ops \cup {"none"}, bid : Bids \cup {NoBid},
                              done : BOOLEAN, err : BOOLEAN]]
      /\ queue' \in [Disks -> [Ops -> Seq(Blocks)]]
      /\ Flights' /\ Held' /\ Fresh'
  <2>1. \A d \in Bids \ {bid} : p_busy'[d] = p_busy[d] /\ p_busy[d] # b
    BY <1>3, <1>4, PoolsAssumption DEF CachedOf, HintFinds
  <2>2. \A d \in Bids \ {bid} : p_busy[d] # NoBlock => content'[p_busy[d]] = content[p_busy[d]]
    <3>1. \A d \in Bids \ {bid} : p_busy[d] = busy[d]
      BY Zenon DEF HintFinds
    <3>2. \A x \in BusyOf(w_busy) \cup CachedOf(busy) : content'[x] = content[x]
      BY HintRequests
    <3>3. \A d \in Bids : busy[d] # NoBlock => busy[d] \in CachedOf(busy)
      BY Zenon DEF CachedOf
    <3> QED BY Zenon, <3>1, <3>2, <3>3
  <2>3. \A x \in Blocks : Pending(x) \/ x \in BusyOf(w_busy) => content'[x] = content[x]
    BY Zenon, HintRequests
  <2>4. /\ cpc \in {"idle", "write"} /\ (cpc = "write" => cbid = bid)
        /\ p_busy[bid] = NoBlock \/ (cpc = "write" /\ cbid = bid /\ req[p_busy[bid]].done)
    BY Zenon DEF HintFinds
  <2> QED BY Zenon, <1>1, <1>2, <1>14, <1>3, <1>4, <2>1, <2>2, <2>3, <2>4, ReadSubmitted
<1>7. TypeOK'
  BY Zenon, <1>1, <1>14, <1>4, <1>5, <1>6 DEF TypeOK, HintReturns
<1>8. Places' /\ Owned' = Owned
  <2>1. /\ Apart(w_free, BusyOf(w_busy), free \ {b}, CachedOf(busy) \cup {b}, user, leaked, {})
        /\ Owned = w_free \cup BusyOf(w_busy) \cup (free \ {b}) \cup (CachedOf(busy) \cup {b})
                    \cup user \cup leaked
    BY <1>1, ApartHinted
  <2>2. BusyOnce(w_busy) /\ BidOnce(w_busy)
    BY Zenon, <1>1 DEF Places
  <2>3. Places'
    BY Zenon, <1>1, <1>2, <1>14, <1>4, <1>5, <2>1, <2>2 DEF Places
  <2> QED BY Zenon, <1>1, <1>2, <1>14, <1>4, <2>1, <2>3 DEF Owned
<1> QED BY Zenon, <1>1, <1>6, <1>7, <1>8 DEF PoolInv

\* hint keeps the invariant, whichever of its three ends it takes.
LEMMA HintKeeps ==
    ASSUME SetSizes, PoolInv, NEW bid \in Bids, NEW free \in SUBSET Blocks, NEW nfree,
           NEW busy \in [Bids -> Blocks \cup {NoBlock}],
           HintFinds(free, nfree, busy, bid), HintOn(free, nfree, busy, bid), HintReturns,
           cpc # "invalidate"
    PROVE  PoolInv' /\ Owned' = Owned
BY Zenon, HintNothing, HintTaken, HintRead DEF HintOn, HintTakes, HintReads

\* prefetch_pool::hint.
LEMMA HintStep ==
    ASSUME SetSizes, PoolInv, NEW bid \in Bids, Hint(bid)
    PROVE  PoolInv' /\ Owned' = Owned
<1>1. TypeOK /\ Places /\ Calls /\ Held
  BY Zenon DEF PoolInv
<1>2. HintFinds(p_free, free_blocks_size, p_busy, bid)
  <2>1. \A x \in p_free : ~Pending(x)
    BY Zenon, <1>1, FreeIsDone
  <2> QED BY Zenon, <1>1, <2>1 DEF HintFinds, Hint, data, Places, Apart
<1>3. HintReturns
  BY Zenon, <1>1 DEF HintReturns, Hint, data, client, TypeOK, Calls
<1>4. HintOn(p_free, free_blocks_size, p_busy, bid) /\ cpc # "invalidate"
  BY Zenon DEF Hint
<1>5. p_free \in SUBSET Blocks /\ p_busy \in [Bids -> Blocks \cup {NoBlock}]
  BY Zenon, <1>1 DEF TypeOK
<1> QED BY Zenon, <1>2, <1>3, <1>4, <1>5, HintKeeps

\* The end of prefetch_pool::invalidate, and the hint() of write().
LEMMA InvalidatedStep == ASSUME SetSizes, PoolInv, Invalidated PROVE PoolInv' /\ Owned' = Owned
<1>1. TypeOK /\ Places /\ Calls /\ Held
  BY Zenon DEF PoolInv
<1>2. cpc \in {"write", "invalidate"} /\ cbid \in Bids /\ p_busy[cbid] # NoBlock
  BY Zenon, <1>1 DEF Invalidated, Calls
<1>3. PICK bid \in Bids : bid = cbid
  BY Zenon, <1>2
<1>4. PICK b \in Blocks : b = p_busy[bid]
  BY Zenon, <1>1, <1>2, <1>3 DEF TypeOK
<1>5. PICK busy : busy = [p_busy EXCEPT ![bid] = NoBlock]
  BY Zenon
<1>6. /\ busy \in [Bids -> Blocks \cup {NoBlock}] /\ CachedOnce(busy)
      /\ CachedOf(busy) = CachedOf(p_busy) \ {b}
  BY Zenon, <1>1, <1>4, <1>5, CachedLeaves DEF TypeOK, Places
<1>7. busy[bid] = NoBlock /\ \A d \in Bids \ {bid} : busy[d] = p_busy[d]
  BY Zenon, <1>1, <1>5 DEF TypeOK
<1>8. PICK free \in SUBSET Blocks : free = p_free \cup {b}
  BY Zenon, <1>1 DEF TypeOK
<1>9. b \in CachedOf(p_busy) /\ b \notin p_free
  <2>1. b \in CachedOf(p_busy)
    BY Zenon, <1>4, PoolsAssumption DEF CachedOf
  <2> QED BY Zenon, <1>1, <2>1 DEF Places, Apart
<1>10. PICK nfree : nfree = free_blocks_size + 1
  BY Zenon
<1>11. nfree = Cardinality(free)
  <2>1. p_free \in SUBSET Blocks /\ free_blocks_size = Cardinality(p_free)
    BY Zenon, <1>1 DEF TypeOK, Places
  <2> QED BY Zenon, <1>8, <1>9, <1>10, <2>1, OneMoreBlock
<1>12. HintFinds(free, nfree, busy, bid)
  <2>1. req[p_busy[bid]].done /\ \A x \in Blocks \ {b} : content'[x] = content[x]
    BY Zenon, <1>3, <1>4 DEF Invalidated, wait, Forget
  <2>2. \A x \in free : ~Pending(x)
    BY Zenon, <1>1, <1>4, <1>8, <2>1, FreeIsDone DEF Pending
  <2>3. CachedOf(busy) \cup free = CachedOf(p_busy) \cup p_free /\ CachedOf(busy) \cap free = {}
    BY Zenon, <1>1, <1>6, <1>8, <1>9 DEF Places, Apart
  <2> QED BY Zenon, <1>2, <1>3, <1>6, <1>7, <1>8, <1>11, <2>1, <2>2, <2>3 DEF HintFinds
<1>13. HintReturns
  BY Zenon, <1>1 DEF HintReturns, Invalidated, Forget, Return, TypeOK
<1>14. CASE cpc = "write"
  <2>1. HintOn(free, nfree, busy, bid)
    BY Zenon, <1>3, <1>4, <1>5, <1>8, <1>10, <1>14 DEF Invalidated
  <2> QED BY Zenon, <1>6, <1>12, <1>13, <1>14, <2>1, HintKeeps
<1>15. CASE cpc = "invalidate"
  <2>1. p_free' = free /\ free_blocks_size' = nfree /\ p_busy' = busy /\ UNCHANGED <<w_free, w_busy, req, queue>>
    BY Zenon, <1>3, <1>4, <1>5, <1>8, <1>10, <1>15 DEF Invalidated
  <2> QED BY Zenon, <1>6, <1>12, <1>13, <2>1, HintNothing
<1> QED BY Zenon, <1>2, <1>14, <1>15

\* A block of the client goes to a pool, and one of a pool to the read().
LEMMA ApartRead ==
    ASSUME NEW wf, NEW wb, NEW pf, NEW pb, NEW us, NEW lk, Apart(wf, wb, pf, pb, us, lk, {}),
           NEW b \in us
    PROVE  /\ Apart(wf, wb, pf, pb, us \ {b}, lk, {b})
           /\ wf \cup wb \cup pf \cup pb \cup us \cup lk
                = wf \cup wb \cup pf \cup pb \cup (us \ {b}) \cup lk \cup {b}
BY Zenon DEF Apart

\* A read of a hinted address trades the block of the client for the hinted one.
LEMMA ApartReadHinted ==
    ASSUME NEW wf, NEW wb, NEW pf, NEW pb, NEW us, NEW lk, Apart(wf, wb, pf, pb, us, lk, {}),
           NEW b \in us, NEW y \in pb
    PROVE  /\ Apart(wf, wb, pf \cup {b}, pb \ {y}, us \ {b}, lk, {y})
           /\ wf \cup wb \cup pf \cup pb \cup us \cup lk
                = wf \cup wb \cup (pf \cup {b}) \cup (pb \ {y}) \cup (us \ {b}) \cup lk \cup {y}
BY Zenon DEF Apart

\* A read of an address under write trades the block of the client for the written one.
LEMMA ApartReadTaken ==
    ASSUME NEW wf, NEW wb, NEW pf, NEW pb, NEW us, NEW lk, Apart(wf, wb, pf, pb, us, lk, {}),
           NEW b \in us, NEW y \in wb
    PROVE  /\ Apart(wf \cup {b}, wb \ {y}, pf, pb, us \ {b}, lk, {y})
           /\ wf \cup wb \cup pf \cup pb \cup us \cup lk
                = (wf \cup {b}) \cup (wb \ {y}) \cup pf \cup pb \cup (us \ {b}) \cup lk \cup {y}
BY Zenon DEF Apart

\* prefetch_pool::read, up to the wait() of the client.
ReadBegins(b, bid) ==
    /\ cpc = "idle" /\ b \in user /\ user' = user \ {b} /\ cpc' = "read" /\ cbid' = bid
    /\ UNCHANGED <<leaked, serving, content, stored, latest, failed, cleft>>

\* What the invariant says at the start of prefetch_pool::read.
LEMMA ReadPlaces ==
    ASSUME PoolInv, NEW b \in Blocks, NEW bid \in Bids, ReadBegins(b, bid)
    PROVE  /\ TypeOK /\ Places /\ Flights /\ Held /\ Fresh /\ Reading = {} /\ b \in user
           /\ Apart(w_free, BusyOf(w_busy), p_free, CachedOf(p_busy), user, leaked, {})
           /\ Owned = w_free \cup BusyOf(w_busy) \cup p_free \cup CachedOf(p_busy) \cup user \cup leaked
           /\ \A x \in Blocks : Pending(x) => x \in BusyOf(w_busy) \cup CachedOf(p_busy) \cup leaked
           /\ ~Pending(b) /\ b \notin BusyOf(w_busy) /\ b \notin CachedOf(p_busy)
<1>1. TypeOK /\ Places /\ Calls /\ Flights /\ Held /\ Fresh /\ b \in user
  BY Zenon DEF PoolInv, Live, Closing, ReadBegins
<1>2. Reading = {}
  BY Zenon, <1>1 DEF Calls, Reading, ReadBegins
<1>3. /\ Apart(w_free, BusyOf(w_busy), p_free, CachedOf(p_busy), user, leaked, {})
      /\ Owned = w_free \cup BusyOf(w_busy) \cup p_free \cup CachedOf(p_busy) \cup user \cup leaked
      /\ \A x \in Blocks : Pending(x) => x \in BusyOf(w_busy) \cup CachedOf(p_busy) \cup leaked
  BY Zenon, <1>1, <1>2 DEF Places, Owned, Held
<1>4. ~Pending(b) /\ b \notin BusyOf(w_busy) /\ b \notin CachedOf(p_busy)
  BY Zenon, <1>1, <1>3, FreeIsDone DEF Apart
<1> QED BY Zenon, <1>1, <1>2, <1>3, <1>4

\* The block y that is handed out was the place's newest: the requests stay.
LEMMA ReadMoves ==
    ASSUME PoolInv, NEW b \in Blocks, NEW bid \in Bids, ReadBegins(b, bid), UNCHANGED <<req, queue>>,
           NEW y \in Blocks, cblk' = y, Serves(y, bid), TypeOK', Places',
           BusyOf(w_busy) \cup CachedOf(p_busy) = BusyOf(w_busy') \cup CachedOf(p_busy') \cup {y},
           \A k \in DOMAIN w_busy' : \E i \in DOMAIN w_busy : w_busy'[k] = w_busy[i],
           \A m \in DOMAIN w_busy :
             \/ w_busy[m].bid = bid /\ w_busy[m].block = y
             \/ \E k \in DOMAIN w_busy' : w_busy'[k] = w_busy[m],
           \A d \in Bids : \/ p_busy'[d] = p_busy[d]
                           \/ d = bid /\ p_busy[d] = y /\ p_busy'[d] = NoBlock
    PROVE  PoolInv'
<1>1. /\ TypeOK /\ Places /\ Flights /\ Held /\ Fresh /\ Reading = {}
      /\ \A x \in Blocks : Pending(x) => x \in BusyOf(w_busy) \cup CachedOf(p_busy) \cup leaked
  BY Zenon, ReadPlaces
<1>2. /\ UNCHANGED <<leaked, serving, content, stored, latest, failed>>
      /\ cpc = "idle" /\ cpc' = "read" /\ cbid' = bid
  BY Zenon DEF ReadBegins
<1>3. Settled /\ Flights'
  BY Zenon, <1>1, <1>2, RequestsStay DEF io
<1>4. Reading' = {y} /\ Calls'
  BY Zenon, <1>2, PoolsAssumption DEF Reading, Calls
<1>5. /\ \A d \in Bids : p_busy'[d] # NoBlock => Serves(p_busy'[d], d)
      /\ cpc' = "read" => cblk' \in Blocks /\ cbid' \in Bids /\ Serves(cblk', cbid')
  BY Zenon, <1>2 DEF Serves
<1>6. Held'
  <2>1. \A x \in Blocks :
          Pending(x) => x \in BusyOf(w_busy') \cup CachedOf(p_busy') \cup Reading' \cup leaked'
    BY Zenon, <1>1, <1>2, <1>4
  <2> QED BY Zenon, <1>1, <1>3, <1>5, <2>1, HeldMoved
<1>7. Fresh'
  <2>1. \A x \in Blocks, d \in Bids : Current(x, d) => Current(x, d)'
    BY <1>2 DEF Current
  <2>2. \A x : content'[x] = content[x] /\ req'[x] = req[x]
    BY Zenon, <1>2
  <2>3. cpc' \notin {"write", "invalidate"} /\ UNCHANGED <<queue, serving, stored, latest, failed>>
    BY Zenon, <1>2
  <2> QED BY Zenon, <1>1, <1>3, <1>5, <2>1, <2>2, <2>3, FreshMoved
<1> QED BY Zenon, <1>3, <1>4, <1>6, <1>7 DEF PoolInv

\* The block is hinted: the free one goes to the prefetch pool in exchange.
LEMMA ReadHinted ==
    ASSUME SetSizes, PoolInv, NEW b \in Blocks, NEW bid \in Bids, ReadBegins(b, bid),
           p_busy[bid] # NoBlock,
           p_free' = p_free \cup {b}, free_blocks_size' = free_blocks_size + 1,
           cblk' = p_busy[bid], p_busy' = [p_busy EXCEPT ![bid] = NoBlock],
           UNCHANGED <<w_free, w_busy, req, queue>>
    PROVE  PoolInv' /\ Owned' = Owned
<1>1. /\ TypeOK /\ Places /\ b \in user
      /\ Apart(w_free, BusyOf(w_busy), p_free, CachedOf(p_busy), user, leaked, {})
      /\ Owned = w_free \cup BusyOf(w_busy) \cup p_free \cup CachedOf(p_busy) \cup user \cup leaked
  BY Zenon, ReadPlaces
<1>2. /\ UNCHANGED <<leaked, serving, content, stored, latest, failed, cleft>>
      /\ cpc = "idle" /\ cpc' = "read" /\ cbid' = bid /\ user' = user \ {b}
  BY Zenon DEF ReadBegins
<1>3. PICK y \in Blocks : y = p_busy[bid]
  BY Zenon, <1>1 DEF TypeOK
<1>4. y \in CachedOf(p_busy) /\ Reading' = {y} /\ Serves(y, bid)
  BY Zenon, <1>2, <1>3, PoolsAssumption DEF CachedOf, Reading, Serves
<1>5. /\ p_busy' \in [Bids -> Blocks \cup {NoBlock}] /\ CachedOnce(p_busy')
      /\ CachedOf(p_busy') = CachedOf(p_busy) \ {y}
  BY Zenon, <1>1, <1>3, CachedLeaves DEF TypeOK, Places
<1>6. \A d \in Bids : p_busy'[d] = p_busy[d] \/ (d = bid /\ p_busy[d] = y /\ p_busy'[d] = NoBlock)
  BY Zenon, <1>1, <1>3 DEF TypeOK
<1>7. free_blocks_size' = Cardinality(p_free')
  <2>1. b \notin p_free
    BY Zenon, <1>1 DEF Apart
  <2>2. p_free \in SUBSET Blocks /\ free_blocks_size = Cardinality(p_free)
    BY Zenon, <1>1 DEF TypeOK, Places
  <2> QED BY <2>1, <2>2, OneMoreBlock
<1>8. TypeOK'
  BY <1>1, <1>2, <1>3, <1>5 DEF TypeOK
<1>9. /\ Apart(w_free, BusyOf(w_busy), p_free \cup {b}, CachedOf(p_busy) \ {y}, user \ {b}, leaked, {y})
      /\ Owned = w_free \cup BusyOf(w_busy) \cup (p_free \cup {b}) \cup (CachedOf(p_busy) \ {y})
                   \cup (user \ {b}) \cup leaked \cup {y}
  BY <1>1, <1>4, ApartReadHinted
<1>10. BusyOnce(w_busy) /\ BidOnce(w_busy)
  BY Zenon, <1>1 DEF Places
<1>11. Places'
  BY Zenon, <1>2, <1>4, <1>5, <1>7, <1>9, <1>10 DEF Places
<1>12. Owned' = Owned
  BY Zenon, <1>2, <1>4, <1>5, <1>9 DEF Owned
<1>13. BusyOf(w_busy) \cup CachedOf(p_busy) = BusyOf(w_busy') \cup CachedOf(p_busy') \cup {y}
  BY Zenon, <1>4, <1>5
<1>14. PoolInv'
  BY Zenon, <1>3, <1>4, <1>6, <1>8, <1>11, <1>13, ReadMoves
<1> QED BY Zenon, <1>12, <1>14

\* The block of the write in flight is handed out, and the free one goes to the
\* write pool in exchange.
LEMMA ReadTaken ==
    ASSUME PoolInv, NEW b \in Blocks, NEW bid \in Bids, ReadBegins(b, bid), has_request(bid),
           cblk' = w_busy[RequestAt(bid)].block, w_busy' = steal_request(bid), w_free' = InExchange(b),
           UNCHANGED <<p_free, p_busy, free_blocks_size, req, queue>>
    PROVE  PoolInv' /\ Owned' = Owned
<1>1. /\ TypeOK /\ Places /\ b \in user
      /\ Apart(w_free, BusyOf(w_busy), p_free, CachedOf(p_busy), user, leaked, {})
      /\ Owned = w_free \cup BusyOf(w_busy) \cup p_free \cup CachedOf(p_busy) \cup user \cup leaked
  BY Zenon, ReadPlaces
<1>2. /\ UNCHANGED <<leaked, serving, content, stored, latest, failed, cleft>>
      /\ cpc = "idle" /\ cpc' = "read" /\ cbid' = bid /\ user' = user \ {b}
  BY Zenon DEF ReadBegins
<1>3. PICK y \in Blocks : Taken(y, bid)
  BY Zenon, <1>1, RequestTaken
<1>4. /\ cblk' = y /\ y \in BusyOf(w_busy) /\ Serves(y, bid)
      /\ w_busy' \in Seq(Entries) /\ BusyOnce(w_busy') /\ BidOnce(w_busy')
      /\ BusyOf(w_busy') = BusyOf(w_busy) \ {y}
  BY Zenon, <1>3 DEF Taken
<1>5. Reading' = {y} /\ w_free' = w_free \cup {b}
  BY Zenon, <1>4, PoolsAssumption DEF Reading, InExchange
<1>6. TypeOK'
  BY Zenon, <1>1, <1>2, <1>4, <1>5 DEF TypeOK, Entries
<1>7. /\ Apart(w_free \cup {b}, BusyOf(w_busy) \ {y}, p_free, CachedOf(p_busy), user \ {b}, leaked, {y})
      /\ Owned = (w_free \cup {b}) \cup (BusyOf(w_busy) \ {y}) \cup p_free \cup CachedOf(p_busy)
                   \cup (user \ {b}) \cup leaked \cup {y}
  BY <1>1, <1>4, ApartReadTaken
<1>8. CachedOnce(p_busy) /\ free_blocks_size = Cardinality(p_free)
  BY Zenon, <1>1 DEF Places
<1>9. Places'
  BY Zenon, <1>2, <1>4, <1>5, <1>7, <1>8 DEF Places
<1>10. Owned' = Owned
  BY Zenon, <1>2, <1>4, <1>5, <1>7 DEF Owned
<1>11. BusyOf(w_busy) \cup CachedOf(p_busy) = BusyOf(w_busy') \cup CachedOf(p_busy') \cup {y}
  BY Zenon, <1>4
<1>12. /\ \A k \in DOMAIN w_busy' : \E i \in DOMAIN w_busy : w_busy'[k] = w_busy[i]
       /\ \A m \in DOMAIN w_busy :
            \/ w_busy[m].bid = bid /\ w_busy[m].block = y
            \/ \E k \in DOMAIN w_busy' : w_busy'[k] = w_busy[m]
  BY Zenon, <1>3 DEF Taken
<1>13. PoolInv'
  BY Zenon, <1>4, <1>6, <1>9, <1>11, <1>12, ReadMoves
<1> QED BY Zenon, <1>10, <1>13

\* The client's block is read into.
LEMMA ReadFromDisk ==
    ASSUME PoolInv, NEW b \in Blocks, NEW bid \in Bids, ReadBegins(b, bid),
           p_busy[bid] = NoBlock, ~has_request(bid), cblk' = b, Submit(b, "read", bid),
           UNCHANGED <<w_free, w_busy, p_free, p_busy, free_blocks_size>>
    PROVE  PoolInv' /\ Owned' = Owned
<1>1. /\ TypeOK /\ Places /\ b \in user
      /\ Apart(w_free, BusyOf(w_busy), p_free, CachedOf(p_busy), user, leaked, {})
      /\ Owned = w_free \cup BusyOf(w_busy) \cup p_free \cup CachedOf(p_busy) \cup user \cup leaked
      /\ ~Pending(b) /\ b \notin BusyOf(w_busy) /\ b \notin CachedOf(p_busy)
  BY Zenon, ReadPlaces
<1>2. /\ UNCHANGED <<leaked, serving, content, stored, latest, failed, cleft>>
      /\ cpc = "idle" /\ cpc' = "read" /\ cbid' = bid /\ user' = user \ {b}
  BY Zenon DEF ReadBegins
<1>3. /\ req' \in [Blocks -> [op : Ops \cup {"none"}, bid : Bids \cup {NoBid},
                              done : BOOLEAN, err : BOOLEAN]]
      /\ queue' \in [Disks -> [Ops -> Seq(Blocks)]]
      /\ Flights' /\ Held' /\ Fresh'
  <2>1. \A d \in Bids : p_busy[d] # b
    BY Zenon, <1>1, PoolsAssumption DEF CachedOf
  <2> QED BY Zenon, <1>1, <1>2, <2>1, ReadSubmitted
<1>4. Reading' = {b} /\ Calls'
  BY Zenon, <1>2, PoolsAssumption DEF Reading, Calls
<1>5. TypeOK'
  BY Zenon, <1>1, <1>2, <1>3 DEF TypeOK
<1>6. /\ Apart(w_free, BusyOf(w_busy), p_free, CachedOf(p_busy), user \ {b}, leaked, {b})
      /\ Owned = w_free \cup BusyOf(w_busy) \cup p_free \cup CachedOf(p_busy)
                   \cup (user \ {b}) \cup leaked \cup {b}
  BY <1>1, ApartRead
<1>7. /\ BusyOnce(w_busy) /\ BidOnce(w_busy) /\ CachedOnce(p_busy)
      /\ free_blocks_size = Cardinality(p_free)
  BY Zenon, <1>1 DEF Places
<1>8. Places'
  BY Zenon, <1>2, <1>4, <1>6, <1>7 DEF Places
<1>9. Owned' = Owned
  BY Zenon, <1>2, <1>4, <1>6 DEF Owned
<1> QED BY Zenon, <1>3, <1>4, <1>5, <1>8, <1>9 DEF PoolInv

\* prefetch_pool::read keeps the invariant, whichever of its three ends it takes.
LEMMA ReadStep ==
    ASSUME SetSizes, PoolInv, NEW b \in Blocks, NEW bid \in Bids, Read(b, bid)
    PROVE  PoolInv' /\ Owned' = Owned
<1>1. ReadBegins(b, bid)
  BY Zenon DEF Read, ReadBegins, data
<1> QED BY Zenon, <1>1, ReadHinted, ReadTaken, ReadFromDisk DEF Read

\* prefetch_pool::invalidate, up to its wait().
LEMMA InvalidateStep ==
    ASSUME PoolInv, NEW bid \in Bids, Invalidate(bid)
    PROVE  PoolInv' /\ Owned' = Owned
<1>1. TypeOK /\ Places /\ Calls /\ Flights /\ Held /\ Fresh /\ cpc = "idle"
  BY Zenon DEF PoolInv, Live, Closing, Invalidate
<1>2. /\ UNCHANGED <<w_free, w_busy, p_free, p_busy, free_blocks_size, user, leaked, serving>>
      /\ UNCHANGED <<content, stored, latest, failed, cblk, cleft>>
      /\ p_busy[bid] # NoBlock /\ cpc' = "invalidate" /\ cbid' = bid
  BY Zenon DEF Invalidate, pools, data
<1>3. Reading = {} /\ Reading' = {}
  BY Zenon, <1>1, <1>2 DEF Calls, Reading
<1>4. PICK C : C = ToCancel(bid)
  BY Zenon
<1>5. PICK b \in Blocks \cup {NoBlock} : b = NoBlock
  BY Zenon
<1>6. b \notin Blocks
  BY Zenon, <1>5, PoolsAssumption
<1>7. C \in SUBSET Blocks /\ Cancelable(C, bid) /\ OneOfQueue(C) /\ \A x \in C : req[x].op = "read"
  <2>1. ToBeCanceled(C, {}, bid)
    BY Zenon, <1>4 DEF ToBeCanceled
  <2>2. \A x \in C : req[x].op = "read"
    BY Zenon, <1>4 DEF ToCancel
  <2> QED BY Zenon, <2>1, <2>2, CancelsOne
<1>8. Cancels(C, b, "read", bid)
  <2>1. CancelAndSubmit(C, b, "read", bid) /\ "read" \in Ops
    BY Zenon, <1>4, <1>5 DEF Invalidate, Ops
  <2> QED BY Zenon, <1>1, <1>2, <1>6, <1>7, <2>1, CancelStep DEF OneOfQueue
<1>9. /\ \A x \in Blocks : Pending(x)' => Pending(x) /\ req'[x] = req[x]
      /\ \A x \in Blocks : Pending(x)' => x \in BusyOf(w_busy) \cup CachedOf(p_busy) \cup leaked
      /\ \A x \in Blocks, d \in Bids \ {bid} : Writing(x, d)' <=> Writing(x, d)
      /\ \A x, y \in Blocks, d \in Bids \ {bid} :
           (Writing(x, d) /\ Writing(y, d) /\ Before(x, y, DiskOf[d])) => Before(x, y, DiskOf[d])'
  <2>1. "read" \in Ops
    BY Zenon DEF Ops
  <2> QED BY Zenon, <1>1, <1>3, <1>6, <1>7, <1>8, <2>1, CanceledHeld
<1>10. /\ req' \in [Blocks -> [op : Ops \cup {"none"}, bid : Bids \cup {NoBid},
                               done : BOOLEAN, err : BOOLEAN]]
       /\ queue' \in [Disks -> [Ops -> Seq(Blocks)]] /\ Flights'
       /\ \A x \in Blocks : req'[x] = req[x] \/ (x \in C /\ req'[x] = Over(FALSE))
       /\ \A x, y \in Blocks, d \in Disks :
            (Before(x, y, d) /\ y \notin C /\ (x \notin C \/ serving[d] = x)) => Before(x, y, d)'
  BY Zenon, <1>6, <1>7, <1>8 DEF Cancels
<1>11. TypeOK' /\ Calls'
  BY Zenon, <1>1, <1>2, <1>10 DEF TypeOK, Calls
<1>12. Places' /\ Owned' = Owned
  BY Zenon, <1>1, <1>2, <1>3 DEF Places, Owned
<1>13. \A x \in Blocks, d \in Bids : Writing(x, d)' <=> Writing(x, d)
  BY <1>7, <1>10 DEF Writing, Pending, Over
<1>14. \A d \in Bids : Quiet(d)' <=> Quiet(d)
  BY Zenon, <1>13 DEF Quiet
<1>15. Held'
  <2>1. \A x \in Blocks : Pending(x)' => x \in (BusyOf(w_busy) \cup CachedOf(p_busy) \cup Reading \cup leaked)'
    BY Zenon, <1>2, <1>9
  <2>2. ASSUME NEW k \in DOMAIN w_busy, ~req'[w_busy[k].block].done
        PROVE  /\ req'[w_busy[k].block].op = "write"
               /\ w_busy[k].bid # NoBid => req'[w_busy[k].block].bid = w_busy[k].bid
    <3>1. w_busy[k].block \in Blocks
      BY Zenon, <1>1, BlocksOfPools
    <3> QED BY Zenon, <1>1, <1>9, <2>2, <3>1 DEF Held, Pending
  <2>3. ASSUME NEW d \in Bids, p_busy[d] # NoBlock, ~req'[p_busy[d]].done
        PROVE  req'[p_busy[d]].bid = d
    <3>1. p_busy[d] \in Blocks
      BY Zenon, <1>1, <2>3 DEF TypeOK
    <3> QED BY Zenon, <1>1, <1>9, <2>3, <3>1 DEF Held, Pending
  <2> QED BY Zenon, <1>2, <2>1, <2>2, <2>3 DEF Held, Pending
<1>16. FreshWrites'
  <2>1. \A x, y \in Blocks, d \in Bids :
          (Writing(x, d) /\ Writing(y, d) /\ Before(x, y, DiskOf[d])) => Before(x, y, DiskOf[d])'
    <3>1. \A x \in Blocks, d \in Bids : Writing(x, d) => x \notin C
      BY Zenon, <1>7 DEF Writing
    <3>2. \A d \in Bids : DiskOf[d] \in Disks
      BY Zenon, PoolsAssumption
    <3> QED BY Zenon, <1>10, <3>1, <3>2
  <2>2. \A x \in Blocks, d \in Bids : Current(x, d) => Current(x, d)' /\ content'[x] = content[x]
    BY Zenon, <1>1, <1>2 DEF Current
  <2> QED BY Zenon, <1>1, <1>2, <1>13, <2>1, <2>2, WritesKept DEF Fresh
<1>17. FreshBusy' /\ FreshRead'
  BY Zenon, <1>1, <1>2 DEF Fresh, FreshBusy, FreshRead
<1>18. FreshCached'
  <2> SUFFICES ASSUME NEW d \in Bids, p_busy[d] # NoBlock
               PROVE  /\ Promise(p_busy[d], d)'
                      /\ d # bid => Delivered(p_busy[d], d)'
    BY Zenon, <1>2 DEF FreshCached
  <2>1. PICK y \in Blocks : y = p_busy[d] /\ y = p_busy'[d]
    BY Zenon, <1>1, <1>2 DEF TypeOK
  <2>2. Promise(y, d) /\ Delivered(y, d)
    BY Zenon, <1>1, <2>1, PoolsAssumption DEF Fresh, FreshCached
  <2>3. Promise(y, d)'
    BY Zenon, <1>2, <1>9, <1>14, <2>2 DEF Promise
  <2>4. ASSUME d # bid PROVE Delivered(y, d)'
    <3>1. y \notin C
      BY Zenon, <1>7, <2>1, <2>4 DEF Cancelable
    <3>2. req'[y] = req[y]
      BY Zenon, <1>10, <3>1
    <3> QED BY Zenon, <1>2, <1>14, <2>2, <3>2 DEF Delivered
  <2> QED BY Zenon, <2>1, <2>3, <2>4
<1> QED BY Zenon, <1>10, <1>11, <1>12, <1>15, <1>16, <1>17, <1>18 DEF PoolInv, Fresh

\* write_pool::write and prefetch_pool::invalidate, up to its wait().
LEMMA WriteRequests ==
    ASSUME PoolInv, NEW b \in Blocks, NEW bid \in Bids, NEW v \in Values, Write(b, bid, v)
    PROVE  /\ Replaced(w_busy', b, bid)
           /\ b \notin BusyOf(w_busy) /\ b \notin CachedOf(p_busy) /\ ~Pending(b)
           /\ \E C \in SUBSET Blocks : Cancelable(C, bid) /\ Cancels(C, b, "write", bid)
<1>1. TypeOK /\ Places /\ Flights /\ Held /\ b \in user
  BY Zenon DEF PoolInv, Write
<1>2. b \notin BusyOf(w_busy) /\ b \notin CachedOf(p_busy) /\ ~Pending(b)
  BY Zenon, <1>1, FreeIsDone DEF Places, Apart
<1>3. Replaced(w_busy', b, bid)
  <2>1. w_busy' = Append(Superseded(bid), [block |-> b, bid |-> bid])
    BY Zenon DEF Write
  <2> QED BY Zenon, <1>1, <1>2, <2>1, WriteReplaces DEF Places
<1>4. PICK stale : stale = {w_busy[i].block : i \in {j \in DOMAIN w_busy : w_busy[j].bid = bid}}
  BY Zenon
<1>5. PICK C : C = stale \cup ToCancel(bid)
  BY Zenon
<1>6. CancelAndSubmit(C, b, "write", bid) /\ serving' = serving
  BY Zenon, <1>4, <1>5 DEF Write
<1>7. ToBeCanceled(C, stale, bid)
  BY Zenon, <1>1, <1>4, <1>5, BlocksOfPools DEF ToBeCanceled
<1>8. C \in SUBSET Blocks /\ Cancelable(C, bid) /\ OneOfQueue(C)
  BY Zenon, <1>7, CancelsOne
<1>9. Cancels(C, b, "write", bid)
  <2>1. "write" \in Ops
    BY Zenon DEF Ops
  <2> QED BY Zenon, <1>1, <1>2, <1>6, <1>8, <2>1, CancelStep DEF OneOfQueue
<1> QED BY Zenon, <1>2, <1>3, <1>8, <1>9

\* write_pool::write keeps the invariant.
LEMMA WriteStep ==
    ASSUME PoolInv, NEW b \in Blocks, NEW bid \in Bids, NEW v \in Values, Write(b, bid, v)
    PROVE  PoolInv' /\ Owned' = Owned
<1>1. TypeOK /\ Places /\ Calls /\ Flights /\ Held /\ Fresh /\ cpc = "idle" /\ b \in user
  BY Zenon DEF PoolInv, Live, Closing, Write
<1>2. /\ UNCHANGED <<w_free, p_free, p_busy, free_blocks_size, leaked, serving, stored, failed>>
      /\ user' = user \ {b}
  BY Zenon DEF Write
<1>3. /\ content' = [content EXCEPT ![b] = v] /\ latest' = [latest EXCEPT ![bid] = v]
      /\ UNCHANGED <<cblk, cleft>>
      /\ \/ p_busy[bid] = NoBlock /\ cpc' = "idle" /\ cbid' = cbid
         \/ p_busy[bid] # NoBlock /\ cpc' = "write" /\ cbid' = bid
  BY Zenon, <1>1 DEF Write, client
<1>4. /\ content'[b] = v /\ \A x \in Blocks \ {b} : content'[x] = content[x]
      /\ latest'[bid] = v /\ \A d \in Bids \ {bid} : latest'[d] = latest[d]
      /\ content' \in [Blocks -> Values \cup {NoValue}] /\ latest' \in [Bids -> Values \cup {NoValue}]
  BY Zenon, <1>1, <1>3 DEF TypeOK
<1>5. Replaced(w_busy', b, bid) /\ b \notin BusyOf(w_busy) /\ b \notin CachedOf(p_busy) /\ ~Pending(b)
  BY Zenon, WriteRequests
<1>6. PICK C \in SUBSET Blocks : Cancelable(C, bid) /\ Cancels(C, b, "write", bid)
  BY Zenon, WriteRequests
<1>7. Reading = {} /\ Reading' = {} /\ "write" \in Ops
  BY Zenon, <1>1, <1>3 DEF Calls, Reading, Ops
<1>8. /\ \A x \in Blocks : Pending(x)' => x = b \/ (Pending(x) /\ req'[x] = req[x])
      /\ \A x \in Blocks : Pending(x)' => x = b \/ x \in BusyOf(w_busy) \cup CachedOf(p_busy) \cup leaked
      /\ \A x \in Blocks, d \in Bids \ {bid} : Writing(x, d)' <=> Writing(x, d)
      /\ \A d \in Bids \ {bid} : Quiet(d)' <=> Quiet(d)
      /\ \A x, y \in Blocks, d \in Bids \ {bid} :
           (Writing(x, d) /\ Writing(y, d) /\ Before(x, y, DiskOf[d])) => Before(x, y, DiskOf[d])'
  BY Zenon, <1>1, <1>5, <1>6, <1>7, CanceledHeld
<1>9. /\ req' \in [Blocks -> [op : Ops \cup {"none"}, bid : Bids \cup {NoBid},
                              done : BOOLEAN, err : BOOLEAN]]
      /\ queue' \in [Disks -> [Ops -> Seq(Blocks)]] /\ Flights'
      /\ req'[b] = [op |-> "write", bid |-> bid, done |-> FALSE, err |-> FALSE]
      /\ \A x \in Blocks \ {b} :
           (Pending(x)' /\ req'[x].op = "write" /\ DiskOf[req'[x].bid] = DiskOf[bid])
               => Before(x, b, DiskOf[bid])'
  BY Zenon, <1>6 DEF Cancels
<1>10. /\ w_busy' \in Seq(Entries) /\ BusyOnce(w_busy') /\ BidOnce(w_busy')
       /\ BusyOf(w_busy') = BusyOf(w_busy) \cup {b}
  BY Zenon, <1>5 DEF Replaced
<1>11. TypeOK' /\ Calls'
  <2>1. TypeOK'
    BY Zenon, <1>1, <1>2, <1>3, <1>4, <1>9, <1>10 DEF TypeOK, Entries
  <2> QED BY Zenon, <1>1, <1>2, <1>3, <2>1 DEF Calls
<1>12. Places' /\ Owned' = Owned
  <2>1. Apart(w_free, BusyOf(w_busy) \cup {b}, p_free, CachedOf(p_busy), user \ {b}, leaked, {})
    BY <1>1, <1>7 DEF Places, Apart
  <2>2. CachedOnce(p_busy) /\ free_blocks_size = Cardinality(p_free)
    BY Zenon, <1>1 DEF Places
  <2>3. Places'
    BY Zenon, <1>2, <1>7, <1>10, <2>1, <2>2 DEF Places
  <2> QED BY Zenon, <1>1, <1>2, <1>7, <1>10, <2>3 DEF Owned
<1>13. Held'
  <2>1. \A x \in Blocks : Pending(x)' => x \in (BusyOf(w_busy) \cup CachedOf(p_busy) \cup Reading \cup leaked)'
    BY Zenon, <1>2, <1>8, <1>10
  <2>2. ASSUME NEW k \in DOMAIN w_busy', ~req'[w_busy'[k].block].done
        PROVE  /\ req'[w_busy'[k].block].op = "write"
               /\ w_busy'[k].bid # NoBid => req'[w_busy'[k].block].bid = w_busy'[k].bid
    <3>1. CASE w_busy'[k].block = b /\ w_busy'[k].bid = bid
      BY <1>9, <3>1
    <3>2. ASSUME NEW m \in DOMAIN w_busy, w_busy'[k].block = w_busy[m].block,
                 w_busy'[k].bid = NoBid \/ w_busy'[k].bid = w_busy[m].bid
          PROVE  /\ req'[w_busy'[k].block].op = "write"
                 /\ w_busy'[k].bid # NoBid => req'[w_busy'[k].block].bid = w_busy'[k].bid
      <4>1. w_busy[m].block \in Blocks /\ w_busy[m].block # b
        BY Zenon, <1>1, <1>5, BlocksOfPools DEF BusyOf
      <4>2. Pending(w_busy[m].block) /\ req'[w_busy[m].block] = req[w_busy[m].block]
        BY Zenon, <1>8, <2>2, <3>2, <4>1 DEF Pending
      <4>3. /\ req[w_busy[m].block].op = "write"
            /\ w_busy[m].bid # NoBid => req[w_busy[m].block].bid = w_busy[m].bid
        BY Zenon, <1>1, <4>2 DEF Held
      <4> QED BY Zenon, <3>2, <4>2, <4>3
    <3> QED BY Zenon, <1>5, <3>1, <3>2 DEF Replaced
  <2>3. ASSUME NEW d \in Bids, p_busy[d] # NoBlock, ~req'[p_busy[d]].done
        PROVE  req'[p_busy[d]].bid = d
    <3>1. p_busy[d] \in Blocks /\ p_busy[d] # b
      BY Zenon, <1>1, <1>5, <2>3 DEF TypeOK, CachedOf
    <3> QED BY Zenon, <1>1, <1>8, <2>3, <3>1 DEF Held, Pending
  <2> QED BY Zenon, <1>2, <1>3, <2>1, <2>2, <2>3 DEF Held, Pending
<1>14. Fresh'
  <2>1. FreshWrites'
    <3> SUFFICES ASSUME NEW d \in Bids
                 PROVE  \/ \E c \in Blocks : LastWrite(c, d)'
                        \/ Quiet(d)' /\ (stored'[d] = latest'[d] \/ d \in failed')
      BY Zenon DEF FreshWrites
    <3>1. CASE d = bid
      <4>1. Writing(b, bid)' /\ Current(b, bid)' /\ content'[b] = latest'[bid]
        BY <1>4, <1>5, <1>9 DEF Writing, Pending, Current, Replaced
      <4>2. \A x \in Blocks : (x # b /\ Writing(x, bid)') => Before(x, b, DiskOf[bid])'
        BY Zenon, <1>9 DEF Writing
      <4> QED BY Zenon, <3>1, <4>1, <4>2 DEF LastWrite
    <3>2. CASE d # bid
      <4>1. CASE Quiet(d) /\ (stored[d] = latest[d] \/ d \in failed)
        BY Zenon, <1>2, <1>4, <1>8, <3>2, <4>1
      <4>2. ASSUME NEW c \in Blocks, LastWrite(c, d) PROVE LastWrite(c, d)'
        <5>1. Writing(c, d) /\ Current(c, d) /\ content[c] = latest[d] /\ c # b
          BY Zenon, <1>5, <4>2 DEF LastWrite, Writing
        <5>2. Current(c, d)'
          <6>1. CASE p_busy[d] = c
            BY Zenon, <1>2, <1>3, <3>2, <6>1 DEF Current
          <6>2. ASSUME NEW m \in DOMAIN w_busy, w_busy[m].block = c, w_busy[m].bid = d
                PROVE  Current(c, d)'
            BY Zenon, <1>5, <3>2, <6>2 DEF Current, Replaced
          <6> QED BY Zenon, <1>1, <5>1, <6>1, <6>2 DEF Current
        <5>3. content'[c] = latest'[d] /\ Writing(c, d)'
          BY Zenon, <1>4, <1>8, <3>2, <5>1
        <5>4. \A x \in Blocks : (x # c /\ Writing(x, d)') => Before(x, c, DiskOf[d])'
          BY Zenon, <1>8, <3>2, <4>2, <5>1 DEF LastWrite
        <5> QED BY Zenon, <5>2, <5>3, <5>4 DEF LastWrite
      <4> QED BY Zenon, <1>1, <4>1, <4>2 DEF Fresh, FreshWrites
    <3> QED BY Zenon, <3>1, <3>2
  <2>2. FreshBusy'
    <3> SUFFICES ASSUME NEW k \in DOMAIN w_busy', w_busy'[k].bid # NoBid
                 PROVE  content'[w_busy'[k].block] = latest'[w_busy'[k].bid]
      BY Zenon DEF FreshBusy
    <3>1. CASE w_busy'[k].block = b /\ w_busy'[k].bid = bid
      BY Zenon, <1>4, <3>1
    <3>2. ASSUME NEW m \in DOMAIN w_busy, w_busy'[k].block = w_busy[m].block,
                 w_busy'[k].bid = w_busy[m].bid, w_busy[m].bid # bid
          PROVE  content'[w_busy'[k].block] = latest'[w_busy'[k].bid]
      <4>1. w_busy[m].block \in Blocks \ {b} /\ w_busy[m].bid \in Bids \ {bid}
        BY Zenon, <1>1, <1>5, <3>2, BlocksOfPools DEF BusyOf
      <4>2. content[w_busy[m].block] = latest[w_busy[m].bid]
        BY Zenon, <1>1, <3>2 DEF Fresh, FreshBusy
      <4> QED BY Zenon, <1>4, <3>2, <4>1, <4>2
    <3> QED BY Zenon, <1>5, <3>1, <3>2 DEF Replaced
  <2>3. FreshCached'
    <3> SUFFICES ASSUME NEW d \in Bids, p_busy[d] # NoBlock, d # bid
                 PROVE  Promise(p_busy[d], d)' /\ Delivered(p_busy[d], d)'
      BY Zenon, <1>2, <1>3 DEF FreshCached
    <3>1. PICK y \in Blocks \ {b} : y = p_busy[d] /\ y = p_busy'[d]
      BY Zenon, <1>1, <1>2, <1>5 DEF TypeOK, CachedOf
    <3>2. Promise(y, d) /\ Delivered(y, d)
      BY Zenon, <1>1, <3>1 DEF Fresh, FreshCached
    <3>3. req'[y] = req[y]
      <4>1. y \notin C
        BY Zenon, <1>6, <3>1 DEF Cancelable
      <4> QED BY Zenon, <1>6, <3>1, <4>1 DEF Cancels
    <3>4. content'[y] = content[y] /\ latest'[d] = latest[d] /\ (Quiet(d)' <=> Quiet(d))
      BY Zenon, <1>4, <1>8, <3>1
    <3>5. Promise(y, d)' /\ Delivered(y, d)'
      BY Zenon, <1>2, <3>2, <3>3, <3>4 DEF Promise, Delivered, Pending
    <3> QED BY Zenon, <3>1, <3>5
  <2>4. FreshRead'
    BY Zenon, <1>3 DEF FreshRead
  <2> QED BY Zenon, <2>1, <2>2, <2>3, <2>4 DEF Fresh
<1> QED BY Zenon, <1>9, <1>11, <1>12, <1>13, <1>14 DEF PoolInv

-----------------------------------------------------------------------------
(* The theorems. *)

\* The pools start in the invariant.
LEMMA PoolsInit == Init => PoolInv
<1> SUFFICES ASSUME Init PROVE PoolInv
  BY Zenon
<1>1. PICK w \in SUBSET Blocks, p \in SUBSET Blocks :
        /\ Cardinality(w) = InitWrite /\ Cardinality(p) = InitPrefetch /\ w \cap p = {}
        /\ w_free = w /\ p_free = p /\ user = Blocks \ (w \cup p)
  BY Zenon DEF Init
<1>2. TypeOK
  <2>1. /\ w_busy \in Seq([block : Blocks, bid : Bids \cup {NoBid}])
        /\ req \in [Blocks -> [op : Ops \cup {"none"}, bid : Bids \cup {NoBid}, done : BOOLEAN, err : BOOLEAN]]
        /\ queue \in [Disks -> [Ops -> Seq(Blocks)]]
    BY DEF Init, Over
  <2> QED BY Zenon, <1>1, <2>1, PoolsAssumption DEF Init, TypeOK
<1>3. Busy = {} /\ BusyOf(w_busy) = {} /\ CachedOf(p_busy) = {} /\ Reading = {}
  BY DEF Init, Busy, BusyOf, CachedOf, Reading
<1>4. Places
  <2>1. Apart(w_free, {}, p_free, {}, user, {}, {})
    BY Zenon, <1>1 DEF Apart
  <2>2. BusyOnce(w_busy) /\ BidOnce(w_busy) /\ CachedOnce(p_busy)
    BY DEF Init, BusyOnce, BidOnce, CachedOnce
  <2>3. leaked = {} /\ free_blocks_size = Cardinality(p_free)
    BY Zenon, <1>1 DEF Init
  <2> QED BY Zenon, <1>3, <2>1, <2>2, <2>3 DEF Places
<1>5. Calls
  BY Zenon DEF Init, Calls
<1>6. \A x \in Blocks : ~Pending(x) /\ ~req[x].err
  BY Zenon DEF Init, Pending, Over
<1>7. Flights
  <2>1. \A d \in Disks, op \in Ops, x \in Blocks : ~Has(queue[d][op], x) /\ Distinct(queue[d][op])
    BY DEF Init, Has, Distinct
  <2>2. \A d \in Disks, op \in Ops : Distinct(queue[d][op])
    BY DEF Init, Distinct
  <2> QED BY Zenon, <1>6, <2>1, <2>2 DEF Init, Flights
<1>8. Held
  <2>1. w_busy = << >> /\ cpc # "read" /\ \A d \in Bids : p_busy[d] = NoBlock
    BY Zenon DEF Init
  <2> QED BY <1>6, <2>1 DEF Held
<1>9. Fresh
  <2>1. /\ w_busy = << >> /\ cpc # "read"
        /\ \A d \in Bids : p_busy[d] = NoBlock /\ stored[d] = latest[d]
    BY Zenon DEF Init
  <2> QED BY <1>6, <2>1 DEF Fresh, FreshWrites, FreshBusy, FreshCached, FreshRead, Quiet, Writing
<1> QED BY Zenon, <1>2, <1>4, <1>5, <1>7, <1>8, <1>9 DEF PoolInv

\* A step that changes nothing.
LEMMA PoolsStutter == ASSUME PoolInv, UNCHANGED vars PROVE PoolInv'
<1>1. /\ UNCHANGED <<w_free, w_busy, p_free, p_busy, free_blocks_size, user, leaked, req, queue>>
      /\ UNCHANGED <<serving, content, stored, latest, failed, cpc, cblk, cbid, cleft>>
  BY Zenon DEF vars, pools, io, data, client
<1>2. TypeOK' /\ Places' /\ Calls'
  BY Zenon, <1>1 DEF PoolInv, TypeOK, Places, Calls, Reading
<1>3. Flights' /\ Held'
  BY <1>1 DEF PoolInv, Flights, Held, Pending, Reading
<1>4. Live' <=> Live
  BY Zenon, <1>1 DEF Live, Closing
<1>5. ASSUME Fresh PROVE Fresh'
  <2>1. FreshWrites' /\ FreshBusy'
    BY <1>1, <1>5 DEF Fresh, FreshWrites, FreshBusy, LastWrite, Quiet, Writing, Pending, Current, Before
  <2>2. FreshCached' /\ FreshRead'
    BY Zenon, <1>1, <1>5 DEF Fresh, FreshCached, FreshRead, Promise, Delivered, Quiet, Writing, Pending
  <2> QED BY Zenon, <2>1, <2>2 DEF Fresh
<1> QED BY Zenon, <1>2, <1>3, <1>4, <1>5 DEF PoolInv

\* Every step keeps the invariant, and no step but those that delete blocks
\* makes the pools forget one.
LEMMA PoolsNext ==
    ASSUME SetSizes, PoolInv, Next
    PROVE  /\ PoolInv'
           /\ \/ cpc \in {"shrink", "close_w", "close_p"} \/ cpc' = "close_w"
              \/ \E n \in 0..Cardinality(Blocks) : ResizePrefetch(n)
              \/ Owned \subseteq Owned'
<1> DEFINE Kept == \/ cpc \in {"shrink", "close_w", "close_p"} \/ cpc' = "close_w"
                   \/ \E n \in 0..Cardinality(Blocks) : ResizePrefetch(n)
                   \/ Owned \subseteq Owned'
<1>1. ASSUME Continue PROVE PoolInv' /\ Kept
  <2>1. CASE StealFree
    BY Zenon, <2>1, StealFreeStep DEF StealFree
  <2>2. CASE StealCompleted
    BY Zenon, <2>2, StealCompletedStep DEF StealCompleted
  <2>3. CASE StealThrow
    BY Zenon, <2>3, StealThrowStep
  <2>4. CASE Invalidated
    BY Zenon, <2>4, InvalidatedStep
  <2>5. CASE InvalidateThrow
    BY Zenon, <2>5, InvalidateThrowStep
  <2>6. CASE ReadWait
    BY Zenon, <2>6, ReadWaitStep
  <2>7. CASE CloseWrite
    BY Zenon, <2>7, CloseWriteStep DEF CloseWrite
  <2>8. CASE ClosePrefetch
    BY Zenon, <2>8, ClosePrefetchStep DEF ClosePrefetch
  <2> QED BY Zenon, <1>1, <2>1, <2>2, <2>3, <2>4, <2>5, <2>6, <2>7, <2>8 DEF Continue
<1>2. ASSUME NEW d \in Disks, Disk(d) PROVE PoolInv' /\ Kept
  BY Zenon, <1>2, ServeStep, CompleteStep, FailStep DEF Disk
<1>3. ASSUME Steal \/ StealPrefetch \/ Close PROVE PoolInv' /\ Kept
  <2>1. CASE Steal
    BY Zenon, <2>1, StealStep
  <2>2. CASE StealPrefetch
    BY Zenon, <2>2, StealPrefetchStep
  <2>3. CASE Close
    BY Zenon, <2>3, CloseStep DEF Close
  <2> QED BY Zenon, <1>3, <2>1, <2>2, <2>3
<1>4. ASSUME NEW b \in Blocks, Add(b) \/ AddPrefetch(b) PROVE PoolInv' /\ Kept
  BY Zenon, <1>4, AddStep, AddPrefetchStep
<1>5. ASSUME NEW b \in Blocks, NEW bid \in Bids, Read(b, bid) PROVE PoolInv' /\ Kept
  BY Zenon, <1>5, ReadStep
<1>6. ASSUME NEW b \in Blocks, NEW bid \in Bids, NEW v \in Values, Write(b, bid, v)
      PROVE  PoolInv' /\ Kept
  BY Zenon, <1>6, WriteStep
<1>7. ASSUME NEW bid \in Bids, Hint(bid) \/ Invalidate(bid) PROVE PoolInv' /\ Kept
  BY Zenon, <1>7, HintStep, InvalidateStep
<1>8. ASSUME NEW n \in 0..Cardinality(Blocks), ResizeWrite(n) \/ ResizePrefetch(n)
      PROVE  PoolInv' /\ Kept
  <2>1. n \in Nat
    OBVIOUS
  <2>2. CASE ResizeWrite(n)
    BY Zenon, <2>1, <2>2, ResizeWriteStep
  <2>3. CASE ResizePrefetch(n)
    BY Zenon, <2>1, <2>3, ResizePrefetchStep
  <2> QED BY Zenon, <1>8, <2>2, <2>3
<1> HIDE DEF Kept
<1>9. PoolInv' /\ Kept
  BY Zenon, <1>1, <1>2, <1>3, <1>4, <1>5, <1>6, <1>7, <1>8 DEF Next
<1> QED BY Zenon, <1>9 DEF Kept

-----------------------------------------------------------------------------
(* The theorems. *)

Sets == INSTANCE FiniteSetTheorems

\* The facts about finite sets that the proofs use.
LEMMA SetSizesHold == SetSizes
<1>1. \A S : Sets!Cardinality(S) = Cardinality(S)
  BY Zenon DEF Sets!Cardinality, Cardinality
<1>2. \A S : Sets!IsFiniteSet(S) <=> IsFiniteSet(S)
  BY Zenon DEF Sets!IsFiniteSet, IsFiniteSet
<1>3. Cardinality({}) = 0
  BY Zenon, <1>1, Sets!FS_EmptySet
<1>4. \A S : IsFiniteSet(S) => Cardinality(S) \in Nat
  BY Zenon, <1>1, <1>2, Sets!FS_CardinalityType
<1>5. \A S, T : (IsFiniteSet(S) /\ T \subseteq S) => IsFiniteSet(T)
  BY Zenon, <1>2, Sets!FS_Subset
<1>6. \A n \in Nat : IsFiniteSet(1..n) /\ Cardinality(1..n) = n
  BY <1>1, <1>2, Sets!FS_Interval
<1>7. \A S, x : (IsFiniteSet(S) /\ x \notin S) => Cardinality(S \cup {x}) = Cardinality(S) + 1
  BY Zenon, <1>1, <1>2, Sets!FS_AddElement
<1>8. \A S, x : (IsFiniteSet(S) /\ x \in S) => Cardinality(S \ {x}) = Cardinality(S) - 1
  BY Zenon, <1>1, <1>2, Sets!FS_RemoveElement
<1>9. ASSUME NEW S, NEW T, IsFiniteSet(S), IsFiniteSet(T), S \cap T = {}
      PROVE  Cardinality(S \cup T) = Cardinality(S) + Cardinality(T)
  <2>1. Cardinality(S \cup T) = Cardinality(S) + Cardinality(T) - Cardinality(S \cap T)
    BY Zenon, <1>1, <1>2, <1>9, Sets!FS_Union
  <2>2. Cardinality(S \cap T) = 0
    BY Zenon, <1>3, <1>9
  <2>3. Cardinality(S) \in Nat /\ Cardinality(T) \in Nat
    BY Zenon, <1>4, <1>9
  <2> QED BY <2>1, <2>2, <2>3
<1>10. ASSUME NEW S, NEW T, NEW f, IsFiniteSet(S), OneToOne(f, S, T), Onto(f, S, T)
       PROVE  Cardinality(T) = Cardinality(S)
  <2>1. Sets!ExistsBijection(S, T)
    BY Zenon, <1>10 DEF OneToOne, Onto, Sets!ExistsBijection, Sets!Bijection, Sets!Injection,
                 Sets!IsInjective, Sets!Surjection
  <2> QED BY Zenon, <1>1, <1>2, <1>10, <2>1, Sets!FS_Bijection
<1>11. ASSUME NEW S, NEW T, NEW f, IsFiniteSet(S), IsFiniteSet(T),
              Cardinality(S) = Cardinality(T), OneToOne(f, S, T)
       PROVE  Onto(f, S, T)
  <2>1. f \in Sets!Injection(S, T)
    BY Zenon, <1>11 DEF OneToOne, Sets!Injection, Sets!IsInjective
  <2>2. f \in Sets!Surjection(S, T)
    BY Zenon, <1>1, <1>2, <1>11, <2>1, Sets!FS_Injection
  <2> QED BY Zenon, <2>2 DEF Onto, Sets!Surjection
<1> QED BY <1>3, <1>4, <1>5, <1>6, <1>7, <1>8, <1>9, <1>10, <1>11 DEF SetSizes

\* The pools keep their invariant, whatever the client calls and the disks do.
THEOREM PoolsKeepInvariant == Spec => []PoolInv
<1>1. PoolInv /\ [Next]_vars => PoolInv'
  BY Zenon, SetSizesHold, PoolsNext, PoolsStutter
<1> QED BY <1>1, PoolsInit, PTL DEF Spec

\* The lists, the requests and the call in progress keep their types.
THEOREM PoolsAreTyped == Spec => []TypeOK
<1>1. PoolInv => TypeOK
  BY Zenon DEF PoolInv
<1> QED BY <1>1, PoolsKeepInvariant, PTL

\* Every block has one owner: no two of the lists of write_pool and prefetch_pool, nor a
\* list and the client, share a block, and free_blocks_size counts free_blocks.
THEOREM BlocksHaveOneOwner == Spec => []OneOwner
<1>1. PoolInv => OneOwner
  BY Zenon, SetSizesHold, PlacesOneOwner DEF PoolInv
<1> QED BY <1>1, PoolsKeepInvariant, PTL

\* No block that the client or a free list holds is the buffer of a request in
\* flight, even where steal(), invalidate() or a destructor throws.
THEOREM FreeBlocksAreQuiet == Spec => []NoTransferIntoFree
<1>1. PoolInv => NoTransferIntoFree
  BY Zenon, FreeIsDone DEF PoolInv
<1> QED BY <1>1, PoolsKeepInvariant, PTL

\* A read() whose wait() returns delivers what was written last: from the hint, from
\* the write in flight, or from the disk behind all the writes to that place.
THEOREM ReadsDeliverLatest == Spec => []ReadsLatest
<1>1. ASSUME PoolInv PROVE ReadsLatest
  <2> SUFFICES ASSUME cpc = "read", req[cblk].done, ~req[cblk].err, cbid \notin failed
               PROVE  content[cblk] = latest[cbid]
    BY Zenon DEF ReadsLatest
  <2>1. Delivered(cblk, cbid)
    BY Zenon, <1>1 DEF PoolInv, Live, Closing, Fresh, FreshRead
  <2> QED BY Zenon, <2>1 DEF Delivered
<1> QED BY <1>1, PoolsKeepInvariant, PTL

\* When both destructors have returned, no write has failed and no block is lost, the
\* disks hold what was written last.
THEOREM ClosedPoolsAreDurable == Spec => []ClosedIsDurable
<1>1. ASSUME PoolInv PROVE ClosedIsDurable
  <2> SUFFICES ASSUME cpc = "closed", failed = {}, leaked = {} PROVE stored = latest
    BY Zenon DEF ClosedIsDurable
  <2>1. TypeOK /\ Calls /\ Held /\ Fresh
    BY Zenon, <1>1 DEF PoolInv, Live
  <2>2. BusyOf(w_busy) = {} /\ CachedOf(p_busy) = {} /\ Reading = {}
    BY <2>1 DEF Calls, BusyOf, Reading
  <2>3. \A x \in Blocks : ~Pending(x)
    BY Zenon, <2>1, <2>2 DEF Held
  <2>4. \A d \in Bids : stored[d] = latest[d]
    BY Zenon, <2>1, <2>3 DEF Fresh, FreshWrites, LastWrite, Writing
  <2> QED BY <2>1, <2>4 DEF TypeOK
<1> QED BY <1>1, PoolsKeepInvariant, PTL

\* No exchange of hint(), read() and write() and no exception of steal() loses a
\* block: only the destructors and the two resize() delete some.
THEOREM NoBlockIsLost == Spec => NothingLost
<1>1. ASSUME PoolInv, [Next]_vars
      PROVE  [\/ cpc \in {"shrink", "close_w", "close_p"} \/ cpc' = "close_w"
              \/ \E n \in 0..Cardinality(Blocks) : ResizePrefetch(n)
              \/ Unused' \subseteq Unused]_vars
  <2>1. CASE UNCHANGED vars
    BY Zenon, <2>1
  <2>2. CASE Next
    <3>1. Unused = Blocks \ Owned
      BY Zenon, UnusedOwned
    <3>2. Unused' = Blocks \ Owned'
      BY Zenon DEF Unused, Owned, Busy, Cached, BusyOf, CachedOf
    <3>3. Owned \subseteq Owned' => Unused' \subseteq Unused
      BY Zenon, <3>1, <3>2
    <3> QED BY Zenon, <1>1, <2>2, <3>3, SetSizesHold, PoolsNext
  <2> QED BY Zenon, <1>1, <2>1, <2>2
<1> QED BY <1>1, PoolsKeepInvariant, PTL DEF Spec, NothingLost

=============================================================================
