--------------------------- MODULE PoolsInvariant ----------------------------
(***************************************************************************)
(* The inductive invariant of the pools of module Pools, and what the      *)
(* lists, the requests and the contents of blocks keep of it, for any      *)
(* number of blocks, places, disks and values, any sizes of the pools, and *)
(* with or without failures and resizing.                                  *)
(***************************************************************************)
EXTENDS Pools, TLAPS

-----------------------------------------------------------------------------
(* The inductive invariant. *)

\* Seven sets of blocks that have no block in common.
Apart(wf, wb, pf, pb, us, lk, rd) ==
    /\ wf \cap (wb \cup pf \cup pb \cup us \cup lk \cup rd) = {}
    /\ wb \cap (pf \cup pb \cup us \cup lk \cup rd) = {}
    /\ pf \cap (pb \cup us \cup lk \cup rd) = {}
    /\ pb \cap (us \cup lk \cup rd) = {}
    /\ us \cap (lk \cup rd) = {}
    /\ lk \cap rd = {}

Entries == [block : Blocks, bid : Bids \cup {NoBid}]
BusyOf(wb) == {wb[i].block : i \in DOMAIN wb}
CachedOf(pb) == {pb[d] : d \in Bids} \ {NoBlock}

\* No list of busy blocks and no hash map names a block twice, and at most
\* one entry of the list is for a bid.
BusyOnce(wb) == \A i, j \in DOMAIN wb : wb[i].block = wb[j].block => i = j
BidOnce(wb) == \A i, j \in DOMAIN wb : (wb[i].bid = wb[j].bid /\ wb[i].bid # NoBid) => i = j
CachedOnce(pb) == \A c, d \in Bids : (pb[c] = pb[d] /\ pb[c] # NoBlock) => c = d

Places ==
    /\ Apart(w_free, BusyOf(w_busy), p_free, CachedOf(p_busy), user, leaked, Reading)
    /\ BusyOnce(w_busy) /\ BidOnce(w_busy)
    /\ CachedOnce(p_busy)
    /\ free_blocks_size = Cardinality(p_free)

Closing == cpc \in {"close_w", "close_p", "closed"}

\* What the client's program counter says about the other variables.
Calls ==
    /\ cpc = "read" <=> cblk # NoBlock
    /\ cpc \in {"read", "write", "invalidate"} => cbid \in Bids
    /\ cpc \in {"write", "invalidate"} => p_busy[cbid] # NoBlock
    /\ cpc = "shrink" => cleft > 0
    /\ cpc \in {"close_p", "closed"} => w_busy = <<>>
    /\ cpc = "closed" => CachedOf(p_busy) = {}

\* The request of b is in flight.
Pending(b) == ~req[b].done

\* A queue that holds no block twice, and the order of two of its blocks.
Distinct(q) == \A i, j \in DOMAIN q : q[i] = q[j] => i = j
Has(q, b) == \E i \in DOMAIN q : q[i] = b
Precedes(q, b, c) == \E i, j \in DOMAIN q : i < j /\ q[i] = b /\ q[j] = c

\* The requests in flight are those in the queues and with the disks.
Flights ==
    /\ \A b \in Blocks : Pending(b) =>
         /\ req[b].op \in Ops /\ req[b].bid \in Bids /\ ~req[b].err
         /\ \/ serving[DiskOf[req[b].bid]] = b
            \/ Has(queue[DiskOf[req[b].bid]][req[b].op], b)
    /\ \A d \in Disks, op \in Ops, b \in Blocks : Has(queue[d][op], b) =>
         Pending(b) /\ req[b].op = op /\ DiskOf[req[b].bid] = d /\ serving[d] # b
    /\ \A d \in Disks : serving[d] # NoBlock =>
         Pending(serving[d]) /\ DiskOf[req[serving[d]].bid] = d
    /\ \A d \in Disks, op \in Ops : Distinct(queue[d][op])

\* A block in flight is in the busy list, in the hash map, waited for by a
\* read, or lost; and the pools know where it goes.
Held ==
    /\ \A b \in Blocks :
         Pending(b) => b \in BusyOf(w_busy) \cup CachedOf(p_busy) \cup Reading \cup leaked
    /\ \A i \in DOMAIN w_busy : Pending(w_busy[i].block) =>
         /\ req[w_busy[i].block].op = "write"
         /\ w_busy[i].bid # NoBid => req[w_busy[i].block].bid = w_busy[i].bid
    /\ \A d \in Bids : (p_busy[d] # NoBlock /\ Pending(p_busy[d])) => req[p_busy[d]].bid = d
    /\ (cpc = "read" /\ Pending(cblk)) => req[cblk].bid = cbid

Writing(b, bid) == Pending(b) /\ req[b].op = "write" /\ req[b].bid = bid

\* No write to bid is in flight.
Quiet(bid) == \A b \in Blocks : ~Writing(b, bid)

\* b is a block from which a read of bid would be served.
Current(b, bid) ==
    \/ \E i \in DOMAIN w_busy : w_busy[i].block = b /\ w_busy[i].bid = bid
    \/ p_busy[bid] = b /\ ~(cpc = "write" /\ cbid = bid)
    \/ cpc = "read" /\ cblk = b /\ cbid = bid

\* The write of b is carried out before the write of c, both on disk d.
Before(b, c, d) ==
    \/ serving[d] = b /\ Has(queue[d]["write"], c)
    \/ Precedes(queue[d]["write"], b, c)

\* The last write to bid is the one of c: it carries the newest value, the
\* pools still know it, and all the others come before it.
LastWrite(c, bid) ==
    /\ Writing(c, bid) /\ Current(c, bid) /\ content[c] = latest[bid]
    /\ \A b \in Blocks : (b # c /\ Writing(b, bid)) => Before(b, c, DiskOf[bid])

\* What a hinted or awaited block b of bid will hold, and what it holds.
Promise(b, bid) ==
    /\ (Pending(b) /\ req[b].op = "write") => content[b] = latest[bid]
    /\ (Pending(b) /\ req[b].op = "read") => Quiet(bid)

Delivered(b, bid) ==
    (req[b].done /\ ~req[b].err) => (content[b] = latest[bid] \/ (bid \in failed /\ Quiet(bid)))

\* The newest value of every place is where the pools would look for it.
FreshWrites ==
    \A bid \in Bids : \/ \E c \in Blocks : LastWrite(c, bid)
                      \/ Quiet(bid) /\ (stored[bid] = latest[bid] \/ bid \in failed)
FreshBusy ==
    \A i \in DOMAIN w_busy :
        w_busy[i].bid # NoBid => content[w_busy[i].block] = latest[w_busy[i].bid]
FreshCached ==
    \A bid \in Bids : p_busy[bid] # NoBlock =>
        /\ ~(cpc = "write" /\ cbid = bid) => Promise(p_busy[bid], bid)
        /\ ~(cpc \in {"write", "invalidate"} /\ cbid = bid) => Delivered(p_busy[bid], bid)
FreshRead == cpc = "read" => Promise(cblk, cbid) /\ Delivered(cblk, cbid)
Fresh == FreshWrites /\ FreshBusy /\ FreshCached /\ FreshRead

\* A destructor that gives up leaves requests behind that nobody waits for.
Live == Closing => leaked = {}

PoolInv ==
    /\ TypeOK /\ Places /\ Calls /\ Flights /\ Held
    /\ Live => Fresh

-----------------------------------------------------------------------------
(* Sequences. *)

\* t is s with only the elements at the positions K, in their order.
Keeps(t, s, K) ==
    /\ \A k \in DOMAIN t : \E m \in K : t[k] = s[m]
    /\ \A k, l \in DOMAIN t : k < l => \E m, n \in K : m < n /\ t[k] = s[m] /\ t[l] = s[n]
    /\ \A m \in K : \E k \in DOMAIN t : t[k] = s[m]
    /\ \A m, n \in K : m < n => \E k, l \in DOMAIN t : k < l /\ t[k] = s[m] /\ t[l] = s[n]

\* Erase(s, i) is s without its element at i.
LEMMA EraseElements ==
    ASSUME NEW S, NEW s \in Seq(S), NEW i \in 1..Len(s)
    PROVE  /\ Erase(s, i) \in Seq(S)
           /\ Len(Erase(s, i)) = Len(s) - 1
           /\ \A k \in 1..(Len(s) - 1) : Erase(s, i)[k] = IF k < i THEN s[k] ELSE s[k + 1]
<1>1. Len(s) \in Nat /\ Len(s) - 1 \in Nat
  OBVIOUS
<1>2. \A k \in 1..(Len(s) - 1) : (IF k < i THEN s[k] ELSE s[k + 1]) \in S
  OBVIOUS
<1>3. Erase(s, i) \in [1..(Len(s) - 1) -> S]
  BY Zenon, <1>2 DEF Erase
<1>4. Erase(s, i) \in Seq(S) /\ Len(Erase(s, i)) = Len(s) - 1
  BY <1>1, <1>3
<1> QED BY Zenon, <1>4 DEF Erase

\* A sequence with one element less keeps the others (erase).
LEMMA OneLessKeeps ==
    ASSUME NEW S, NEW s \in Seq(S), NEW i \in 1..Len(s), NEW t \in Seq(S), Len(t) = Len(s) - 1,
           \A k \in 1..(Len(s) - 1) : t[k] = IF k < i THEN s[k] ELSE s[k + 1]
    PROVE  Keeps(t, s, (DOMAIN s) \ {i})
<1>0. /\ i \in Nat /\ Len(s) \in Nat /\ 1 <= i /\ i <= Len(s)
      /\ DOMAIN s = 1..Len(s) /\ DOMAIN t = 1..(Len(s) - 1)
  OBVIOUS
<1> DEFINE up(k) == IF k < i THEN k ELSE k + 1
           down(m) == IF m < i THEN m ELSE m - 1
<1>1. \A k \in 1..(Len(s) - 1) : up(k) \in (1..Len(s)) \ {i} /\ t[k] = s[up(k)]
  BY <1>0
<1>2. \A k, l \in 1..(Len(s) - 1) : k < l => up(k) < up(l)
  BY <1>0
<1>3. \A m \in (1..Len(s)) \ {i} : down(m) \in 1..(Len(s) - 1) /\ t[down(m)] = s[m]
  <2> SUFFICES ASSUME NEW m \in (1..Len(s)) \ {i}
               PROVE  down(m) \in 1..(Len(s) - 1) /\ t[down(m)] = s[m]
    BY Zenon
  <2>1. m \in Nat /\ down(m) \in 1..(Len(s) - 1) /\ up(down(m)) = m
    BY <1>0
  <2> HIDE DEF up, down
  <2> QED BY Zenon, <1>1, <2>1
<1>4. \A m, n \in (1..Len(s)) \ {i} : m < n => down(m) < down(n)
  BY <1>0
<1> HIDE DEF up, down
<1> DEFINE K == (DOMAIN s) \ {i}
<1>5. \A k \in DOMAIN t : \E m \in K : t[k] = s[m]
  BY Zenon, <1>0, <1>1
<1>6. \A k, l \in DOMAIN t : k < l => \E m, n \in K : m < n /\ t[k] = s[m] /\ t[l] = s[n]
  <2> SUFFICES ASSUME NEW k \in DOMAIN t, NEW l \in DOMAIN t, k < l
               PROVE  \E m, n \in K : m < n /\ t[k] = s[m] /\ t[l] = s[n]
    BY Zenon
  <2>1. up(k) \in K /\ up(l) \in K /\ up(k) < up(l) /\ t[k] = s[up(k)] /\ t[l] = s[up(l)]
    BY Zenon, <1>0, <1>1, <1>2
  <2> QED BY Zenon, <2>1
<1>7. \A m \in K : \E k \in DOMAIN t : t[k] = s[m]
  BY Zenon, <1>0, <1>3
<1>8. \A m, n \in K : m < n => \E k, l \in DOMAIN t : k < l /\ t[k] = s[m] /\ t[l] = s[n]
  <2> SUFFICES ASSUME NEW m \in K, NEW n \in K, m < n
               PROVE  \E k, l \in DOMAIN t : k < l /\ t[k] = s[m] /\ t[l] = s[n]
    BY Zenon
  <2>1. /\ down(m) \in DOMAIN t /\ down(n) \in DOMAIN t /\ down(m) < down(n)
        /\ t[down(m)] = s[m] /\ t[down(n)] = s[n]
    BY Zenon, <1>0, <1>3, <1>4
  <2> QED BY Zenon, <2>1
<1> QED BY Zenon, <1>5, <1>6, <1>7, <1>8 DEF Keeps

\* A list without its i-th entry keeps the others (erase in the busy list).
LEMMA EraseKeeps ==
    ASSUME NEW S, NEW s \in Seq(S), NEW i \in DOMAIN s
    PROVE  Erase(s, i) \in Seq(S) /\ Keeps(Erase(s, i), s, (DOMAIN s) \ {i})
<1>1. i \in 1..Len(s)
  OBVIOUS
<1> QED BY Zenon, <1>1, EraseElements, OneLessKeeps

\* A list without its head keeps the others (pop_front of a queue of a disk).
LEMMA TailKeeps ==
    ASSUME NEW S, NEW s \in Seq(S), s # << >>
    PROVE  Tail(s) \in Seq(S) /\ Keeps(Tail(s), s, (DOMAIN s) \ {1})
<1>1. /\ Tail(s) \in Seq(S) /\ Len(Tail(s)) = Len(s) - 1
      /\ \A k \in 1..(Len(s) - 1) : Tail(s)[k] = s[k + 1]
      /\ Len(s) \in Nat /\ 1 \in 1..Len(s)
  OBVIOUS
<1>2. \A k \in 1..(Len(s) - 1) : Tail(s)[k] = IF k < 1 THEN s[k] ELSE s[k + 1]
  BY <1>1
<1> QED BY Zenon, <1>1, <1>2, OneLessKeeps

\* What a queue keeps of the blocks and their order.
LEMMA KeepsQueue ==
    ASSUME NEW S, NEW s \in Seq(S), NEW t \in Seq(S), NEW K \in SUBSET DOMAIN s,
           Keeps(t, s, K), Distinct(s)
    PROVE  /\ Distinct(t)
           /\ \A b : Has(t, b) <=> \E m \in K : s[m] = b
           /\ \A b, c : ((\E m \in K : s[m] = b) /\ (\E m \in K : s[m] = c) /\ Precedes(s, b, c))
                            => Precedes(t, b, c)
<1>0. DOMAIN s = 1..Len(s) /\ DOMAIN t = 1..Len(t) /\ Len(s) \in Nat /\ Len(t) \in Nat
  OBVIOUS
<1>1. Distinct(t)
  <2> SUFFICES ASSUME NEW k \in DOMAIN t, NEW l \in DOMAIN t, k < l PROVE t[k] # t[l]
    BY <1>0 DEF Distinct
  <2>1. PICK m \in K, n \in K : m < n /\ t[k] = s[m] /\ t[l] = s[n]
    BY Zenon DEF Keeps
  <2> QED BY <1>0, <2>1 DEF Distinct
<1>2. \A b : Has(t, b) <=> \E m \in K : s[m] = b
  BY DEF Keeps, Has
<1>3. ASSUME NEW b, NEW c, NEW m \in K, s[m] = b, NEW n \in K, s[n] = c, Precedes(s, b, c)
      PROVE  Precedes(t, b, c)
  <2>1. m < n
    BY Zenon, <1>3 DEF Precedes, Distinct
  <2>2. PICK k \in DOMAIN t, l \in DOMAIN t : k < l /\ t[k] = s[m] /\ t[l] = s[n]
    BY Zenon, <2>1 DEF Keeps
  <2> QED BY Zenon, <1>3, <2>2 DEF Precedes
<1> QED BY Zenon, <1>1, <1>2, <1>3

\* What the busy list keeps of its entries.
LEMMA KeepsBusy ==
    ASSUME NEW s \in Seq(Entries), NEW t \in Seq(Entries), NEW K \in SUBSET DOMAIN s,
           Keeps(t, s, K), BusyOnce(s), BidOnce(s)
    PROVE  /\ BusyOnce(t) /\ BidOnce(t)
           /\ BusyOf(t) = {s[m].block : m \in K}
<1>0. DOMAIN s = 1..Len(s) /\ DOMAIN t = 1..Len(t) /\ Len(s) \in Nat /\ Len(t) \in Nat
  OBVIOUS
<1>1. ASSUME NEW k \in DOMAIN t, NEW l \in DOMAIN t, k < l
      PROVE  /\ t[k].block # t[l].block
             /\ ~(t[k].bid = t[l].bid /\ t[k].bid # NoBid)
  <2>1. PICK m \in K, n \in K : m < n /\ t[k] = s[m] /\ t[l] = s[n]
    BY Zenon, <1>1 DEF Keeps
  <2>2. m \in DOMAIN s /\ n \in DOMAIN s /\ m # n
    BY <1>0, <2>1
  <2> QED BY Zenon, <2>1, <2>2 DEF BusyOnce, BidOnce
<1>2. BusyOnce(t)
  BY <1>0, <1>1 DEF BusyOnce
<1>3. BidOnce(t)
  BY <1>0, <1>1 DEF BidOnce
<1>4. BusyOf(t) = {s[m].block : m \in K}
  BY DEF BusyOf, Keeps
<1> QED BY Zenon, <1>2, <1>3, <1>4

\* push_back puts a request behind the others.
LEMMA PushBack ==
    ASSUME NEW S, NEW q \in Seq(S), NEW b \in S, Distinct(q), ~Has(q, b)
    PROVE  /\ push_back(q, b) \in Seq(S) /\ Distinct(push_back(q, b))
           /\ \A c : Has(push_back(q, b), c) <=> (Has(q, c) \/ c = b)
           /\ \A c : Has(q, c) => Precedes(push_back(q, b), c, b)
           /\ \A c, e : Precedes(q, c, e) => Precedes(push_back(q, b), c, e)
<1>0. DOMAIN q = 1..Len(q) /\ Len(q) \in Nat
  OBVIOUS
<1>1. /\ push_back(q, b) \in Seq(S) /\ DOMAIN push_back(q, b) = 1..(Len(q) + 1)
      /\ \A k \in 1..Len(q) : push_back(q, b)[k] = q[k]
      /\ push_back(q, b)[Len(q) + 1] = b
  <2>1. /\ Append(q, b) \in Seq(S) /\ Len(Append(q, b)) = Len(q) + 1
        /\ \A k \in 1..Len(q) : Append(q, b)[k] = q[k]
        /\ Append(q, b)[Len(q) + 1] = b
    OBVIOUS
  <2>2. DOMAIN Append(q, b) = 1..(Len(q) + 1)
    BY <2>1
  <2> QED BY Zenon, <2>1, <2>2 DEF push_back
<1>2. \A k \in 1..(Len(q) + 1) : k \in 1..Len(q) \/ k = Len(q) + 1
  BY <1>0
<1>3. 1..Len(q) \subseteq 1..(Len(q) + 1) /\ Len(q) + 1 \in 1..(Len(q) + 1) /\ \A k \in 1..Len(q) : k < Len(q) + 1
  BY <1>0
<1> DEFINE r == push_back(q, b)
           n == Len(q) + 1
<1>4. \A c : Has(r, c) <=> (Has(q, c) \/ c = b)
  BY Zenon, <1>0, <1>1, <1>2, <1>3 DEF Has
<1>5. Distinct(r)
  <2> SUFFICES ASSUME NEW i \in 1..n, NEW j \in 1..n, r[i] = r[j] PROVE i = j
    BY Zenon, <1>1 DEF Distinct
  <2>1. CASE i \in 1..Len(q) /\ j \in 1..Len(q)
    BY Zenon, <1>0, <1>1, <2>1 DEF Distinct
  <2>2. CASE i \in 1..Len(q) /\ j = n
    BY Zenon, <1>0, <1>1, <2>2 DEF Has
  <2>3. CASE i = n /\ j \in 1..Len(q)
    BY Zenon, <1>0, <1>1, <2>3 DEF Has
  <2> QED BY Zenon, <1>2, <2>1, <2>2, <2>3
<1>6. \A c : Has(q, c) => Precedes(r, c, b)
  BY Zenon, <1>0, <1>1, <1>3 DEF Has, Precedes
<1>7. \A c, e : Precedes(q, c, e) => Precedes(r, c, e)
  BY Zenon, <1>0, <1>1, <1>3 DEF Precedes
<1> QED BY Zenon, <1>1, <1>4, <1>5, <1>6, <1>7

\* cancel_request erases one request at most, and keeps the others in order.
LEMMA CancelQueue ==
    ASSUME NEW S, NEW q \in Seq(S), NEW C, Distinct(q),
           \A b, c \in C : (Has(q, b) /\ Has(q, c)) => b = c
    PROVE  /\ cancel_request(q, C) \in Seq(S) /\ Distinct(cancel_request(q, C))
           /\ \A b : Has(cancel_request(q, C), b) <=> (Has(q, b) /\ b \notin C)
           /\ \A b, c : (b \notin C /\ c \notin C /\ Precedes(q, b, c)) => Precedes(cancel_request(q, C), b, c)
<1>1. CASE \E i \in DOMAIN q : q[i] \in C
  <2> DEFINE i == CHOOSE i \in DOMAIN q : q[i] \in C
             K == (DOMAIN q) \ {i}
  <2>1. i \in DOMAIN q /\ q[i] \in C
    BY Zenon, <1>1
  <2>2. cancel_request(q, C) = Erase(q, i)
    BY Zenon, <1>1 DEF cancel_request
  <2> HIDE DEF i
  <2>3. Erase(q, i) \in Seq(S) /\ Keeps(Erase(q, i), q, K)
    BY Zenon, <2>1, EraseKeeps
  <2>4. \A b : (\E m \in K : q[m] = b) <=> (Has(q, b) /\ b \notin C)
    BY Zenon, <2>1 DEF Has, Distinct
  <2>5. K \in SUBSET DOMAIN q
    BY Zenon
  <2> HIDE DEF K
  <2>6. /\ Distinct(Erase(q, i))
        /\ \A b : Has(Erase(q, i), b) <=> \E m \in K : q[m] = b
        /\ \A b, c : ((\E m \in K : q[m] = b) /\ (\E m \in K : q[m] = c) /\ Precedes(q, b, c))
                        => Precedes(Erase(q, i), b, c)
    BY Zenon, <2>3, <2>5, KeepsQueue
  <2>7. \A b, c : Precedes(q, b, c) => Has(q, b) /\ Has(q, c)
    BY Zenon DEF Precedes, Has
  <2> QED BY <2>2, <2>3, <2>4, <2>6, <2>7
<1>2. CASE ~\E i \in DOMAIN q : q[i] \in C
  <2>1. cancel_request(q, C) = q
    BY Zenon, <1>2 DEF cancel_request
  <2> QED BY Zenon, <1>2, <2>1 DEF Has
<1> QED BY Zenon, <1>1, <1>2

-----------------------------------------------------------------------------
(* The blocks and their places. *)

\* The block of an entry that leaves the busy list is in it no more.
LEMMA EntryLeaves ==
    ASSUME NEW s \in Seq(Entries), BusyOnce(s), BidOnce(s), NEW i \in DOMAIN s
    PROVE  /\ Erase(s, i) \in Seq(Entries)
           /\ BusyOnce(Erase(s, i)) /\ BidOnce(Erase(s, i))
           /\ BusyOf(Erase(s, i)) = BusyOf(s) \ {s[i].block}
           /\ \A k \in DOMAIN Erase(s, i) : \E m \in (DOMAIN s) \ {i} : Erase(s, i)[k] = s[m]
           /\ \A m \in (DOMAIN s) \ {i} : \E k \in DOMAIN Erase(s, i) : Erase(s, i)[k] = s[m]
<1> DEFINE t == Erase(s, i)
           K == (DOMAIN s) \ {i}
<1>1. t \in Seq(Entries) /\ Keeps(t, s, K)
  BY Zenon, EraseKeeps
<1>2. {s[m].block : m \in K} = BusyOf(s) \ {s[i].block}
  BY Zenon DEF BusyOnce, BusyOf
<1> HIDE DEF t, K
<1>3. K \in SUBSET DOMAIN s
  BY Zenon DEF K
<1>4. BusyOnce(t) /\ BidOnce(t) /\ BusyOf(t) = {s[m].block : m \in K}
  BY Zenon, <1>1, <1>3, KeepsBusy
<1>5. /\ \A k \in DOMAIN t : \E m \in K : t[k] = s[m]
      /\ \A m \in K : \E k \in DOMAIN t : t[k] = s[m]
  BY Zenon, <1>1 DEF Keeps
<1> QED BY Zenon, <1>1, <1>2, <1>4, <1>5 DEF t, K

\* A place of the hash map gets a block, or loses it.
LEMMA CachedLeaves ==
    ASSUME NEW pb \in [Bids -> Blocks \cup {NoBlock}], CachedOnce(pb), NEW d \in Bids
    PROVE  /\ [pb EXCEPT ![d] = NoBlock] \in [Bids -> Blocks \cup {NoBlock}]
           /\ CachedOnce([pb EXCEPT ![d] = NoBlock])
           /\ CachedOf([pb EXCEPT ![d] = NoBlock]) = CachedOf(pb) \ {pb[d]}
<1> DEFINE p == [pb EXCEPT ![d] = NoBlock]
<1>1. p \in [Bids -> Blocks \cup {NoBlock}] /\ p[d] = NoBlock /\ \A c \in Bids \ {d} : p[c] = pb[c]
  BY Zenon
<1> HIDE DEF p
<1>2. CachedOnce(p)
  BY Zenon, <1>1 DEF CachedOnce
<1>3. CachedOf(p) = CachedOf(pb) \ {pb[d]}
  BY <1>1 DEF CachedOnce, CachedOf
<1> QED BY Zenon, <1>1, <1>2, <1>3 DEF p

\* A hint adds one block to the cached ones.
LEMMA CachedArrives ==
    ASSUME NEW pb \in [Bids -> Blocks \cup {NoBlock}], CachedOnce(pb), NEW d \in Bids,
           NEW b \in Blocks, pb[d] = NoBlock, b \notin CachedOf(pb), NoBlock \notin Blocks,
           NEW p \in [Bids -> Blocks \cup {NoBlock}],
           p[d] = b, \A c \in Bids \ {d} : p[c] = pb[c]
    PROVE  CachedOnce(p) /\ CachedOf(p) = CachedOf(pb) \cup {b}
<1>1. CachedOnce(p)
  BY DEF CachedOnce, CachedOf
<1>2. CachedOf(p) = CachedOf(pb) \cup {b}
  BY DEF CachedOf
<1> QED BY Zenon, <1>1, <1>2

\* The lists of the pools are lists of blocks.
LEMMA BlocksOfPools ==
    ASSUME TypeOK
    PROVE  /\ \A i \in DOMAIN w_busy : w_busy[i].block \in Blocks /\ w_busy[i].bid \in Bids \cup {NoBid}
           /\ BusyOf(w_busy) \subseteq Blocks /\ CachedOf(p_busy) \subseteq Blocks
           /\ Reading \subseteq Blocks
<1>1. \A i \in DOMAIN w_busy : w_busy[i] \in Entries
  <2>1. w_busy \in Seq(Entries)
    BY Zenon DEF TypeOK, Entries
  <2>2. DOMAIN w_busy = 1..Len(w_busy)
    BY <2>1
  <2> QED BY <2>1, <2>2
<1>2. \A i \in DOMAIN w_busy : w_busy[i].block \in Blocks /\ w_busy[i].bid \in Bids \cup {NoBid}
  BY Zenon, <1>1 DEF Entries
<1>3. BusyOf(w_busy) \subseteq Blocks
  BY Zenon, <1>2 DEF BusyOf
<1>4. CachedOf(p_busy) \subseteq Blocks
  BY DEF TypeOK, CachedOf
<1>5. Reading \subseteq Blocks
  BY Zenon DEF TypeOK, Reading
<1> QED BY Zenon, <1>2, <1>3, <1>4, <1>5

-----------------------------------------------------------------------------
(* The requests. *)

\* No block of a free list, of the client or of nobody is in flight.
LEMMA FreeIsDone ==
    ASSUME TypeOK, Places, Held
    PROVE  /\ NoTransferIntoFree
           /\ \A b \in w_free \cup p_free \cup user : ~Pending(b)
<1>1. Busy = BusyOf(w_busy) /\ Cached = CachedOf(p_busy)
  BY Zenon DEF Busy, Cached, BusyOf, CachedOf
<1>2. /\ w_free \subseteq Blocks /\ p_free \subseteq Blocks /\ user \subseteq Blocks
      /\ Unused \subseteq Blocks
  BY Zenon DEF TypeOK, Unused
<1>3. \A b \in Blocks : Pending(b) => b \in Busy \cup Cached \cup Reading \cup leaked
  BY Zenon, <1>1 DEF Held
<1>4. Apart(w_free, Busy, p_free, Cached, user, leaked, Reading)
  BY Zenon, <1>1 DEF Places
<1>5. \A b \in w_free \cup p_free \cup user \cup Unused : ~Pending(b)
  BY Zenon, <1>2, <1>3, <1>4 DEF Apart, Unused
<1> QED BY Zenon, <1>5 DEF NoTransferIntoFree, Pending

\* A step erases the requests of C from a queue, and appends b to its own.
QueueMoves(C, b, op, bid, d, o) ==
    /\ queue'[d][o] \in Seq(Blocks) /\ Distinct(queue'[d][o])
    /\ \A x : Has(queue'[d][o], x) <=>
                \/ Has(queue[d][o], x) /\ x \notin C
                \/ x = b /\ b \in Blocks /\ d = DiskOf[bid] /\ o = op
    /\ \A x, y : (x \notin C /\ y \notin C /\ Precedes(queue[d][o], x, y))
                    => Precedes(queue'[d][o], x, y)
    /\ (b \in Blocks /\ d = DiskOf[bid] /\ o = op) =>
           \A x : (Has(queue[d][o], x) /\ x \notin C) => Precedes(queue'[d][o], x, b)

\* What cancel() and read() or write() do to the queue of one disk.
LEMMA QueueStep ==
    ASSUME TypeOK, Flights, NEW C \in SUBSET Blocks, NEW b \in Blocks \cup {NoBlock},
           NEW op \in Ops, NEW bid \in Bids,
           b \in Blocks => ~Pending(b),
           \A d \in Disks, o \in Ops : \A x, y \in C :
               (Has(queue[d][o], x) /\ Has(queue[d][o], y)) => x = y,
           CancelAndSubmit(C, b, op, bid),
           NEW d \in Disks, NEW o \in Ops
    PROVE  QueueMoves(C, b, op, bid, d, o)
<1> DEFINE q == queue[d][o]
           e == cancel_request(q, C)
<1>1. q \in Seq(Blocks) /\ Distinct(q) /\ \A x, y \in C : (Has(q, x) /\ Has(q, y)) => x = y
  BY DEF TypeOK, Flights
<1>2. b \in Blocks => ~Has(q, b)
  BY Zenon DEF Flights
<1>3. queue'[d][o] = IF b \in Blocks /\ d = DiskOf[bid] /\ o = op THEN push_back(e, b) ELSE e
  BY Zenon DEF CancelAndSubmit
<1> HIDE DEF q
<1>4. /\ e \in Seq(Blocks) /\ Distinct(e)
      /\ \A x : Has(e, x) <=> (Has(q, x) /\ x \notin C)
      /\ \A x, y : (x \notin C /\ y \notin C /\ Precedes(q, x, y)) => Precedes(e, x, y)
  BY Zenon, <1>1, CancelQueue
<1> HIDE DEF e
<1>5. CASE b \in Blocks /\ d = DiskOf[bid] /\ o = op
  <2>1. ~Has(e, b)
    BY Zenon, <1>2, <1>4, <1>5
  <2>2. /\ push_back(e, b) \in Seq(Blocks) /\ Distinct(push_back(e, b))
        /\ \A c : Has(push_back(e, b), c) <=> (Has(e, c) \/ c = b)
        /\ \A c : Has(e, c) => Precedes(push_back(e, b), c, b)
        /\ \A x, y : Precedes(e, x, y) => Precedes(push_back(e, b), x, y)
    BY Zenon, <1>4, <1>5, <2>1, PushBack
  <2> QED BY <1>3, <1>4, <1>5, <2>2 DEF q, QueueMoves
<1>6. CASE ~(b \in Blocks /\ d = DiskOf[bid] /\ o = op)
  BY Zenon, <1>3, <1>4, <1>6 DEF q, QueueMoves
<1> QED BY Zenon, <1>5, <1>6

\* What CancelAndSubmit(C, b, op, bid) leaves of the requests: those of C may be
\* over, that of b is the last in flight, and the order of the others stays.
Cancels(C, b, op, bid) ==
    /\ req' \in [Blocks -> [op : Ops \cup {"none"}, bid : Bids \cup {NoBid},
                            done : BOOLEAN, err : BOOLEAN]]
    /\ queue' \in [Disks -> [Ops -> Seq(Blocks)]]
    /\ Flights'
    /\ \A x \in Blocks \ {b} : req'[x] = req[x] \/ (x \in C /\ req'[x] = Over(FALSE))
    /\ b \in Blocks => req'[b] = [op |-> op, bid |-> bid, done |-> FALSE, err |-> FALSE]
    /\ \A x, y \in Blocks, d \in Disks :
         (Before(x, y, d) /\ y \notin C /\ (x \notin C \/ serving[d] = x)) => Before(x, y, d)'
    /\ (op = "write" /\ b \in Blocks) =>
         \A x \in Blocks \ {b} :
             (Pending(x)' /\ req'[x].op = "write" /\ DiskOf[req'[x].bid] = DiskOf[bid])
                 => Before(x, b, DiskOf[bid])'

\* And what they do to the requests: those of C that are queued are over, the
\* one of b is in flight, behind all the others of its type and disk.
LEMMA CancelStep ==
    ASSUME TypeOK, Flights, NEW C \in SUBSET Blocks, NEW b \in Blocks \cup {NoBlock},
           NEW op \in Ops, NEW bid \in Bids,
           b \in Blocks => ~Pending(b),
           \A d \in Disks, o \in Ops : \A x, y \in C :
               (Has(queue[d][o], x) /\ Has(queue[d][o], y)) => x = y,
           CancelAndSubmit(C, b, op, bid), serving' = serving
    PROVE  Cancels(C, b, op, bid)
<1>0. DiskOf[bid] \in Disks /\ \A x \in Bids : DiskOf[x] \in Disks
  BY Zenon, PoolsAssumption
<1>1. \A d \in Disks, o \in Ops :
        /\ queue'[d][o] \in Seq(Blocks) /\ Distinct(queue'[d][o])
        /\ \A x : Has(queue'[d][o], x) <=>
                    \/ Has(queue[d][o], x) /\ x \notin C
                    \/ x = b /\ b \in Blocks /\ d = DiskOf[bid] /\ o = op
        /\ \A x, y : (x \notin C /\ y \notin C /\ Precedes(queue[d][o], x, y))
                        => Precedes(queue'[d][o], x, y)
        /\ (b \in Blocks /\ d = DiskOf[bid] /\ o = op) =>
               \A x : (Has(queue[d][o], x) /\ x \notin C) => Precedes(queue'[d][o], x, b)
  <2>1. \A d \in Disks, o \in Ops : QueueMoves(C, b, op, bid, d, o)
    BY Zenon, QueueStep
  <2> QED BY Zenon, <2>1 DEF QueueMoves
<1>2. queue' \in [Disks -> [Ops -> Seq(Blocks)]]
  <2>1. queue' = [d \in Disks |-> [o \in Ops |-> queue'[d][o]]]
    BY Zenon DEF CancelAndSubmit
  <2> QED BY <1>1, <2>1
<1>3. \A x \in Blocks : Queued(x) <=>
          req[x].op \in Ops /\ Has(queue[DiskOf[req[x].bid]][req[x].op], x)
  BY Zenon DEF Queued, Has
<1>4. /\ b \in Blocks => req'[b] = [op |-> op, bid |-> bid, done |-> FALSE, err |-> FALSE]
      /\ \A x \in Blocks \ {b} : req'[x] = IF x \in C /\ Queued(x) THEN Over(FALSE) ELSE req[x]
  BY Zenon DEF CancelAndSubmit, Withdrawn
<1>5. req' \in [Blocks -> [op : Ops \cup {"none"}, bid : Bids \cup {NoBid},
                           done : BOOLEAN, err : BOOLEAN]]
  <2> DEFINE R == [op : Ops \cup {"none"}, bid : Bids \cup {NoBid}, done : BOOLEAN, err : BOOLEAN]
  <2>1. Over(FALSE) \in R /\ [op |-> op, bid |-> bid, done |-> FALSE, err |-> FALSE] \in R
    BY Zenon DEF Over
  <2>2. \A x \in Blocks : req[x] \in R
    BY Zenon DEF TypeOK
  <2>3. req' = [x \in Blocks |-> req'[x]]
    BY Zenon DEF CancelAndSubmit
  <2> HIDE DEF R
  <2>4. \A x \in Blocks : req'[x] \in R
    BY Zenon, <1>4, <2>1, <2>2
  <2> QED BY Zenon, <2>3, <2>4 DEF R
<1>6. \A x \in Blocks \ {b} : Pending(x)' =>
        /\ Pending(x) /\ req'[x] = req[x]
        /\ x \notin C \/ ~Has(queue[DiskOf[req[x].bid]][req[x].op], x)
  <2> SUFFICES ASSUME NEW x \in Blocks \ {b}, ~req'[x].done
               PROVE  /\ ~req[x].done /\ req'[x] = req[x]
                      /\ x \notin C \/ ~Has(queue[DiskOf[req[x].bid]][req[x].op], x)
    BY Zenon DEF Pending
  <2>1. ~(x \in C /\ Queued(x))
    BY <1>4 DEF Over
  <2>2. req'[x] = req[x]
    BY Zenon, <1>4, <2>1
  <2>3. req[x].op \in Ops
    BY Zenon, <2>2 DEF Flights, Pending
  <2> QED BY Zenon, <1>3, <2>1, <2>2, <2>3
<1>7. \A x \in Blocks \ {b} : (Pending(x) /\ x \notin C) => Pending(x)' /\ req'[x] = req[x]
  BY Zenon, <1>4 DEF Pending
<1>8. \A x \in Blocks \ {b} : (Pending(x) /\ serving[DiskOf[req[x].bid]] = x) => Pending(x)' /\ req'[x] = req[x]
  <2> SUFFICES ASSUME NEW x \in Blocks \ {b}, Pending(x), serving[DiskOf[req[x].bid]] = x
               PROVE  Pending(x)' /\ req'[x] = req[x]
    BY Zenon
  <2>1. DiskOf[req[x].bid] \in Disks
    BY Zenon, <1>0 DEF Flights
  <2>2. ~Queued(x)
    BY <1>3, <2>1 DEF Flights
  <2> QED BY Zenon, <1>4, <2>2 DEF Pending
<1>9. Flights'
  <2>1. ASSUME NEW x \in Blocks, Pending(x)'
        PROVE  /\ req'[x].op \in Ops /\ req'[x].bid \in Bids /\ ~req'[x].err
               /\ \/ serving'[DiskOf[req'[x].bid]] = x
                  \/ Has(queue'[DiskOf[req'[x].bid]][req'[x].op], x)
    <3>1. CASE x = b
      <4>1. /\ req'[x].op = op /\ req'[x].bid = bid /\ ~req'[x].err
            /\ b \in Blocks
        BY <1>4, <3>1
      <4>2. Has(queue'[DiskOf[bid]][op], x)
        BY Zenon, <1>0, <1>1, <3>1, <4>1
      <4> QED BY Zenon, <4>1, <4>2
    <3>2. CASE x # b
      <4>1. /\ Pending(x) /\ req'[x] = req[x]
            /\ x \notin C \/ ~Has(queue[DiskOf[req[x].bid]][req[x].op], x)
        BY Zenon, <1>6, <2>1, <3>2
      <4>2. /\ req[x].op \in Ops /\ req[x].bid \in Bids /\ ~req[x].err
            /\ serving[DiskOf[req[x].bid]] = x \/ Has(queue[DiskOf[req[x].bid]][req[x].op], x)
        BY Zenon, <4>1 DEF Flights
      <4> QED BY <1>0, <1>1, <4>1, <4>2
    <3> QED BY Zenon, <3>1, <3>2
  <2>2. ASSUME NEW d \in Disks, NEW o \in Ops, NEW x \in Blocks, Has(queue'[d][o], x)
        PROVE  Pending(x)' /\ req'[x].op = o /\ DiskOf[req'[x].bid] = d /\ serving'[d] # x
    <3>1. CASE x # b
      <4>1. Has(queue[d][o], x) /\ x \notin C
        BY Zenon, <1>1, <2>2, <3>1
      <4>2. Pending(x) /\ req[x].op = o /\ DiskOf[req[x].bid] = d /\ serving[d] # x
        BY <4>1 DEF Flights
      <4> QED BY Zenon, <1>7, <3>1, <4>1, <4>2
    <3>2. CASE x = b
      <4>1. ~Pending(b)
        BY Zenon, <3>2
      <4>2. ~Has(queue[d][o], b) /\ serving[d] # b
        BY <3>2, <4>1, PoolsAssumption DEF Flights
      <4>3. d = DiskOf[bid] /\ o = op
        BY Zenon, <1>1, <2>2, <3>2, <4>2
      <4> QED BY <1>4, <3>2, <4>2, <4>3 DEF Pending
    <3> QED BY Zenon, <3>1, <3>2
  <2>3. ASSUME NEW d \in Disks, serving'[d] # NoBlock
        PROVE  Pending(serving[d])' /\ DiskOf[req'[serving[d]].bid] = d
    <3>1. serving[d] \in Blocks /\ Pending(serving[d]) /\ DiskOf[req[serving[d]].bid] = d
      BY <2>3 DEF Flights, TypeOK
    <3>2. serving[d] # b
      BY Zenon, <3>1, PoolsAssumption
    <3>3. PICK x \in Blocks \ {b} : x = serving[d]
      BY Zenon, <3>1, <3>2
    <3>4. Pending(x)' /\ req'[x] = req[x]
      BY Zenon, <1>8, <3>1, <3>3
    <3> QED BY Zenon, <3>1, <3>3, <3>4 DEF Pending
  <2>4. \A d \in Disks, o \in Ops : Distinct(queue'[d][o])
    BY Zenon, <1>1
  <2> QED BY Zenon, <2>1, <2>2, <2>3, <2>4 DEF Flights
<1>10. ASSUME NEW x \in Blocks, NEW y \in Blocks, NEW d \in Disks,
              Before(x, y, d), y \notin C, x \notin C \/ serving[d] = x
       PROVE  Before(x, y, d)'
  <2>1. "write" \in Ops
    BY Zenon DEF Ops
  <2>2. CASE serving[d] = x /\ Has(queue[d]["write"], y)
    BY Zenon, <1>1, <1>10, <2>1, <2>2 DEF Before
  <2>3. CASE Precedes(queue[d]["write"], x, y)
    <3>1. Has(queue[d]["write"], x)
      BY Zenon, <2>3 DEF Precedes, Has
    <3>2. serving[d] # x
      BY <2>1, <3>1 DEF Flights
    <3> QED BY Zenon, <1>1, <1>10, <2>1, <2>3, <3>2 DEF Before
  <2> QED BY Zenon, <1>10, <2>2, <2>3 DEF Before
<1>11. ASSUME op = "write", b \in Blocks, NEW x \in Blocks \ {b}, Pending(x)', req'[x].op = "write",
              DiskOf[req'[x].bid] = DiskOf[bid]
       PROVE  Before(x, b, DiskOf[bid])'
  <2>1. /\ Pending(x) /\ req'[x] = req[x]
        /\ x \notin C \/ ~Has(queue[DiskOf[bid]]["write"], x)
    BY Zenon, <1>6, <1>11
  <2>2. serving[DiskOf[bid]] = x \/ Has(queue[DiskOf[bid]]["write"], x)
    BY <1>11, <2>1 DEF Flights
  <2>3. Has(queue'[DiskOf[bid]]["write"], b)
    BY Zenon, <1>0, <1>1, <1>11
  <2>4. (Has(queue[DiskOf[bid]]["write"], x) /\ x \notin C) => Precedes(queue'[DiskOf[bid]]["write"], x, b)
    BY Zenon, <1>0, <1>1, <1>11
  <2> QED BY Zenon, <2>1, <2>2, <2>3, <2>4 DEF Before
<1> QED BY Zenon, <1>2, <1>4, <1>5, <1>9, <1>10, <1>11 DEF Cancels

-----------------------------------------------------------------------------
(* What stays as it is. *)

\* The blocks that somebody has.
Owned ==
    w_free \cup BusyOf(w_busy) \cup p_free \cup CachedOf(p_busy) \cup user \cup leaked \cup Reading

\* The blocks that nobody owns are the ones not allocated yet.
LEMMA UnusedOwned == Unused = Blocks \ Owned
  BY Zenon DEF Unused, Owned, Busy, Cached, BusyOf, CachedOf

\* The newest values stay where they are when no write begins or ends.
LEMMA WritesKept ==
    ASSUME FreshWrites,
           \A b \in Blocks, bid \in Bids : Writing(b, bid)' <=> Writing(b, bid),
           \A b, c \in Blocks, bid \in Bids :
               (Writing(b, bid) /\ Writing(c, bid) /\ Before(b, c, DiskOf[bid]))
                   => Before(b, c, DiskOf[bid])',
           \A b \in Blocks, bid \in Bids : (Writing(b, bid) /\ Current(b, bid))
               => Current(b, bid)' /\ content'[b] = content[b],
           stored' = stored, latest' = latest, failed' = failed
    PROVE  FreshWrites'
<1> SUFFICES ASSUME NEW bid \in Bids
             PROVE  \/ \E c \in Blocks : LastWrite(c, bid)'
                    \/ Quiet(bid)' /\ (stored'[bid] = latest'[bid] \/ bid \in failed')
  BY Zenon DEF FreshWrites
<1>1. CASE Quiet(bid) /\ (stored[bid] = latest[bid] \/ bid \in failed)
  BY Zenon, <1>1 DEF Quiet
<1>2. ASSUME NEW c \in Blocks, LastWrite(c, bid) PROVE LastWrite(c, bid)'
  BY Zenon, <1>2 DEF LastWrite
<1> QED BY Zenon, <1>1, <1>2 DEF FreshWrites

\* No request begins or ends.
Settled ==
    \A b \in Blocks : (Pending(b)' <=> Pending(b)) /\ (Pending(b) => req'[b] = req[b])

\* The requests of the disks stay as they are when no queue changes.
LEMMA FlightsKept ==
    ASSUME TypeOK, Flights, Settled, queue' = queue, serving' = serving
    PROVE  Flights'
<1>1. ASSUME NEW b \in Blocks, Pending(b)'
      PROVE  /\ req'[b].op \in Ops /\ req'[b].bid \in Bids /\ ~req'[b].err
             /\ \/ serving'[DiskOf[req'[b].bid]] = b
                \/ Has(queue'[DiskOf[req'[b].bid]][req'[b].op], b)
  <2>1. Pending(b) /\ req'[b] = req[b]
    BY Zenon, <1>1 DEF Settled
  <2> QED BY Zenon, <2>1 DEF Flights
<1>2. ASSUME NEW d \in Disks, NEW op \in Ops, NEW b \in Blocks, Has(queue'[d][op], b)
      PROVE  Pending(b)' /\ req'[b].op = op /\ DiskOf[req'[b].bid] = d /\ serving'[d] # b
  <2>1. Pending(b) /\ req[b].op = op /\ DiskOf[req[b].bid] = d /\ serving[d] # b
    BY <1>2 DEF Flights
  <2> QED BY Zenon, <2>1 DEF Settled
<1>3. ASSUME NEW d \in Disks, serving'[d] # NoBlock
      PROVE  ~req'[serving'[d]].done /\ DiskOf[req'[serving'[d]].bid] = d
  <2>1. PICK b \in Blocks : b = serving[d]
    BY Zenon, <1>3 DEF TypeOK
  <2>2. Pending(b) /\ DiskOf[req[b].bid] = d
    BY Zenon, <1>3, <2>1 DEF Flights
  <2> QED BY Zenon, <2>1, <2>2 DEF Settled, Pending
<1>4. \A d \in Disks, op \in Ops : Distinct(queue'[d][op])
  BY Zenon DEF Flights
<1> QED BY Zenon, <1>1, <1>2, <1>3, <1>4 DEF Flights, Pending

\* y is the block from which the pools serve bid: one that is written there, or
\* a hint that no call is about to drop.
Serves(y, bid) ==
    \/ \E i \in DOMAIN w_busy : w_busy[i].block = y /\ w_busy[i].bid = bid
    \/ p_busy[bid] = y /\ ~(cpc \in {"write", "invalidate"} /\ cbid = bid)

\* Such a block may become a hint or go to the client, the other blocks stay what
\* they are or leave the pools.
LEMMA FreshMoved ==
    ASSUME TypeOK, Held, Fresh, Settled, UNCHANGED <<queue, serving, stored, latest, failed>>,
           cpc' \notin {"write", "invalidate"},
           \A b \in Blocks : Pending(b) => content'[b] = content[b],
           \A b \in Blocks, bid \in Bids : (Writing(b, bid) /\ Current(b, bid)) => Current(b, bid)',
           \A k \in DOMAIN w_busy' : \E i \in DOMAIN w_busy : w_busy'[k] = w_busy[i],
           \A bid \in Bids : p_busy'[bid] # NoBlock => Serves(p_busy'[bid], bid),
           cpc' = "read" => cblk' \in Blocks /\ cbid' \in Bids /\ Serves(cblk', cbid'),
           \A b \in BusyOf(w_busy') \cup CachedOf(p_busy') \cup Reading' :
               content'[b] = content[b] /\ req'[b] = req[b]
    PROVE  Fresh'
<1>1. \A b \in Blocks, bid \in Bids : Writing(b, bid)' <=> Writing(b, bid)
  BY Zenon DEF Writing, Settled
<1>2. \A bid \in Bids : Quiet(bid)' <=> Quiet(bid)
  BY Zenon, <1>1 DEF Quiet
<1>3. FreshWrites'
  <2>1. \A b, c \in Blocks, bid \in Bids :
          Before(b, c, DiskOf[bid]) => Before(b, c, DiskOf[bid])'
    BY Zenon DEF Before
  <2>2. \A b \in Blocks, bid \in Bids : (Writing(b, bid) /\ Current(b, bid))
               => Current(b, bid)' /\ content'[b] = content[b]
    BY Zenon DEF Writing
  <2>3. FreshWrites
    BY Zenon DEF Fresh
  <2> QED BY Zenon, <1>1, <2>1, <2>2, <2>3, WritesKept
<1>4. FreshBusy'
  <2> SUFFICES ASSUME NEW k \in DOMAIN w_busy', w_busy'[k].bid # NoBid
               PROVE  content'[w_busy'[k].block] = latest[w_busy'[k].bid]
    BY Zenon DEF FreshBusy
  <2>1. PICK i \in DOMAIN w_busy : w_busy'[k] = w_busy[i]
    BY Zenon
  <2>2. w_busy'[k].block \in BusyOf(w_busy')
    BY Zenon DEF BusyOf
  <2> QED BY <2>1, <2>2 DEF Fresh, FreshBusy
<1>5. ASSUME NEW y, NEW bid \in Bids, Serves(y, bid), y # NoBlock,
             content'[y] = content[y], req'[y] = req[y]
      PROVE  Promise(y, bid)' /\ Delivered(y, bid)'
  <2>1. Promise(y, bid) /\ Delivered(y, bid)
    <3>1. CASE \E i \in DOMAIN w_busy : w_busy[i].block = y /\ w_busy[i].bid = bid
      <4>1. PICK i \in DOMAIN w_busy : w_busy[i].block = y /\ w_busy[i].bid = bid
        BY Zenon, <3>1
      <4>2. content[y] = latest[bid] /\ (Pending(y) => req[y].op = "write")
        BY Zenon, <4>1, PoolsAssumption DEF Fresh, FreshBusy, Held
      <4> QED BY Zenon, <4>2 DEF Promise, Delivered
    <3>2. CASE p_busy[bid] = y /\ ~(cpc \in {"write", "invalidate"} /\ cbid = bid)
      BY Zenon, <1>5, <3>2 DEF Fresh, FreshCached
    <3> QED BY Zenon, <1>5, <3>1, <3>2 DEF Serves
  <2> QED BY Zenon, <1>2, <1>5, <2>1 DEF Promise, Delivered, Pending
<1>6. FreshCached'
  <2> SUFFICES ASSUME NEW bid \in Bids, p_busy'[bid] # NoBlock
               PROVE  Promise(p_busy[bid], bid)' /\ Delivered(p_busy[bid], bid)'
    BY Zenon DEF FreshCached
  <2>1. PICK y : y = p_busy'[bid]
    BY Zenon
  <2>2. y # NoBlock /\ Serves(y, bid) /\ y \in CachedOf(p_busy')
    BY Zenon, <2>1 DEF CachedOf
  <2>3. Promise(y, bid)' /\ Delivered(y, bid)'
    BY Zenon, <1>5, <2>2
  <2> QED BY Zenon, <2>1, <2>3
<1>7. FreshRead'
  <2> SUFFICES ASSUME cpc' = "read" PROVE Promise(cblk, cbid)' /\ Delivered(cblk, cbid)'
    BY Zenon DEF FreshRead
  <2>1. PICK y \in Blocks, bid \in Bids : y = cblk' /\ bid = cbid'
    BY Zenon
  <2>2. y # NoBlock /\ Serves(y, bid) /\ y \in Reading'
    BY Zenon, <2>1, PoolsAssumption DEF Reading
  <2>3. Promise(y, bid)' /\ Delivered(y, bid)'
    BY Zenon, <1>5, <2>2
  <2> QED BY Zenon, <2>1, <2>3
<1> QED BY Zenon, <1>3, <1>4, <1>6, <1>7 DEF Fresh

\* They keep their requests.
LEMMA HeldMoved ==
    ASSUME TypeOK, Held, Settled,
           \A b \in Blocks :
             Pending(b) => b \in BusyOf(w_busy') \cup CachedOf(p_busy') \cup Reading' \cup leaked',
           \A k \in DOMAIN w_busy' : \E i \in DOMAIN w_busy : w_busy'[k] = w_busy[i],
           \A bid \in Bids : p_busy'[bid] # NoBlock => Serves(p_busy'[bid], bid),
           cpc' = "read" => cblk' \in Blocks /\ cbid' \in Bids /\ Serves(cblk', cbid')
    PROVE  Held'
<1>1. \A b \in Blocks : Pending(b)' => b \in (BusyOf(w_busy) \cup CachedOf(p_busy) \cup Reading \cup leaked)'
  BY Zenon DEF Settled
<1>2. ASSUME NEW k \in DOMAIN w_busy', ~req'[w_busy'[k].block].done
      PROVE  /\ req'[w_busy'[k].block].op = "write"
             /\ w_busy'[k].bid # NoBid => req'[w_busy'[k].block].bid = w_busy'[k].bid
  <2>1. PICK i \in DOMAIN w_busy : w_busy'[k] = w_busy[i]
    BY Zenon
  <2>2. PICK b \in Blocks : b = w_busy[i].block
    BY Zenon, BlocksOfPools
  <2>3. Pending(b) /\ req'[b] = req[b]
    BY Zenon, <1>2, <2>1, <2>2 DEF Settled, Pending
  <2> QED BY <2>1, <2>2, <2>3 DEF Held
<1>3. ASSUME NEW y, NEW d \in Bids, Serves(y, d), y # NoBlock, ~req'[y].done
      PROVE  req'[y].bid = d
  <2>1. y \in Blocks
    BY <1>3, BlocksOfPools DEF Serves, TypeOK
  <2>2. Pending(y) /\ req'[y] = req[y]
    BY Zenon, <1>3, <2>1 DEF Settled, Pending
  <2>3. req[y].bid = d
    BY Zenon, <1>3, <2>2, PoolsAssumption DEF Held, Serves
  <2> QED BY Zenon, <2>2, <2>3
<1>4. \A d \in Bids : (p_busy'[d] # NoBlock /\ ~req'[p_busy'[d]].done) => req'[p_busy'[d]].bid = d
  BY Zenon, <1>3
<1>5. (cpc' = "read" /\ ~req'[cblk'].done) => req'[cblk'].bid = cbid'
  BY Zenon, <1>3, PoolsAssumption
<1> QED BY Zenon, <1>1, <1>2, <1>4, <1>5 DEF Held, Pending

\* Blocks only leave the pools.
LEMMA FreshKept ==
    ASSUME TypeOK, Held, Fresh, Settled, UNCHANGED <<queue, serving, stored, latest, failed>>,
           cpc \notin {"write", "invalidate"}, cpc' \notin {"read", "write", "invalidate"},
           cblk' = NoBlock,
           \A b \in Blocks : Pending(b) => content'[b] = content[b],
           \A b \in Blocks, bid \in Bids : (Writing(b, bid) /\ Current(b, bid)) => Current(b, bid)',
           \A k \in DOMAIN w_busy' : \E i \in DOMAIN w_busy : w_busy'[k] = w_busy[i],
           \A bid \in Bids : p_busy'[bid] \in {NoBlock, p_busy[bid]},
           \A b \in BusyOf(w_busy') \cup CachedOf(p_busy') : content'[b] = content[b] /\ req'[b] = req[b]
    PROVE  Fresh'
<1>1. \A bid \in Bids : p_busy'[bid] # NoBlock => Serves(p_busy'[bid], bid)
  BY Zenon DEF Serves
<1>2. Reading' = {}
  BY Zenon DEF Reading
<1> QED BY Zenon, <1>1, <1>2, FreshMoved

\* The pools still hold every block under transfer when they only let go of others.
LEMMA HeldKept ==
    ASSUME TypeOK, Held, Settled, cpc \notin {"write", "invalidate"}, cpc' # "read",
           \A b \in Blocks :
             Pending(b) => b \in BusyOf(w_busy') \cup CachedOf(p_busy') \cup Reading' \cup leaked',
           \A k \in DOMAIN w_busy' : \E i \in DOMAIN w_busy : w_busy'[k] = w_busy[i],
           \A bid \in Bids : p_busy'[bid] \in {NoBlock, p_busy[bid]}
    PROVE  Held'
<1>1. \A bid \in Bids : p_busy'[bid] # NoBlock => Serves(p_busy'[bid], bid)
  BY Zenon DEF Serves
<1> QED BY Zenon, <1>1, HeldMoved

-----------------------------------------------------------------------------
(* What the calls make of the busy list and of the requests. *)

\* A function on 1..n is a sequence.
LEMMA IsSequence == ASSUME NEW S, NEW n \in Nat, NEW t \in [1..n -> S] PROVE t \in Seq(S)
  OBVIOUS

\* wb is the busy list after a write of b to bid.
Replaced(wb, b, bid) ==
    /\ wb \in Seq(Entries) /\ BusyOnce(wb) /\ BidOnce(wb)
    /\ BusyOf(wb) = BusyOf(w_busy) \cup {b}
    /\ \A k \in DOMAIN wb :
         \/ wb[k].block = b /\ wb[k].bid = bid
         \/ \E m \in DOMAIN w_busy :
              /\ wb[k].block = w_busy[m].block
              /\ wb[k].bid = NoBid \/ (wb[k].bid = w_busy[m].bid /\ w_busy[m].bid # bid)
    /\ \A m \in DOMAIN w_busy : w_busy[m].bid # bid => \E k \in DOMAIN wb : wb[k] = w_busy[m]
    /\ \E k \in DOMAIN wb : wb[k].block = b /\ wb[k].bid = bid

\* A list with one more entry at its end.
LEMMA Appended ==
    ASSUME NEW S, NEW s \in Seq(S), NEW e \in S
    PROVE  /\ Append(s, e) \in Seq(S) /\ DOMAIN Append(s, e) = 1..(Len(s) + 1)
           /\ Append(s, e)[Len(s) + 1] = e /\ \A m \in 1..Len(s) : Append(s, e)[m] = s[m]
<1>1. /\ Append(s, e) \in Seq(S) /\ Len(Append(s, e)) = Len(s) + 1
      /\ Append(s, e)[Len(s) + 1] = e /\ \A m \in 1..Len(s) : Append(s, e)[m] = s[m]
  OBVIOUS
<1> QED BY <1>1

\* After a write the busy list has the new entry and no older one of the address.
LEMMA WriteReplaces ==
    ASSUME TypeOK, BusyOnce(w_busy), BidOnce(w_busy), NEW b \in Blocks, b \notin BusyOf(w_busy),
           NEW bid \in Bids, NEW wb, wb = Append(Superseded(bid), [block |-> b, bid |-> bid])
    PROVE  Replaced(wb, b, bid)
<1> DEFINE s == Superseded(bid)
           e == [block |-> b, bid |-> bid]
           n == Len(w_busy)
<1>1. w_busy \in Seq(Entries) /\ n \in Nat /\ DOMAIN w_busy = 1..n
  BY DEF TypeOK, Entries
<1>2. \A m \in 1..n : w_busy[m].block \in Blocks /\ w_busy[m].bid \in Bids \cup {NoBid} /\ w_busy[m] \in Entries
  BY <1>1, BlocksOfPools
<1>3. \A m \in 1..n : /\ s[m] \in Entries /\ s[m].block = w_busy[m].block
                      /\ w_busy[m].bid = bid => s[m].bid = NoBid
                      /\ w_busy[m].bid # bid => s[m] = w_busy[m]
  <2> TAKE m \in 1..n
  <2>1. s[m] = IF w_busy[m].bid = bid THEN [w_busy[m] EXCEPT !.bid = NoBid] ELSE w_busy[m]
    BY Zenon, <1>1 DEF Superseded
  <2> QED BY Zenon, <1>2, <2>1 DEF Entries
<1>4. s \in [1..n -> Entries]
  <2>1. s = [m \in 1..n |-> s[m]]
    BY Zenon, <1>1 DEF Superseded
  <2> QED BY Zenon, <1>3, <2>1
<1>5. s \in Seq(Entries) /\ Len(s) = n
  <2>1. s \in Seq(Entries)
    BY Zenon, <1>1, <1>4, IsSequence
  <2> QED BY <1>1, <1>4, <2>1
<1>6. e \in Entries /\ e.block = b /\ e.bid = bid
  BY Zenon DEF Entries
<1> HIDE DEF s, e
<1>7. /\ wb \in Seq(Entries) /\ DOMAIN wb = 1..(n + 1) /\ wb[n + 1] = e
      /\ \A m \in 1..n : wb[m] = s[m]
  <2>1. wb = Append(s, e)
    BY Zenon DEF s, e
  <2>2. /\ Append(s, e) \in Seq(Entries) /\ DOMAIN Append(s, e) = 1..(Len(s) + 1)
        /\ Append(s, e)[Len(s) + 1] = e /\ \A m \in 1..Len(s) : Append(s, e)[m] = s[m]
    BY <1>5, <1>6, Appended
  <2> QED BY Zenon, <1>5, <2>1, <2>2
<1>8. \A k \in 1..(n + 1) : k \in 1..n \/ k = n + 1
  BY <1>1
<1>9. \A m \in 1..n : m \in 1..(n + 1) /\ m # n + 1
  BY <1>1
<1>10. n + 1 \in 1..(n + 1)
  BY <1>1
<1>11. \A m \in 1..n : wb[m].block = w_busy[m].block /\ wb[m].block # b /\ wb[m].bid # bid
  <2>1. NoBid # bid
    BY Zenon, PoolsAssumption
  <2> QED BY <1>1, <1>3, <1>7, <2>1 DEF BusyOf
<1>12. BusyOnce(wb)
  BY <1>1, <1>6, <1>7, <1>8, <1>11 DEF BusyOnce
<1>13. BidOnce(wb)
  <2> SUFFICES ASSUME NEW i \in 1..(n + 1), NEW j \in 1..(n + 1), wb[i].bid = wb[j].bid, wb[i].bid # NoBid
               PROVE  i = j
    BY Zenon, <1>7 DEF BidOnce
  <2>1. CASE i \in 1..n /\ j \in 1..n
    <3>1. wb[i] = w_busy[i] /\ wb[j] = w_busy[j]
      BY Zenon, <1>3, <1>7, <2>1
    <3> QED BY Zenon, <1>1, <2>1, <3>1 DEF BidOnce
  <2>2. CASE i = n + 1 \/ j = n + 1
    BY <1>6, <1>7, <1>8, <1>11, <2>2
  <2> QED BY Zenon, <1>8, <2>1, <2>2
<1>14. BusyOf(wb) = BusyOf(w_busy) \cup {b}
  <2>1. ASSUME NEW x \in BusyOf(wb) PROVE x \in BusyOf(w_busy) \cup {b}
    BY <1>1, <1>6, <1>7, <1>8, <1>11 DEF BusyOf
  <2>2. ASSUME NEW x \in BusyOf(w_busy) PROVE x \in BusyOf(wb)
    BY <1>1, <1>7, <1>9, <1>11 DEF BusyOf
  <2>3. b \in BusyOf(wb)
    BY Zenon, <1>6, <1>7, <1>10 DEF BusyOf
  <2> QED BY Zenon, <2>1, <2>2, <2>3
<1>15. \A k \in DOMAIN wb :
         \/ wb[k].block = b /\ wb[k].bid = bid
         \/ \E m \in DOMAIN w_busy :
              /\ wb[k].block = w_busy[m].block
              /\ wb[k].bid = NoBid \/ (wb[k].bid = w_busy[m].bid /\ w_busy[m].bid # bid)
  BY <1>1, <1>3, <1>6, <1>7, <1>8, <1>11
<1>16. \A m \in DOMAIN w_busy : w_busy[m].bid # bid => \E k \in DOMAIN wb : wb[k] = w_busy[m]
  BY Zenon, <1>1, <1>3, <1>7, <1>9
<1>17. \E k \in DOMAIN wb : wb[k].block = b /\ wb[k].bid = bid
  BY Zenon, <1>6, <1>7, <1>10
<1> QED BY Zenon, <1>7, <1>12, <1>13, <1>14, <1>15, <1>16, <1>17 DEF Replaced

\* What write() and invalidate() cancel is neither a write to another place nor
\* hinted for one.
Cancelable(C, bid) ==
    \A x \in C : /\ x \in Blocks
                 /\ \A d \in Bids : Writing(x, d) => d = bid
                 /\ \A d \in Bids : p_busy[d] = x => d = bid

ToBeCanceled(C, stale, bid) ==
    /\ stale \subseteq Blocks
    /\ \A x \in stale : \E i \in DOMAIN w_busy : w_busy[i].bid = bid /\ w_busy[i].block = x
    /\ \A x : x \in C <=> (x \in stale \/ x \in ToCancel(bid))

OneOfQueue(C) ==
    \A d \in Disks, o \in Ops : \A x, y \in C : (Has(queue[d][o], x) /\ Has(queue[d][o], y)) => x = y

\* No call cancels two requests of one queue.
LEMMA CancelsOne ==
    ASSUME PoolInv, NEW bid \in Bids, NEW stale, NEW C, ToBeCanceled(C, stale, bid)
    PROVE  C \in SUBSET Blocks /\ Cancelable(C, bid) /\ OneOfQueue(C)
<1>0. /\ stale \subseteq Blocks
      /\ \A x \in stale : \E i \in DOMAIN w_busy : w_busy[i].bid = bid /\ w_busy[i].block = x
      /\ \A x : x \in C <=> (x \in stale \/ x \in ToCancel(bid))
  BY Zenon DEF ToBeCanceled
<1>1. TypeOK /\ Places /\ Flights /\ Held
  BY Zenon DEF PoolInv
<1>2. \A x, y \in stale : x = y
  BY <1>0, <1>1, PoolsAssumption DEF Places, BidOnce
<1>3. /\ \A x \in ToCancel(bid) : x \in Blocks /\ x = p_busy[bid] /\ req[x].op = "read"
      /\ \A x \in ToCancel(bid) : x \in CachedOf(p_busy)
  BY <1>1 DEF ToCancel, TypeOK, CachedOf
<1>4. \A x \in stale : Pending(x) => req[x].op = "write" /\ req[x].bid = bid
  BY <1>0, <1>1, PoolsAssumption DEF Held
<1>5. ASSUME NEW d \in Disks, NEW o \in Ops, NEW x \in C, NEW y \in C, Has(queue[d][o], x), Has(queue[d][o], y)
      PROVE  x = y
  <2>1. x \in Blocks /\ y \in Blocks
    BY Zenon, <1>0, <1>3, <1>5
  <2>2. Pending(x) /\ req[x].op = o /\ Pending(y) /\ req[y].op = o
    BY <1>1, <1>5, <2>1 DEF Flights
  <2> QED BY <1>0, <1>2, <1>3, <1>4, <1>5, <2>2
<1>6. Cancelable(C, bid)
  <2>1. ASSUME NEW x \in stale, NEW d \in Bids
        PROVE  (Writing(x, d) => d = bid) /\ p_busy[d] # x
    <3>1. x \in BusyOf(w_busy) /\ x \notin CachedOf(p_busy)
      BY <1>0, <1>1 DEF BusyOf, Places, Apart
    <3> QED BY Zenon, <1>0, <1>4, <3>1, PoolsAssumption DEF Writing, CachedOf
  <2>2. ASSUME NEW x \in ToCancel(bid), NEW d \in Bids
        PROVE  ~Writing(x, d) /\ (p_busy[d] = x => d = bid)
    <3>1. x = p_busy[bid] /\ x # NoBlock /\ req[x].op = "read"
      BY Zenon, <1>3, PoolsAssumption
    <3> QED BY Zenon, <1>1, <3>1 DEF Writing, Places, CachedOnce
  <2> QED BY Zenon, <1>0, <1>3, <2>1, <2>2 DEF Cancelable
<1> QED BY Zenon, <1>0, <1>3, <1>5, <1>6 DEF OneOfQueue

\* The requests that are left, the new one aside, are the ones before.
LEMMA CanceledHeld ==
    ASSUME TypeOK, Held, Reading = {}, NEW C \in SUBSET Blocks, NEW b \in Blocks \cup {NoBlock},
           NEW op \in Ops, NEW bid \in Bids, Cancels(C, b, op, bid), Cancelable(C, bid),
           b \in Blocks => ~Pending(b)
    PROVE  /\ \A x \in Blocks : Pending(x)' => x = b \/ (Pending(x) /\ req'[x] = req[x])
           /\ \A x \in Blocks : Pending(x)' =>
                x = b \/ x \in BusyOf(w_busy) \cup CachedOf(p_busy) \cup leaked
           /\ \A x \in Blocks, d \in Bids \ {bid} : Writing(x, d)' <=> Writing(x, d)
           /\ \A d \in Bids \ {bid} : Quiet(d)' <=> Quiet(d)
           /\ \A x, y \in Blocks, d \in Bids \ {bid} :
                (Writing(x, d) /\ Writing(y, d) /\ Before(x, y, DiskOf[d])) => Before(x, y, DiskOf[d])'
<1>1. /\ \A x \in Blocks \ {b} : req'[x] = req[x] \/ (x \in C /\ req'[x] = Over(FALSE))
      /\ b \in Blocks => req'[b] = [op |-> op, bid |-> bid, done |-> FALSE, err |-> FALSE]
      /\ \A x, y \in Blocks, d \in Disks :
           (Before(x, y, d) /\ y \notin C /\ (x \notin C \/ serving[d] = x)) => Before(x, y, d)'
  BY Zenon DEF Cancels
<1>2. \A x \in Blocks : Pending(x)' => x = b \/ (Pending(x) /\ req'[x] = req[x])
  BY <1>1 DEF Pending, Over
<1>3. \A x \in Blocks : Pending(x)' => x = b \/ x \in BusyOf(w_busy) \cup CachedOf(p_busy) \cup leaked
  BY Zenon, <1>2 DEF Held
<1>4. ASSUME NEW x \in Blocks, NEW d \in Bids \ {bid} PROVE Writing(x, d)' <=> Writing(x, d)
  <2>1. CASE x = b
    BY <1>1, <2>1 DEF Writing, Pending
  <2>2. CASE x # b
    <3>1. CASE req'[x] = req[x]
      BY Zenon, <3>1 DEF Writing, Pending
    <3>2. CASE x \in C /\ req'[x] = Over(FALSE)
      BY <3>2 DEF Writing, Pending, Over, Cancelable
    <3> QED BY Zenon, <1>1, <2>2, <3>1, <3>2
  <2> QED BY Zenon, <2>1, <2>2
<1>5. \A d \in Bids \ {bid} : Quiet(d)' <=> Quiet(d)
  BY Zenon, <1>4 DEF Quiet
<1>6. \A x, y \in Blocks, d \in Bids \ {bid} :
        (Writing(x, d) /\ Writing(y, d) /\ Before(x, y, DiskOf[d])) => Before(x, y, DiskOf[d])'
  <2>1. \A x \in Blocks, d \in Bids \ {bid} : Writing(x, d) => x \notin C
    BY Zenon DEF Cancelable
  <2>2. \A d \in Bids : DiskOf[d] \in Disks
    BY Zenon, PoolsAssumption
  <2> QED BY Zenon, <1>1, <2>1, <2>2
<1> QED BY Zenon, <1>2, <1>3, <1>4, <1>5, <1>6

\* The requests stay as they are.
LEMMA RequestsStay == ASSUME TypeOK, Flights, UNCHANGED io PROVE Settled /\ Flights'
<1>1. Settled
  BY Zenon DEF Settled, Pending, io
<1> QED BY Zenon, <1>1, FlightsKept DEF io

\* The entry that steal_request takes out is the one for bid.
LEMMA RequestAtEntry ==
    ASSUME TypeOK, Places, NEW bid \in Bids, has_request(bid)
    PROVE  RequestAt(bid) \in DOMAIN w_busy /\ w_busy[RequestAt(bid)].bid = bid
<1>1. PICK i \in DOMAIN w_busy : w_busy[i].bid = bid
  BY Zenon DEF has_request
<1>2. DOMAIN w_busy = 1..Len(w_busy) /\ Len(w_busy) \in Nat
  BY DEF TypeOK
<1>3. \A j \in 1..(i - 1) : w_busy[j].bid # bid
  <2> SUFFICES ASSUME NEW j \in 1..(i - 1), w_busy[j].bid = bid PROVE FALSE
    BY Zenon
  <2>1. j \in DOMAIN w_busy /\ i \in Nat /\ j # i
    BY <1>2
  <2> QED BY Zenon, <1>1, <2>1, PoolsAssumption DEF Places, BidOnce
<1> QED BY Zenon, <1>1, <1>3 DEF RequestAt

\* Its block leaves the busy list, and nothing else does.
LEMMA StealRequest ==
    ASSUME TypeOK, Places, NEW bid \in Bids, has_request(bid)
    PROVE  \E i \in DOMAIN w_busy :
             /\ i = RequestAt(bid) /\ w_busy[i].bid = bid
             /\ w_busy[i].block \in Blocks /\ w_busy[i].block \in BusyOf(w_busy)
             /\ steal_request(bid) \in Seq(Entries)
             /\ BusyOnce(steal_request(bid)) /\ BidOnce(steal_request(bid))
             /\ BusyOf(steal_request(bid)) = BusyOf(w_busy) \ {w_busy[i].block}
             /\ \A k \in DOMAIN steal_request(bid) :
                  \E m \in DOMAIN w_busy : steal_request(bid)[k] = w_busy[m]
             /\ \A m \in DOMAIN w_busy : w_busy[m].bid # bid =>
                  \E k \in DOMAIN steal_request(bid) : steal_request(bid)[k] = w_busy[m]
<1>1. PICK i \in DOMAIN w_busy : i = RequestAt(bid) /\ w_busy[i].bid = bid
  BY Zenon, RequestAtEntry
<1>2. w_busy \in Seq(Entries) /\ BusyOnce(w_busy) /\ BidOnce(w_busy)
  BY Zenon DEF TypeOK, Entries, Places
<1>3. w_busy[i].block \in Blocks /\ w_busy[i].block \in BusyOf(w_busy)
  BY Zenon, BlocksOfPools DEF BusyOf
<1>4. steal_request(bid) = Erase(w_busy, i)
  BY Zenon, <1>1 DEF steal_request
<1>5. /\ Erase(w_busy, i) \in Seq(Entries)
      /\ BusyOnce(Erase(w_busy, i)) /\ BidOnce(Erase(w_busy, i))
      /\ BusyOf(Erase(w_busy, i)) = BusyOf(w_busy) \ {w_busy[i].block}
      /\ \A k \in DOMAIN Erase(w_busy, i) : \E m \in DOMAIN w_busy : Erase(w_busy, i)[k] = w_busy[m]
      /\ \A m \in (DOMAIN w_busy) \ {i} : \E k \in DOMAIN Erase(w_busy, i) : Erase(w_busy, i)[k] = w_busy[m]
  BY <1>2, EntryLeaves
<1> QED BY <1>1, <1>3, <1>4, <1>5

\* The block y of the write to bid leaves the busy list, and nothing else does.
Taken(y, bid) ==
    /\ y = w_busy[RequestAt(bid)].block /\ y \in BusyOf(w_busy) /\ Serves(y, bid)
    /\ w_busy' \in Seq(Entries) /\ BusyOnce(w_busy') /\ BidOnce(w_busy')
    /\ BusyOf(w_busy') = BusyOf(w_busy) \ {y}
    /\ \A k \in DOMAIN w_busy' : \E m \in DOMAIN w_busy : w_busy'[k] = w_busy[m]
    /\ \A m \in DOMAIN w_busy :
         \/ w_busy[m].bid = bid /\ w_busy[m].block = y
         \/ \E k \in DOMAIN w_busy' : w_busy'[k] = w_busy[m]

\* steal_request takes the one block that is written to the address.
LEMMA RequestTaken ==
    ASSUME TypeOK, Places, NEW bid \in Bids, has_request(bid), w_busy' = steal_request(bid)
    PROVE  \E y \in Blocks : Taken(y, bid)
<1>1. PICK i \in DOMAIN w_busy :
             /\ i = RequestAt(bid) /\ w_busy[i].bid = bid
             /\ w_busy[i].block \in Blocks /\ w_busy[i].block \in BusyOf(w_busy)
             /\ w_busy' \in Seq(Entries)
             /\ BusyOnce(w_busy') /\ BidOnce(w_busy')
             /\ BusyOf(w_busy') = BusyOf(w_busy) \ {w_busy[i].block}
             /\ \A k \in DOMAIN w_busy' : \E m \in DOMAIN w_busy : w_busy'[k] = w_busy[m]
             /\ \A m \in DOMAIN w_busy : w_busy[m].bid # bid =>
                  \E k \in DOMAIN w_busy' : w_busy'[k] = w_busy[m]
  BY StealRequest
<1>2. PICK y \in Blocks : y = w_busy[i].block
  BY Zenon, <1>1
<1>3. \A m \in DOMAIN w_busy : w_busy[m].bid = bid => m = i
  BY Zenon, <1>1, PoolsAssumption DEF Places, BidOnce
<1>4. Serves(y, bid)
  BY Zenon, <1>1, <1>2 DEF Serves
<1> QED BY Zenon, <1>1, <1>2, <1>3, <1>4 DEF Taken

\* What a read that was just submitted carries.
LEMMA ReadFields ==
    ASSUME NEW bid, NEW r, r = [op |-> "read", bid |-> bid, done |-> FALSE, err |-> FALSE]
    PROVE  r.op = "read" /\ r.op # "write" /\ r.bid = bid /\ ~r.done
  OBVIOUS

\* Nobody would be served from memory: no write to bid is in flight, and
\* block->read(bid) will deliver the newest value.
LEMMA ReadSubmitted ==
    ASSUME PoolInv, cpc \in {"idle", "write"}, NEW bid \in Bids, NEW b \in Blocks, ~Pending(b),
           cpc = "write" => cbid = bid, ~has_request(bid),
           p_busy[bid] = NoBlock \/ (cpc = "write" /\ cbid = bid /\ req[p_busy[bid]].done),
           Submit(b, "read", bid), w_busy' = w_busy, b \notin BusyOf(w_busy),
           UNCHANGED <<leaked, serving, stored, latest, failed>>,
           \A d \in Bids \ {bid} : p_busy'[d] = p_busy[d] /\ p_busy[d] # b,
           \/ p_busy'[bid] = b /\ cpc' = "idle" /\ cblk' = NoBlock
           \/ p_busy'[bid] = NoBlock /\ cpc' = "read" /\ cblk' = b /\ cbid' = bid,
           \A x \in Blocks : Pending(x) \/ x \in BusyOf(w_busy) => content'[x] = content[x],
           \A d \in Bids \ {bid} : p_busy[d] # NoBlock => content'[p_busy[d]] = content[p_busy[d]]
    PROVE  /\ req' \in [Blocks -> [op : Ops \cup {"none"}, bid : Bids \cup {NoBid},
                                   done : BOOLEAN, err : BOOLEAN]]
           /\ queue' \in [Disks -> [Ops -> Seq(Blocks)]]
           /\ Flights' /\ Held' /\ Fresh'
<1>1. TypeOK /\ Places /\ Calls /\ Flights /\ Held /\ Fresh
  BY Zenon DEF PoolInv, Live, Closing
<1>2. /\ req' \in [Blocks -> [op : Ops \cup {"none"}, bid : Bids \cup {NoBid},
                              done : BOOLEAN, err : BOOLEAN]]
      /\ queue' \in [Disks -> [Ops -> Seq(Blocks)]] /\ Flights'
      /\ \A x \in Blocks \ {b} : req'[x] = req[x]
      /\ req'[b] = [op |-> "read", bid |-> bid, done |-> FALSE, err |-> FALSE]
      /\ \A x, y \in Blocks, d \in Disks : Before(x, y, d) => Before(x, y, d)'
  <2>1. PICK C \in SUBSET Blocks : C = {}
    BY Zenon
  <2>2. CancelAndSubmit(C, b, "read", bid) /\ "read" \in Ops /\ b \in Blocks \cup {NoBlock}
    BY Zenon, <2>1 DEF Submit, Ops
  <2>3. \A d \in Disks, o \in Ops : \A x, y \in C :
               (Has(queue[d][o], x) /\ Has(queue[d][o], y)) => x = y
    BY Zenon, <2>1
  <2>4. serving' = serving /\ (b \in Blocks => ~Pending(b))
    BY Zenon
  <2>5. Cancels(C, b, "read", bid)
    BY Zenon, <1>1, <2>2, <2>3, <2>4, CancelStep
  <2> QED BY Zenon, <2>1, <2>5 DEF Cancels
<1>0. /\ req'[b].op = "read" /\ req'[b].op # "write" /\ req'[b].bid = bid /\ ~req'[b].done
      /\ \A x \in Blocks \ {b} : req'[x] = req[x]
  <2>1. PICK r : r = req'[b]
    BY Zenon
  <2>2. r = [op |-> "read", bid |-> bid, done |-> FALSE, err |-> FALSE]
    BY Zenon, <1>2, <2>1
  <2>3. r.op = "read" /\ r.op # "write" /\ r.bid = bid /\ ~r.done
    BY Zenon, <2>2, ReadFields
  <2> QED BY Zenon, <1>2, <2>1, <2>3
<1>3. cblk = NoBlock /\ Reading = {}
  BY Zenon, <1>1 DEF Calls, Reading
<1>4. Quiet(bid)
  <2>1. \A c \in Blocks : ~Current(c, bid)
    BY <1>1, PoolsAssumption DEF Current, has_request
  <2> QED BY Zenon, <1>1, <2>1 DEF Fresh, FreshWrites, LastWrite
<1>5. \A x \in Blocks, d \in Bids : Writing(x, d)' <=> Writing(x, d)
  <2> TAKE x \in Blocks, d \in Bids
  <2>1. CASE x = b
    BY Zenon, <1>0, <2>1 DEF Writing
  <2>2. CASE x # b
    BY Zenon, <1>0, <2>2 DEF Writing, Pending
  <2> QED BY Zenon, <2>1, <2>2
<1>6. \A d \in Bids : Quiet(d)' <=> Quiet(d)
  BY Zenon, <1>5 DEF Quiet
<1>7. \A x \in Blocks : Pending(x)' => x = b \/ (Pending(x) /\ req'[x] = req[x])
  BY Zenon, <1>2 DEF Pending
<1>8. Held'
  <2>1. ASSUME NEW x \in Blocks, Pending(x)'
        PROVE  x \in (BusyOf(w_busy) \cup CachedOf(p_busy) \cup Reading \cup leaked)'
    <3>1. CASE x = b
      BY <3>1, PoolsAssumption DEF CachedOf, Reading
    <3>2. CASE Pending(x)
      <4>1. x \in BusyOf(w_busy) \cup CachedOf(p_busy) \cup leaked
        BY Zenon, <1>1, <1>3, <3>2 DEF Held
      <4>2. ASSUME NEW d \in Bids, x = p_busy[d] PROVE x \in CachedOf(p_busy')
        <5>1. d # bid
          BY <3>2, <4>2, PoolsAssumption DEF Pending
        <5> QED BY <4>2, <5>1, PoolsAssumption DEF CachedOf
      <4> QED BY <4>1, <4>2 DEF CachedOf
    <3> QED BY Zenon, <1>7, <2>1, <3>1, <3>2
  <2>2. ASSUME NEW k \in DOMAIN w_busy, ~req'[w_busy[k].block].done
        PROVE  /\ req'[w_busy[k].block].op = "write"
               /\ w_busy[k].bid # NoBid => req'[w_busy[k].block].bid = w_busy[k].bid
    <3>1. w_busy[k].block \in Blocks /\ w_busy[k].block # b
      BY <1>1, BlocksOfPools DEF BusyOf
    <3>2. req'[w_busy[k].block] = req[w_busy[k].block]
      BY Zenon, <1>0, <3>1
    <3> QED BY Zenon, <1>1, <2>2, <3>2 DEF Held, Pending
  <2>3. ASSUME NEW d \in Bids, p_busy'[d] # NoBlock, ~req'[p_busy'[d]].done
        PROVE  req'[p_busy'[d]].bid = d
    <3>1. CASE d = bid
      <4>1. p_busy'[d] = b
        BY Zenon, <2>3, <3>1
      <4> QED BY Zenon, <1>0, <3>1, <4>1
    <3>2. CASE d # bid
      <4>1. p_busy'[d] = p_busy[d] /\ p_busy[d] # b /\ p_busy[d] # NoBlock
        BY Zenon, <2>3, <3>2
      <4>0. p_busy \in [Bids -> Blocks \cup {NoBlock}]
        BY Zenon, <1>1 DEF TypeOK
      <4>2. p_busy[d] \in Blocks
        BY Zenon, <2>3, <4>0, <4>1
      <4>3. req'[p_busy[d]] = req[p_busy[d]]
        BY Zenon, <1>0, <4>1, <4>2
      <4>4. Pending(p_busy[d]) => req[p_busy[d]].bid = d
        BY Zenon, <1>1, <4>1 DEF Held
      <4> QED BY Zenon, <2>3, <4>1, <4>3, <4>4 DEF Pending
    <3> QED BY Zenon, <3>1, <3>2
  <2>4. cpc' = "read" => req'[cblk'].bid = cbid'
    BY Zenon, <1>0
  <2> QED BY Zenon, <2>1, <2>2, <2>3, <2>4 DEF Held, Pending
<1>9. FreshWrites'
  <2>1. \A x, y \in Blocks, d \in Bids : Before(x, y, DiskOf[d]) => Before(x, y, DiskOf[d])'
    BY Zenon, <1>2, PoolsAssumption
  <2>2. ASSUME NEW x \in Blocks, NEW d \in Bids, Writing(x, d), Current(x, d)
        PROVE  Current(x, d)' /\ content'[x] = content[x]
    <3>1. d # bid
      BY Zenon, <1>4, <2>2 DEF Quiet
    <3> QED BY Zenon, <2>2, <3>1 DEF Current, Writing
  <2> QED BY Zenon, <1>1, <1>5, <2>1, <2>2, WritesKept DEF Fresh
<1>10. FreshBusy'
  <2> SUFFICES ASSUME NEW k \in DOMAIN w_busy, w_busy[k].bid # NoBid
               PROVE  content'[w_busy[k].block] = latest[w_busy[k].bid]
    BY Zenon DEF FreshBusy
  <2>1. w_busy[k].block \in Blocks /\ w_busy[k].block \in BusyOf(w_busy)
    BY Zenon, <1>1, BlocksOfPools DEF BusyOf
  <2> QED BY Zenon, <1>1, <2>1 DEF Fresh, FreshBusy
<1>11. Promise(b, bid)' /\ Delivered(b, bid)'
  BY Zenon, <1>0, <1>4, <1>6 DEF Promise, Delivered
<1>12. FreshCached'
  <2> SUFFICES ASSUME NEW d \in Bids, p_busy'[d] # NoBlock
               PROVE  Promise(p_busy[d], d)' /\ Delivered(p_busy[d], d)'
    BY Zenon DEF FreshCached
  <2>1. CASE d = bid
    <3>1. b = p_busy'[d]
      BY Zenon, <2>1
    <3> QED BY Zenon, <1>11, <2>1, <3>1
  <2>2. CASE d # bid
    <3>1. PICK y \in Blocks \ {b} : y = p_busy[d] /\ y = p_busy'[d]
      BY Zenon, <1>1, <2>2 DEF TypeOK
    <3>2. Promise(y, d) /\ Delivered(y, d)
      BY Zenon, <1>1, <2>2, <3>1, PoolsAssumption DEF Fresh, FreshCached
    <3>3. req'[y] = req[y] /\ content'[y] = content[y]
      <4>1. req'[y] = req[y]
        BY Zenon, <1>2, <3>1
      <4>2. p_busy[d] # NoBlock /\ d \in Bids \ {bid}
        BY Zenon, <2>2, <3>1, PoolsAssumption
      <4>3. content'[y] = content[y]
        BY Zenon, <3>1, <4>2
      <4> QED BY Zenon, <4>1, <4>3
    <3>4. Promise(y, d)' /\ Delivered(y, d)'
      BY Zenon, <1>6, <3>2, <3>3 DEF Promise, Delivered, Pending
    <3> QED BY Zenon, <3>1, <3>4
  <2> QED BY Zenon, <2>1, <2>2
<1>13. FreshRead'
  <2> SUFFICES ASSUME cpc' = "read" PROVE Promise(cblk, cbid)' /\ Delivered(cblk, cbid)'
    BY Zenon DEF FreshRead
  <2>1. b = cblk' /\ bid = cbid'
    BY Zenon
  <2> QED BY Zenon, <1>11, <2>1
<1> QED BY Zenon, <1>2, <1>8, <1>9, <1>10, <1>12, <1>13 DEF Fresh

-----------------------------------------------------------------------------
(* The sizes of the lists. *)

\* The facts about finite sets the proofs use.  (They are proved at the end of
\* module PoolsProofs.)
OneToOne(f, S, T) == f \in [S -> T] /\ \A x, y \in S : f[x] = f[y] => x = y
Onto(f, S, T) == \A y \in T : \E x \in S : f[x] = y
SetSizes ==
    /\ Cardinality({}) = 0
    /\ \A S : IsFiniteSet(S) => Cardinality(S) \in Nat
    /\ \A S, T : (IsFiniteSet(S) /\ T \subseteq S) => IsFiniteSet(T)
    /\ \A n \in Nat : IsFiniteSet(1..n) /\ Cardinality(1..n) = n
    /\ \A S, x : (IsFiniteSet(S) /\ x \notin S) => Cardinality(S \cup {x}) = Cardinality(S) + 1
    /\ \A S, x : (IsFiniteSet(S) /\ x \in S) => Cardinality(S \ {x}) = Cardinality(S) - 1
    /\ \A S, T : (IsFiniteSet(S) /\ IsFiniteSet(T) /\ S \cap T = {}) =>
         Cardinality(S \cup T) = Cardinality(S) + Cardinality(T)
    /\ \A S, T, f : (IsFiniteSet(S) /\ OneToOne(f, S, T) /\ Onto(f, S, T)) =>
         Cardinality(T) = Cardinality(S)
    /\ \A S, T, f : (/\ IsFiniteSet(S) /\ IsFiniteSet(T) /\ Cardinality(S) = Cardinality(T)
                     /\ OneToOne(f, S, T)) => Onto(f, S, T)

\* A set of blocks is finite.
LEMMA FiniteBlocks ==
    ASSUME SetSizes, NEW S \in SUBSET Blocks
    PROVE  IsFiniteSet(S) /\ Cardinality(S) \in Nat
  BY Zenon, PoolsAssumption DEF SetSizes

\* The size of a set of blocks that gains one.
LEMMA OneMoreBlock ==
    ASSUME SetSizes, NEW S \in SUBSET Blocks, NEW b, b \notin S
    PROVE  Cardinality(S \cup {b}) = Cardinality(S) + 1
  BY Zenon, FiniteBlocks DEF SetSizes

\* The size of a set of blocks that loses one.
LEMMA OneBlockLess ==
    ASSUME SetSizes, NEW S \in SUBSET Blocks, NEW b \in S
    PROVE  Cardinality(S \ {b}) = Cardinality(S) - 1
  BY Zenon, FiniteBlocks DEF SetSizes

\* The size of a list without blocks.
LEMMA NoBlocks == ASSUME SetSizes PROVE Cardinality({}) = 0
  BY Zenon DEF SetSizes

\* The size of a set of addresses.
LEMMA FiniteBids ==
    ASSUME SetSizes, NEW S \in SUBSET Bids
    PROVE  Cardinality(S) \in Nat
  BY Zenon, PoolsAssumption DEF SetSizes

\* The sizes of sets that are apart add up.
LEMMA ApartCardinality ==
    ASSUME SetSizes, NEW A \in SUBSET Blocks, NEW C \in SUBSET Blocks, A \cap C = {}
    PROVE  Cardinality(A \cup C) = Cardinality(A) + Cardinality(C)
  BY FiniteBlocks DEF SetSizes

\* The busy list is as long as it has blocks, and the hash map as large.
LEMMA BusyCardinality ==
    ASSUME SetSizes, NEW wb \in Seq(Entries), BusyOnce(wb)
    PROVE  Len(wb) = Cardinality(BusyOf(wb))
<1> DEFINE f == [i \in 1..Len(wb) |-> wb[i].block]
<1>1. Len(wb) \in Nat /\ DOMAIN wb = 1..Len(wb)
  OBVIOUS
<1>2. OneToOne(f, 1..Len(wb), BusyOf(wb)) /\ Onto(f, 1..Len(wb), BusyOf(wb))
  <2>1. f \in [1..Len(wb) -> BusyOf(wb)] /\ \A i \in 1..Len(wb) : f[i] = wb[i].block
    BY Zenon, <1>1 DEF BusyOf
  <2>2. \A i, j \in 1..Len(wb) : f[i] = f[j] => i = j
    BY Zenon, <1>1, <2>1 DEF BusyOnce
  <2>3. \A b \in BusyOf(wb) : \E i \in 1..Len(wb) : f[i] = b
    BY Zenon, <1>1, <2>1 DEF BusyOf
  <2> HIDE DEF f
  <2> QED BY Zenon, <2>1, <2>2, <2>3 DEF OneToOne, Onto
<1>3. IsFiniteSet(1..Len(wb)) /\ Cardinality(1..Len(wb)) = Len(wb)
  BY Zenon, <1>1 DEF SetSizes
<1> HIDE DEF f
<1> QED BY Zenon, <1>2, <1>3 DEF SetSizes

\* As many addresses are cached as blocks cache them (busy_blocks.size()).
LEMMA CachedCardinality ==
    ASSUME SetSizes, NEW pb \in [Bids -> Blocks \cup {NoBlock}], CachedOnce(pb)
    PROVE  Cardinality({d \in Bids : pb[d] # NoBlock}) = Cardinality(CachedOf(pb))
<1> DEFINE D == {d \in Bids : pb[d] # NoBlock}
           f == [d \in D |-> pb[d]]
<1>1. IsFiniteSet(D)
  BY Zenon, PoolsAssumption DEF SetSizes
<1>2. OneToOne(f, D, CachedOf(pb)) /\ Onto(f, D, CachedOf(pb))
  <2>1. f \in [D -> CachedOf(pb)] /\ \A d \in D : f[d] = pb[d]
    BY Zenon DEF CachedOf
  <2>2. \A c, d \in D : f[c] = f[d] => c = d
    BY Zenon, <2>1 DEF CachedOnce
  <2>3. \A b \in CachedOf(pb) : \E d \in D : f[d] = b
    BY Zenon, <2>1 DEF CachedOf
  <2> HIDE DEF f, D
  <2> QED BY Zenon, <2>1, <2>2, <2>3 DEF OneToOne, Onto
<1> HIDE DEF f, D
<1> QED BY Zenon, <1>1, <1>2 DEF SetSizes, D

\* The places being apart, every block has one owner.
LEMMA PlacesOneOwner == ASSUME SetSizes, TypeOK, Places PROVE OneOwner
<1>1. /\ w_free \subseteq Blocks /\ p_free \subseteq Blocks /\ user \subseteq Blocks
      /\ leaked \subseteq Blocks /\ Busy \subseteq Blocks /\ Cached \subseteq Blocks
      /\ Reading \subseteq Blocks
  BY Zenon, BlocksOfPools DEF TypeOK, Busy, Cached, BusyOf, CachedOf
<1>2. Busy = BusyOf(w_busy) /\ Cached = CachedOf(p_busy)
  BY Zenon DEF Busy, Cached, BusyOf, CachedOf
<1>3. Len(w_busy) = Cardinality(Busy)
  BY Zenon, <1>2, BusyCardinality DEF TypeOK, Places, Entries
<1>4. Cardinality({d \in Bids : p_busy[d] # NoBlock}) = Cardinality(Cached)
  BY Zenon, <1>2, CachedCardinality DEF TypeOK, Places
<1>5. Apart(w_free, Busy, p_free, Cached, user, leaked, Reading)
  BY Zenon, <1>2 DEF Places
<1> HIDE DEF Busy, Cached, Reading
<1> DEFINE s1 == w_free \cup Busy
           s2 == s1 \cup p_free
           s3 == s2 \cup Cached
           s4 == s3 \cup user
           s5 == s4 \cup leaked
           s6 == s5 \cup Reading
<1>6. /\ s1 \subseteq Blocks /\ s2 \subseteq Blocks /\ s3 \subseteq Blocks /\ s4 \subseteq Blocks
      /\ s5 \subseteq Blocks
  BY Zenon, <1>1
<1>7. /\ w_free \cap Busy = {} /\ s1 \cap p_free = {} /\ s2 \cap Cached = {} /\ s3 \cap user = {}
      /\ s4 \cap leaked = {} /\ s5 \cap Reading = {}
  BY Zenon, <1>5 DEF Apart
<1>8. /\ Cardinality(s1) = Cardinality(w_free) + Cardinality(Busy)
      /\ Cardinality(s2) = Cardinality(s1) + Cardinality(p_free)
      /\ Cardinality(s3) = Cardinality(s2) + Cardinality(Cached)
      /\ Cardinality(s4) = Cardinality(s3) + Cardinality(user)
      /\ Cardinality(s5) = Cardinality(s4) + Cardinality(leaked)
      /\ Cardinality(s6) = Cardinality(s5) + Cardinality(Reading)
  <2>1. Cardinality(s1) = Cardinality(w_free) + Cardinality(Busy)
    BY Zenon, <1>1, <1>7, ApartCardinality
  <2> HIDE DEF s1
  <2>2. Cardinality(s2) = Cardinality(s1) + Cardinality(p_free)
    BY Zenon, <1>1, <1>6, <1>7, ApartCardinality
  <2> HIDE DEF s2
  <2>3. Cardinality(s3) = Cardinality(s2) + Cardinality(Cached)
    BY Zenon, <1>1, <1>6, <1>7, ApartCardinality
  <2> HIDE DEF s3
  <2>4. Cardinality(s4) = Cardinality(s3) + Cardinality(user)
    BY Zenon, <1>1, <1>6, <1>7, ApartCardinality
  <2> HIDE DEF s4
  <2>5. Cardinality(s5) = Cardinality(s4) + Cardinality(leaked)
    BY Zenon, <1>1, <1>6, <1>7, ApartCardinality
  <2> HIDE DEF s5
  <2>6. Cardinality(s6) = Cardinality(s5) + Cardinality(Reading)
    BY Zenon, <1>1, <1>6, <1>7, ApartCardinality
  <2> QED BY Zenon, <2>1, <2>2, <2>3, <2>4, <2>5, <2>6
<1>9. s6 = w_free \cup Busy \cup p_free \cup Cached \cup user \cup leaked \cup Reading
  BY Zenon
<1> HIDE DEF s1, s2, s3, s4, s5, s6
<1>10. /\ Cardinality(w_free) \in Nat /\ Cardinality(Busy) \in Nat /\ Cardinality(p_free) \in Nat
       /\ Cardinality(Cached) \in Nat /\ Cardinality(user) \in Nat /\ Cardinality(leaked) \in Nat
       /\ Cardinality(Reading) \in Nat
  BY Zenon, <1>1, FiniteBlocks
<1>11. Cardinality(s6) = Cardinality(w_free) + Len(w_busy) + Cardinality(p_free)
           + Cardinality({d \in Bids : p_busy[d] # NoBlock})
           + Cardinality(user) + Cardinality(leaked) + Cardinality(Reading)
  BY Zenon, <1>3, <1>4, <1>8, <1>10
<1> QED BY Zenon, <1>9, <1>11 DEF OneOwner, Places

\* A list without some of its entries keeps the others (check_all_busy).
LEMMA CompactKeeps ==
    ASSUME SetSizes, NEW S, NEW s \in Seq(S), NEW K \in SUBSET DOMAIN s,
           NEW f \in [1..Cardinality(K) -> K], \A i, j \in DOMAIN f : i < j => f[i] < f[j],
           NEW t, t = [k \in DOMAIN f |-> s[f[k]]]
    PROVE  t \in Seq(S) /\ Keeps(t, s, K)
<1> DEFINE n == Cardinality(K)
<1>1. DOMAIN s = 1..Len(s) /\ Len(s) \in Nat /\ \A m \in K : m \in Nat /\ s[m] \in S
  OBVIOUS
<1>2. IsFiniteSet(K) /\ n \in Nat
  <2>1. IsFiniteSet(1..Len(s))
    BY Zenon, <1>1 DEF SetSizes
  <2>2. IsFiniteSet(K)
    BY Zenon, <1>1, <2>1 DEF SetSizes
  <2> QED BY Zenon, <2>2 DEF SetSizes
<1> HIDE DEF n
<1>3. f \in [1..n -> K] /\ \A i, j \in 1..n : i < j => f[i] < f[j]
  BY Zenon DEF n
<1>4. \A i, j \in 1..n : f[i] = f[j] => i = j
  <2> SUFFICES ASSUME NEW i \in 1..n, NEW j \in 1..n, f[i] = f[j], i # j PROVE FALSE
    BY Zenon
  <2>1. i < j \/ j < i
    BY <1>2
  <2>2. f[i] \in Nat /\ f[j] \in Nat /\ (f[i] < f[j] \/ f[j] < f[i])
    BY Zenon, <1>1, <1>3, <2>1
  <2> QED BY <2>2
<1>5. OneToOne(f, 1..n, K)
  BY Zenon, <1>3, <1>4 DEF OneToOne
<1>6. IsFiniteSet(1..n) /\ Cardinality(1..n) = n
  BY Zenon, <1>2 DEF SetSizes
<1>7. Onto(f, 1..n, K)
  BY Zenon, <1>2, <1>5, <1>6 DEF SetSizes, n
<1>8. \A m \in K : \E i \in 1..n : f[i] = m
  BY Zenon, <1>7 DEF Onto
<1>9. t \in Seq(S) /\ DOMAIN t = 1..n /\ \A k \in 1..n : t[k] = s[f[k]]
  <2>1. t = [k \in 1..n |-> s[f[k]]]
    BY Zenon, <1>3
  <2>2. \A k \in 1..n : s[f[k]] \in S
    BY Zenon, <1>1, <1>3
  <2>3. t \in [1..n -> S]
    BY Zenon, <2>1, <2>2
  <2>4. t \in Seq(S)
    BY Zenon, <1>2, <2>3, IsSequence
  <2> QED BY Zenon, <2>1, <2>4
<1>10. \A k, l \in 1..n : f[k] < f[l] => k < l
  <2> SUFFICES ASSUME NEW k \in 1..n, NEW l \in 1..n, f[k] < f[l], ~(k < l) PROVE FALSE
    BY Zenon
  <2>1. l < k \/ k = l
    BY <1>2
  <2>2. f[k] \in Nat /\ f[l] \in Nat
    BY Zenon, <1>1, <1>3
  <2> QED BY <1>3, <2>1, <2>2
<1>11. \A k \in DOMAIN t : \E m \in K : t[k] = s[m]
  BY Zenon, <1>3, <1>9
<1>12. \A k, l \in DOMAIN t : k < l => \E i, j \in K : i < j /\ t[k] = s[i] /\ t[l] = s[j]
  BY Zenon, <1>3, <1>9
<1>13. \A m \in K : \E k \in DOMAIN t : t[k] = s[m]
  BY Zenon, <1>8, <1>9
<1>14. ASSUME NEW i \in K, NEW j \in K, i < j
       PROVE  \E k, l \in DOMAIN t : k < l /\ t[k] = s[i] /\ t[l] = s[j]
  <2>1. PICK k \in 1..n, l \in 1..n : f[k] = i /\ f[l] = j
    BY Zenon, <1>8
  <2> QED BY Zenon, <1>9, <1>10, <1>14, <2>1
<1> QED BY Zenon, <1>9, <1>11, <1>12, <1>13, <1>14 DEF Keeps

\* check_all_busy moves blocks whose requests are over to the free list, and
\* keeps the other entries as they are.
LEMMA CheckAllBusyKeeps ==
    ASSUME SetSizes, NEW s \in Seq(Entries), BusyOnce(s), BidOnce(s), CheckAllBusy(s)
    PROVE  \E K \in SUBSET DOMAIN s :
             /\ \A i \in DOMAIN s \ K : req[s[i].block].done
             /\ w_free' = w_free \cup {s[i].block : i \in DOMAIN s \ K}
             /\ w_busy' \in Seq(Entries) /\ BusyOnce(w_busy') /\ BidOnce(w_busy')
             /\ BusyOf(w_busy') = {s[m].block : m \in K}
             /\ \A k \in DOMAIN w_busy' : \E m \in K : w_busy'[k] = s[m]
             /\ \A m \in K : \E k \in DOMAIN w_busy' : w_busy'[k] = s[m]
<1> DEFINE K == {i \in DOMAIN s : ~(i < StopAt(s) /\ req[s[i].block].done)}
<1>1. /\ w_free' = w_free \cup {s[i].block : i \in DOMAIN s \ K}
      /\ \E f \in [1..Cardinality(K) -> K] :
           /\ \A i, j \in DOMAIN f : i < j => f[i] < f[j]
           /\ w_busy' = [k \in DOMAIN f |-> s[f[k]]]
  BY Zenon DEF CheckAllBusy
<1>2. K \in SUBSET DOMAIN s /\ \A i \in DOMAIN s \ K : req[s[i].block].done
  BY Zenon
<1> HIDE DEF K
<1>3. w_busy' \in Seq(Entries) /\ Keeps(w_busy', s, K)
  BY Zenon, <1>1, <1>2, CompactKeeps
<1>4. BusyOnce(w_busy') /\ BidOnce(w_busy') /\ BusyOf(w_busy') = {s[m].block : m \in K}
  BY Zenon, <1>2, <1>3, KeepsBusy
<1>5. /\ \A k \in DOMAIN w_busy' : \E m \in K : w_busy'[k] = s[m]
      /\ \A m \in K : \E k \in DOMAIN w_busy' : w_busy'[k] = s[m]
  BY Zenon, <1>3 DEF Keeps
<1> QED BY Zenon, <1>1, <1>2, <1>3, <1>4, <1>5
=============================================================================
