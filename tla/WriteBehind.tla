----------------------------- MODULE WriteBehind -----------------------------
(* wbtl_file: a file that collects the blocks written to it in two write      *)
(* buffers and puts a full buffer wherever the disk has room, with a map from *)
(* the addresses of its clients to those of the disk. The worker thread of    *)
(* its queue reads and writes; the client discards blocks and enlarges the    *)
(* file beside it. The free regions are those of FreeSpace, whose operations  *)
(* the code repeats. A byte of the model is the unit of block sizes.          *)
EXTENDS FreeSpace, Sequences, TLC

CONSTANTS SizeOf,           \* logical address |-> size of the block there
          write_block_size,
          Sizes,            \* what set_size is called with
          MaxWrites,        \* writes of a behaviour; the n-th one writes n
          May,              \* of {"race", "full"}, what the code does not stand
          Null

VARIABLES obj, ref

Offsets == DOMAIN SizeOf
Unmapped == -1
Units(pos, size) == pos..(pos + size - 1)

-----------------------------------------------------------------------------
(* The free space.                                                           *)

Space(s) == [free_space |-> s.free, free_bytes |-> s.fb, disk_bytes |-> s.sz]
With(s, D) == [s EXCEPT !.free = D.free_space @@ <<>>, !.fb = D.free_bytes]

check_corruption(s, pos, size) == DoubleDeallocation(s.free, pos, size)
add_free(s, pos, size) ==
    IF check_corruption(s, pos, size) THEN [s EXCEPT !.err = TRUE]
    ELSE With(s, add_free_region(Space(s), pos, size))
get_next_write_block_small(s, p) == With(s, TakeFrom(Space(s), p, write_block_size - 1))
get_next_write_block(s, p) == With(s, TakeFrom(Space(s), p, write_block_size))

(* The backend is extended, too.                                             *)
Enlarged(s, n, from) ==
    [add_free(s, from, n - s.sz) EXCEPT
        !.sz = n, !.disk = [p \in 0..(n - 1) |-> IF p < s.sz THEN s.disk[p] ELSE 0] @@ <<>>]
set_size_overlapping(s, n) == Enlarged(s, n, IF s.sz = 0 THEN 0 ELSE s.sz - 1)
set_size(s, n) == Enlarged(s, n, s.sz)

Without(f, x) == [y \in DOMAIN f \ {x} |-> f[y]] @@ <<>>
discard_mapped(s, offset, size) ==
    IF offset \notin DOMAIN s.am THEN s
    ELSE LET p == s.am[offset]
         IN  [add_free([s EXCEPT !.am = Without(s.am, offset)], p, size) EXCEPT
                 !.disk = [q \in DOMAIN s.disk |-> IF q \in Units(p, size) THEN 0 ELSE s.disk[q]] @@ <<>>]
discard(s, offset, size) ==
    IF offset \notin DOMAIN s.am THEN s
    ELSE LET p == s.am[offset]
         IN  [add_free([s EXCEPT !.am = Without(s.am, offset)], p, size) EXCEPT
                 !.rm = Without(s.rm, p),
                 !.disk = [q \in DOMAIN s.disk |-> IF q \in Units(p, size) THEN 0 ELSE s.disk[q]] @@ <<>>]

-----------------------------------------------------------------------------
(* Reading: from the current buffer, from the one before, or from the disk.  *)

InBuffer(s, i, p) == s.ba[i] # Unmapped /\ s.ba[i] <= p /\ p < s.ba[i] + write_block_size
Other(i) == 3 - i
sread_disk(s, offset, bytes) ==
    LET p == s.am[offset]
    IN  IF offset \notin DOMAIN s.am THEN {}
        ELSE IF InBuffer(s, s.cur, p) THEN {s.buf[s.cur][q - s.ba[s.cur]] : q \in Units(p, bytes)}
        ELSE {s.disk[q] : q \in Units(p, bytes)}
sread(s, offset, bytes) ==
    LET p == s.am[offset]
    IN  IF offset \notin DOMAIN s.am THEN {}
        ELSE IF InBuffer(s, s.cur, p) THEN {s.buf[s.cur][q - s.ba[s.cur]] : q \in Units(p, bytes)}
        ELSE IF InBuffer(s, Other(s.cur), p)
        THEN {s.buf[Other(s.cur)][q - s.ba[Other(s.cur)]] : q \in Units(p, bytes)}
        ELSE {s.disk[q] : q \in Units(p, bytes)}

(* Writing. A full buffer is given to the backend, whose earlier request has *)
(* been waited for, and the rest of its place on the disk is free.           *)
Fits(s, bytes) == bytes <= write_block_size - s.pos
RestFreed(s) ==
    IF s.ba[s.cur] # Unmapped /\ s.pos < write_block_size
    THEN add_free(s, s.ba[s.cur] + s.pos, write_block_size - s.pos) ELSE s
Served(s) ==
    IF s.req = <<>> THEN s
    ELSE [s EXCEPT !.req = <<>>,
                   !.disk = [p \in DOMAIN s.disk |-> IF p \in Units(s.req[1], write_block_size)
                                                     THEN s.req[2][p - s.req[1]] ELSE s.disk[p]] @@ <<>>]
start_write(s) ==
    IF s.ba[s.cur] = Unmapped THEN s ELSE [Served(s) EXCEPT !.req = <<s.ba[s.cur], s.buf[s.cur]>>]
Switched(s) ==
    LET t == [start_write(RestFreed(s)) EXCEPT !.cur = Other(s.cur)]
        fit == FirstFit(Space(t), write_block_size)
    IN  IF fit = {} THEN [t EXCEPT !.thrown = TRUE]
        ELSE LET p == CHOOSE p \in fit : TRUE
             IN  [get_next_write_block(t, p) EXCEPT !.ba[t.cur] = p, !.pos = 0]
Placed(s, offset, bytes, v) ==
    LET p == s.ba[s.cur] + s.pos
    IN  [s EXCEPT !.buf[s.cur] = [q \in DOMAIN s.buf[s.cur] |-> IF q \in Units(s.pos, bytes) THEN v ELSE s.buf[s.cur][q]] @@ <<>>,
                  !.am = (offset :> p) @@ s.am, !.rm = (p :> <<offset, bytes>>) @@ s.rm, !.pos = s.pos + bytes]

-----------------------------------------------------------------------------
vars == <<obj, ref>>

Idle == [pc |-> "idle", o |-> 0, v |-> 0]
Empty == [q \in 0..(write_block_size - 1) |-> 0] @@ <<>>
Init ==
    /\ obj = [am |-> <<>>, rm |-> <<>>, free |-> <<>>, fb |-> 0, sz |-> 0, disk |-> <<>>,
              buf |-> <<Empty, Empty>>, ba |-> <<Unmapped, Unmapped>>, cur |-> 2, pos |-> write_block_size,
              req |-> <<>>, w |-> Idle, d |-> {}, err |-> FALSE, thrown |-> FALSE, n |-> 0]
    /\ ref = <<>>

(* The client enlarges the file, when more room is needed.                   *)
SetSize(n) ==
    /\ n > obj.sz /\ \A k \in Sizes : k > obj.sz => n <= k
    /\ obj' = set_size(obj, n) /\ UNCHANGED ref

(* swrite, in its steps: is the block mapped; if so, discard it; a new       *)
(* buffer if it does not fit (in the free space without the mapping lock);   *)
(* into the buffer.                                                          *)
Write(o) ==
    /\ obj.w.pc = "idle" /\ o \notin obj.d /\ obj.n < MaxWrites /\ obj.sz > 0
    /\ obj' = [obj EXCEPT !.w = [pc |-> IF o \in DOMAIN obj.am THEN "discard" ELSE "switch", o |-> o, v |-> obj.n + 1], !.n = @ + 1]
    /\ UNCHANGED ref
WriteDiscards ==
    /\ obj.w.pc = "discard"
    /\ obj' = [discard(obj, obj.w.o, SizeOf[obj.w.o]) EXCEPT !.w.pc = "switch"] /\ UNCHANGED ref
(* What becomes of the free regions when a discard changes them meanwhile.   *)
Raced(s) == {s, [s EXCEPT !.free = obj.free, !.fb = obj.fb]}
WriteSwitches ==
    /\ obj.w.pc = "switch" /\ ~Fits(obj, SizeOf[obj.w.o])
    /\ "full" \notin May => ~Switched(obj).thrown
    /\ obj.d # {} => "race" \in May
    /\ \E s \in IF obj.d = {} THEN {Switched(obj)} ELSE Raced(Switched(obj)) :
        obj' = [s EXCEPT !.w = IF s.thrown THEN Idle ELSE [obj.w EXCEPT !.pc = "place"], !.thrown = FALSE]
    /\ UNCHANGED ref
WritePlaces ==
    /\ obj.w.pc \in {"switch", "place"} /\ Fits(obj, SizeOf[obj.w.o])
    /\ obj' = [Placed(obj, obj.w.o, SizeOf[obj.w.o], obj.w.v) EXCEPT !.w = Idle]
    /\ ref' = (obj.w.o :> obj.w.v) @@ ref

(* The client deletes a block it neither reads nor writes: the lock is taken, *)
(* and the block is discarded under it.                                       *)
DiscardBegins(o) ==
    /\ obj.d = {} /\ o \in DOMAIN ref /\ (obj.w.pc # "idle" => obj.w.o # o)
    /\ obj' = [obj EXCEPT !.d = {o}] /\ UNCHANGED ref
DiscardEnds(o) ==
    /\ o \in obj.d
    /\ obj' = [discard(obj, o, SizeOf[o]) EXCEPT !.d = {}]
    /\ ref' = Without(ref, o)

BackendServes == obj.req # <<>> /\ obj' = Served(obj) /\ UNCHANGED ref

Next ==
    \/ \E n \in Sizes : SetSize(n)
    \/ \E o \in Offsets : DiscardBegins(o) \/ DiscardEnds(o) \/ Write(o)
    \/ WriteDiscards \/ WriteSwitches \/ WritePlaces \/ BackendServes

-----------------------------------------------------------------------------
(* The maps are between addresses of blocks and of the disk, the buffers are *)
(* full or partly filled.                                                    *)
TypeOK == DOMAIN obj.am \subseteq Offsets /\ obj.cur \in 1..2 /\ obj.pos \in 0..write_block_size

(* Whatever block the worker would read next, sread delivers what was        *)
(* written to it last, from whichever of the buffers or from the disk, and   *)
(* however far the backend's writes are.                                     *)
LatestRead == obj.w.pc = "idle" => \A o \in DOMAIN ref \ obj.d : sread(obj, o, SizeOf[o]) = {ref[o]}

(* A unit of the disk is free, in one mapped block or in the rest of the     *)
(* current buffer, and only one of these; free_bytes counts the free ones.   *)
Mapped == UNION {Units(p, obj.rm[p][2]) : p \in DOMAIN obj.rm}
Rest == IF obj.ba[obj.cur] = Unmapped THEN {} ELSE Units(obj.ba[obj.cur] + obj.pos, write_block_size - obj.pos)
SpaceExact ==
    /\ Units(0, obj.sz) = FreeBytes(obj.free) \cup Mapped \cup Rest
    /\ Cardinality(FreeBytes(obj.free)) + Cardinality(Mapped) + Cardinality(Rest) = obj.sz
    /\ Cardinality(FreeBytes(obj.free)) = obj.fb /\ Separated(obj.free)

(* The two mappings are inverse to each other, and no two blocks share a     *)
(* place.                                                                    *)
MappingsInverse ==
    /\ \A o \in DOMAIN obj.am : obj.am[o] \in DOMAIN obj.rm /\ obj.rm[obj.am[o]] = <<o, SizeOf[o]>>
    /\ \A p \in DOMAIN obj.rm : obj.rm[p][1] \in DOMAIN obj.am /\ obj.am[obj.rm[p][1]] = p

(* No region is given back twice: check_corruption never throws.             *)
NoDoubleFree == ~obj.err
=============================================================================
