------------------------------ MODULE GlobalPtr ------------------------------
(***************************************************************************)
(* Global pointers: [rank_, raw_ptr_, heap_idx_, dynamic_kind_] and the     *)
(* static kind of the type.  The raw address is the owner's; a process of   *)
(* the owner's local team maps the owner's segment at an address of its     *)
(* own, and translates between the two by a difference taken modulo the     *)
(* word, kept in tables built at start-up.                                  *)
(*                                                                         *)
(* One pointer travels: it is made from an address of some process, moved   *)
(* by arithmetic, cast between kinds, sent to other ranks and remembered;   *)
(* gpRef and gpEarlier are history: the byte the program meant.             *)
(***************************************************************************)
EXTENDS Integers, Sequences, FiniteSets

CONSTANTS
    GpRanks,      \* 0 .. rank_n-1
    GpPeers,      \* per rank, its local team: an interval of ranks (backend::pshm_peer_lb, ub)
    GpView,       \* GpView[me][r]: where process me maps the segment of its peer r
    GpSize,       \* size of every host segment
    GpDevices,    \* device segments: records [rank, heap, kind, base, size]
    GpHalf,       \* 2^(bits of gex_AM_Arg_t); a word is two of them
    GpElement,    \* sizeof(T) = alignof(T)
    GpAddresses,  \* addresses the program may ask about
    GpSteps       \* BOUND: operations applied to one pointer

(* Ranks and addresses fit a word; the local team is an interval of ranks,  *)
(* and a process maps the segments of its members apart.  Byte differences  *)
(* inside a segment fit a ptrdiff_t.                                        *)
ASSUME GlobalPtrAssumption ==
    /\ GpHalf \in Nat \ {0, 1} /\ GpElement \in Nat \ {0}
    /\ GpSize \in Nat \ {0} /\ 2 * GpSize < GpHalf * GpHalf
    /\ \E n \in 1 .. GpHalf * GpHalf : GpRanks = 0 .. n - 1
    /\ \A me \in GpRanks : \E lb, ub \in GpRanks : me \in lb .. ub /\ GpPeers[me] = lb .. ub
    /\ \A me \in GpRanks : \A r \in GpPeers[me] :
          GpView[me][r] \in Nat \ {0} /\ GpView[me][r] + GpSize < GpHalf * GpHalf
    /\ \A me \in GpRanks : \A r, s \in GpPeers[me] :
          r = s \/ GpView[me][r] + GpSize <= GpView[me][s] \/ GpView[me][s] + GpSize <= GpView[me][r]
    /\ \A d \in GpDevices :
          /\ d.rank \in GpRanks /\ d.heap \in Nat \ {0} /\ d.kind \in {"cuda_device", "hip_device"}
          /\ d.base \in Nat \ {0} /\ d.size \in Nat
          /\ d.base + d.size < GpHalf * GpHalf /\ 2 * d.size < GpHalf * GpHalf
          /\ \A e \in GpDevices : d.rank = e.rank /\ d.heap = e.heap => d = e
    /\ GpAddresses \subseteq 0 .. GpHalf * GpHalf - 1

VARIABLES gp, gpAt, gpRef, gpEarlier, gpSteps
gpVars == <<gp, gpAt, gpRef, gpEarlier, gpSteps>>

GpWord == GpHalf * GpHalf
GpKinds == {"host", "cuda_device", "hip_device", "any"}
Addr(n) == n % GpWord                     \* std::uintptr_t arithmetic

---------------------------------------------------------------------------
(* The tables of init_localheap_tables, for process me *)

PeerLb(me) == CHOOSE r \in GpPeers[me] : \A s \in GpPeers[me] : r <= s
LocalMinusRemote(me, r) == Addr(GpView[me][r] - GpView[r][r])

(* the peers of me in the order of their keys, which differ *)
PeersBy(me, key) ==
    [i \in 1 .. Cardinality(GpPeers[me]) |->
       CHOOSE p \in GpPeers[me] : Cardinality({q \in GpPeers[me] : key[q] <= key[p]}) = i]

(* Faulty variant: peers left in rank order *)
OwnerPeerByRank(me) == PeersBy(me, [r \in GpPeers[me] |-> r])

(* peers by the address of their segment; pshm_owner_vbase is GpView of it *)
OwnerPeer(me) == PeersBy(me, GpView[me])

gp_rank_is_local(me, r) == Addr(r - PeerLb(me)) < Cardinality(GpPeers[me])

(* upper_bound: the elements up to the first one above the address *)
KeyIx(me, addr) ==
    LET above == {i \in DOMAIN OwnerPeer(me) : addr < GpView[me][OwnerPeer(me)[i]]}
    IN  IF above = {} THEN Len(OwnerPeer(me))
        ELSE (CHOOSE i \in above : \A j \in above : i <= j) - 1

InSomeSegment(me, addr) ==
    /\ KeyIx(me, addr) > 0
    /\ Addr(addr - GpView[me][OwnerPeer(me)[KeyIx(me, addr)]]) <= GpSize

Nowhere == <<0, 0>>

globalize_memory(me, addr) ==
    IF InSomeSegment(me, addr)
    THEN LET peer == OwnerPeer(me)[KeyIx(me, addr)]
         IN  <<peer, Addr(addr - LocalMinusRemote(me, peer))>>
    ELSE Nowhere

localize_memory(me, rank, raw) ==
    IF raw = 0 THEN 0 ELSE Addr(raw + LocalMinusRemote(me, rank))

globalize_memory_nonnull(me, rank, addr) == Addr(addr - LocalMinusRemote(me, rank))

---------------------------------------------------------------------------
(* An address crosses in two gex_AM_Arg_t, signed 32-bit integers *)

Signed(u, n) == IF 2 * u < n THEN u ELSE u - n
encode_lo(u) == Signed(u % GpHalf, GpHalf)
encode_hi(u) == Signed(u, GpWord) \div GpHalf
decode(lo, hi) == Addr(hi * GpHalf + (lo % GpHalf))

---------------------------------------------------------------------------
(* The class *)

Gptr(rank, raw, heap, dyn, kind) ==
    [rank |-> rank, raw |-> raw, heap |-> heap, dyn |-> dyn, kind |-> kind]
NullGptr(kind) == Gptr(0, 0, 0, kind, kind)

is_null(g) == g.heap = 0 /\ g.raw = 0
is_local(me, g) ==
    /\ g.kind = "host" \/ g.heap = 0
    /\ g.raw = 0 \/ gp_rank_is_local(me, g.rank)
dynamic_kind(g) == IF g.kind = "any" THEN g.dyn ELSE g.kind

(* Bounds of the segment a pointer names, as [base, size]; a device segment *)
(* that does not exist has none.                                            *)
Bounds(g) ==
    IF g.heap = 0 THEN {<<GpView[g.rank][g.rank], GpSize>>}
    ELSE {<<d.base, d.size>> : d \in {e \in GpDevices :
            e.rank = g.rank /\ e.heap = g.heap /\ e.kind = g.dyn}}

(* validate_global_ptr: known says whether the bounds can be had without    *)
(* communication.                                                           *)
validate_global_ptr(g, allow_null, known) ==
    IF g.raw = 0 THEN g.heap = 0 /\ g.rank = 0 /\ allow_null
    ELSE /\ g.rank \in GpRanks
         /\ g.kind = "host" => g.heap = 0
         /\ g.kind \notin {"host", "any"} => g.heap # 0
         /\ g.dyn # "any" /\ g.kind \in {"any", g.dyn}
         /\ (g.dyn = "host") = (g.heap = 0)
         /\ known => \E b \in Bounds(g) : g.raw >= b[1] /\ g.raw <= b[1] + b[2] - 1
         /\ g.raw % GpElement = 0

(* operator ==, and the function objects: each overwrites its answer field  *)
(* by field, from the least to the most significant.                        *)
equal(a, b) == a.heap = b.heap /\ a.rank = b.rank /\ a.raw = b.raw
less(a, b) ==
    LET raw  == a.raw < b.raw
        rank == (raw /\ a.rank = b.rank) \/ a.rank < b.rank
    IN  (rank /\ a.heap = b.heap) \/ a.heap < b.heap
less_equal(a, b) ==
    LET raw  == a.raw <= b.raw
        rank == (raw /\ a.rank = b.rank) \/ a.rank < b.rank
    IN  (rank /\ a.heap = b.heap) \/ a.heap < b.heap
greater(a, b) ==
    LET raw  == a.raw > b.raw
        rank == (raw /\ a.rank = b.rank) \/ a.rank > b.rank
    IN  (rank /\ a.heap = b.heap) \/ a.heap > b.heap
greater_equal(a, b) ==
    LET raw  == a.raw >= b.raw
        rank == (raw /\ a.rank = b.rank) \/ a.rank > b.rank
    IN  (rank /\ a.heap = b.heap) \/ a.heap > b.heap

(* operators <, <=, > and >=: the addresses alone, a partial order *)
before(a, b) == a.raw < b.raw

(* operator-: the pointers name elements of one segment *)
minus(a, b) == Signed(Addr(a.raw - b.raw), GpWord) \div GpElement

---------------------------------------------------------------------------
(* What the program means: nothing, or byte off of a segment *)

Nothing == [owner |-> 0, heap |-> 0, off |-> -1]
Byte(o, h, n) == [owner |-> o, heap |-> h, off |-> n]
BaseOf(ref) ==
    IF ref.heap = 0 THEN GpView[ref.owner][ref.owner]
    ELSE (CHOOSE d \in GpDevices : d.rank = ref.owner /\ d.heap = ref.heap).base
SizeOf(ref) ==
    IF ref.heap = 0 THEN GpSize
    ELSE (CHOOSE d \in GpDevices : d.rank = ref.owner /\ d.heap = ref.heap).size

(* The byte that process me sees at an address: of the segment holding it,  *)
(* or else the end of the one that stops there.                             *)
Holding(me, addr) == {r \in GpPeers[me] : addr - GpView[me][r] \in 0 .. GpSize - 1}
Ending(me, addr)  == {r \in GpPeers[me] : addr - GpView[me][r] = GpSize}
Touching(me, addr) == IF Holding(me, addr) # {} THEN Holding(me, addr) ELSE Ending(me, addr)
Seen(me, addr) ==
    LET r == CHOOSE x \in Touching(me, addr) : TRUE
    IN  IF Touching(me, addr) = {} THEN Nothing ELSE Byte(r, 0, addr - GpView[me][r])

Becomes(g, at, ref) ==
    /\ gpSteps < GpSteps /\ gpSteps' = gpSteps + 1
    /\ gp' = g /\ gpAt' = at /\ gpRef' = ref

---------------------------------------------------------------------------
(* Operations *)

GpInit ==
    /\ gp = NullGptr("host") /\ gpRef = Nothing /\ gpAt = 0 /\ gpSteps = 0
    /\ gpEarlier = <<NullGptr("host"), Nothing>>

(* to_global_ptr: the address must be in a segment of the local team *)
to_global_ptr(me, addr) ==
    /\ addr = 0 \/ Seen(me, addr).off \in 0 .. GpSize - 1
    /\ LET where == globalize_memory(me, addr)
       IN  Becomes(IF addr = 0 THEN NullGptr("host")
                   ELSE Gptr(where[1], where[2], 0, "host", "host"), me, Seen(me, addr))
    /\ UNCHANGED gpEarlier

(* try_global_ptr: any address *)
try_global_ptr(me, addr) ==
    /\ LET where == IF addr = 0 THEN Nowhere ELSE globalize_memory(me, addr)
       IN  Becomes(Gptr(where[1], where[2], 0, "host", "host"), me, Seen(me, addr))
    /\ UNCHANGED gpEarlier

(* device_allocator::to_global_ptr, for an address of one's own device segment *)
device_to_global_ptr(d, off) ==
    /\ off \in 0 .. d.size - 1 /\ off % GpElement = 0
    /\ Becomes(Gptr(d.rank, d.base + off, d.heap, d.kind, d.kind), d.rank, Byte(d.rank, d.heap, off))
    /\ UNCHANGED gpEarlier

(* +=, -=, ++ and --; the program keeps to the segment *)
Advance(diff) ==
    LET g == [gp EXCEPT !.raw = Addr(@ + diff * GpElement)]
    IN  /\ ~is_null(gp)
        /\ gpRef.off + diff * GpElement \in 0 .. SizeOf(gpRef) - 1
        /\ Becomes(g, gpAt, [gpRef EXCEPT !.off = @ + diff * GpElement])
        /\ UNCHANGED gpEarlier

(* a byte offset and a new element type in one: a member of the object      *)
OffsetBy(bytes) ==
    LET g == [gp EXCEPT !.raw = Addr(@ + bytes)]
    IN  /\ ~is_null(gp) /\ gpRef.off < SizeOf(gpRef) /\ bytes % GpElement = 0
        /\ gpRef.off + bytes \in 0 .. SizeOf(gpRef) - 1
        /\ Becomes(g, gpAt, [gpRef EXCEPT !.off = @ + bytes])
        /\ UNCHANGED gpEarlier

(* implicit conversion to kind any; static_kind_cast, which the caller      *)
(* promises to be right; dynamic_kind_cast, which finds out                 *)
to_any ==
    /\ gp.kind # "any"
    /\ Becomes([gp EXCEPT !.kind = "any"], gpAt, gpRef)
    /\ UNCHANGED gpEarlier

static_kind_cast(k) ==
    /\ k = gp.kind \/ k = "any" \/ gp.kind = "any"
    /\ is_null(gp) \/ k \in {"any", gp.dyn}
    /\ Becomes([gp EXCEPT !.kind = k], gpAt, gpRef)
    /\ UNCHANGED gpEarlier

dynamic_kind_cast(k) ==
    /\ k = gp.kind \/ k = "any" \/ gp.kind = "any"
    /\ IF k = "any" \/ k = dynamic_kind(gp)
       THEN Becomes([gp EXCEPT !.kind = k], gpAt, gpRef)
       ELSE Becomes(NullGptr(k), gpAt, Nothing)
    /\ UNCHANGED gpEarlier

(* a pointer is trivially serializable: it travels to another rank as its bytes
   (casts of the element type leave these alone and are no step) *)
Travel(to) ==
    /\ to # gpAt
    /\ Becomes(gp, to, gpRef)
    /\ UNCHANGED gpEarlier

Remember ==
    /\ gpEarlier # <<gp, gpRef>>
    /\ Becomes(gp, gpAt, gpRef)
    /\ gpEarlier' = <<gp, gpRef>>

GpNext ==
    \/ \E me \in GpRanks, a \in GpAddresses : to_global_ptr(me, a)
    \/ \E me \in GpRanks, a \in GpAddresses : try_global_ptr(me, a)
    \/ \E d \in GpDevices : \E n \in 0 .. d.size - 1 : device_to_global_ptr(d, n)
    \/ \E n \in {-2, -1, 1, 2} : Advance(n)
    \/ \E n \in 1 .. GpSize : OffsetBy(n)
    \/ to_any
    \/ \E k \in GpKinds : static_kind_cast(k)
    \/ \E k \in GpKinds : dynamic_kind_cast(k)
    \/ \E r \in GpRanks : Travel(r)
    \/ Remember

GpSpec == GpInit /\ [][GpNext]_gpVars

---------------------------------------------------------------------------
(* Properties *)

NamesItsByte(g, ref) ==
    IF ref = Nothing THEN is_null(g) /\ g.rank = 0
    ELSE g.rank = ref.owner /\ g.heap = ref.heap /\ g.raw = BaseOf(ref) + ref.off

LocalRoundTrip(me, g, ref) ==
    is_local(me, g) /\ ref # Nothing =>
        LET addr == localize_memory(me, g.rank, g.raw)
        IN  /\ addr = GpView[me][ref.owner] + ref.off
            /\ globalize_memory_nonnull(me, g.rank, addr) = g.raw
            /\ ref.off < GpSize => globalize_memory(me, addr) = <<g.rank, g.raw>>

Lexicographic(a, b) ==
    \/ a.heap < b.heap
    \/ a.heap = b.heap /\ a.owner < b.owner
    \/ a.heap = b.heap /\ a.owner = b.owner /\ a.off < b.off

(* Whatever addresses, arithmetic, casts and messages a pointer went        *)
(* through, it names the byte the program meant, with the owner's address,  *)
(* and the same byte on every rank of the owner's local team: local() gives *)
(* the address that process maps it at and the way back gives the pointer.  *)
(* validate_global_ptr accepts it exactly when it is null or inside the     *)
(* segment and aligned (try_global_ptr accepts the address one past the     *)
(* end).  The function objects of namespace std agree with the order by     *)
(* device heap, rank and byte, and operator- counts elements.  An address   *)
(* cut in two active message arguments is put together again.               *)
PointersExact ==
    LET g == gp  ref == gpRef  h == gpEarlier[1]  ref2 == gpEarlier[2]
    IN  /\ NamesItsByte(g, ref)
        /\ \A me \in GpRanks : LocalRoundTrip(me, g, ref)
        /\ is_local(gpAt, g) <=> ref.heap = 0 /\ (ref = Nothing \/ ref.owner \in GpPeers[gpAt])
        /\ validate_global_ptr(g, TRUE, TRUE) <=>
              \/ ref = Nothing
              \/ ref.off < SizeOf(ref) /\ g.raw % GpElement = 0
        /\ equal(g, h) <=> ref = ref2
        /\ less(g, h) <=> Lexicographic(ref, ref2)
        /\ less_equal(g, h) <=> ~ less(h, g)
        /\ greater(g, h) <=> less(h, g)
        /\ greater_equal(g, h) <=> ~ less(g, h)
        /\ ref # Nothing /\ ref2 # Nothing /\ ref.owner = ref2.owner /\ ref.heap = ref2.heap
              => /\ minus(g, h) = (ref.off - ref2.off) \div GpElement
                 /\ before(g, h) <=> less(g, h)
        /\ decode(encode_lo(g.raw), encode_hi(g.raw)) = g.raw
=============================================================================
