------------------------------ MODULE SharedHeap ------------------------------
(***************************************************************************)
(* The shared heap of one process: allocate_or_null and deallocate over    *)
(* dlmalloc or over the allocator of Berkeley UPC, the three footprints,   *)
(* and upcxx::allocate, new_, new_array, delete_, delete_array on top.     *)
(***************************************************************************)
EXTENDS Integers, FiniteSets, FiniteSetsExt, Functions

CONSTANTS
  HeapBase, HeapSize,  \* the shared segment
  SizeMax,             \* the largest size_t of the run
  HeapTypes,           \* element types: [size, align, trivial]
  HeapCounts,          \* lengths of arrays the user asks for
  HeapBuilt,           \* how many elements are constructed before a constructor throws
  HeapLive             \* at most so many blocks are held in the run

\* The segment is not at address 0.  An alignment is a power of two; all that matters is
\* that it divides 16 or is a multiple of it.
ASSUME HeapAssumption ==
  /\ HeapBase \in Nat \ {0} /\ HeapSize \in Nat /\ SizeMax \in Nat /\ HeapLive \in Nat
  /\ HeapCounts \subseteq Nat /\ HeapBuilt \subseteq Nat
  /\ \A T \in HeapTypes : /\ T.size \in Nat \ {0} /\ T.align \in Nat \ {0}
                          /\ T.align \in {1, 2, 4, 8} \/ T.align % 16 = 0

VARIABLES
  heap,      \* the heap of this process
  heapHeld,  \* what the user holds: [at, type, n, made], at the address that was returned
  heapObjs,  \* addresses of the elements that are constructed
  heapWrapped  \* history: memory was handed out for a request whose size wrapped in size_t
heapVars == <<heap, heapHeld, heapObjs, heapWrapped>>

HeapUp(p, a) == ((p + a - 1) \div a) * a
WrapSize(n) == n % (SizeMax + 1)
Kinds == {"user", "rdzv", "misc"}
NoFootprint == [count |-> 0, bytes |-> 0]

\* heap_init_internal: the allocator over the segment, all footprints zero.
NewHeap(upc, base, size) ==
  [isinit |-> TRUE, upc |-> upc, base |-> base, size |-> size, blocks |-> {}, head |-> [a \in {} |-> 0],
   foot |-> [k \in Kinds |-> NoFootprint], fault |-> FALSE]

\* The places where the allocators may put len bytes; both are external and take the lowest.
Places(h, len, align) ==
  {a \in {HeapUp(e, align) : e \in {h.base} \cup {b.base + b.len : b \in h.blocks}} :
     /\ a + len <= h.base + h.size
     /\ \A b \in h.blocks : a + len <= b.base \/ b.base + b.len <= a}
upc_alloc(h, len) == IF Places(h, len, 16) = {} THEN 0 ELSE Min(Places(h, len, 16))
UsableSize(size) == HeapUp(size + 8, 16) - 8
mspace_memalign(h, align, size) ==
  IF Places(h, UsableSize(size), align) = {} THEN 0 ELSE Min(Places(h, UsableSize(size), align))

Charge(f, bytes) == [count |-> f.count + 1, bytes |-> f.bytes + bytes]
Credit(f, bytes) == [count |-> f.count - 1, bytes |-> f.bytes - bytes]

\* The words of the heap, after the words new have been stored.
Written(new, head) ==
  [a \in DOMAIN new \cup DOMAIN head |-> IF a \in DOMAIN new THEN new[a] ELSE head[a]]

\* Over UPC: too much is taken, and the pad and the footprint are kept below the block.  The
\* sum is one of size_t, and nothing checks that it does not wrap.
PadAlign(align) == IF align < 16 THEN 16 ELSE align
PaddedSize(size, align) == WrapSize(size + PadAlign(align))
PaddedAllocate(h, size, align0, kind) ==
  LET align == PadAlign(align0)
      len   == PaddedSize(size, align0)
      base  == upc_alloc(h, len)
      user  == ((base + align) \div align) * align
      head  == [a \in {user - 8, user - 16} |-> IF a = user - 8 THEN user - base ELSE len]
  IN  [p |-> user,
       h |-> [h EXCEPT !.blocks = @ \cup {[base |-> base, at |-> user, len |-> len, kind |-> kind]},
                       !.head = Written(head, @), !.foot[kind] = Charge(@, len)]]
MspaceAllocate(h, size, align, kind) ==
  LET p == mspace_memalign(h, align, size) IN
  IF p = 0 THEN [p |-> 0, h |-> h]
  ELSE [p |-> p,
        h |-> [h EXCEPT !.blocks = @ \cup {[base |-> p, at |-> p, len |-> UsableSize(size), kind |-> kind]},
                        !.foot[kind] = Charge(@, UsableSize(size))]]
\* What upcxxi_upc_alloc does when memory is out is the end of the job, not a step of it.
CanAllocate(h, size, align) == h.upc => upc_alloc(h, PaddedSize(size, align)) # 0
allocate_or_null(h, size, align, kind) ==
  IF h.upc THEN PaddedAllocate(h, size, align, kind) ELSE MspaceAllocate(h, size, align, kind)

\* An address the allocator did not hand out, or a heap that is not there, is a fault.
Freed(h, base, bytes, kind) ==
  [h EXCEPT !.fault = @ \/ ~h.isinit \/ ~\E b \in h.blocks : b.base = base,
            !.blocks = {b \in @ : b.base # base}, !.foot[kind] = Credit(@, bytes),
            !.head = Restrict(@, {a \in DOMAIN @ : \E b \in h.blocks : b.base # base /\ b.base <= a /\ a < b.base + b.len})]
Word(h, a) == IF a \in DOMAIN h.head THEN h.head[a] ELSE 0
UpcDeallocate(h, p, kind) == Freed(h, p - Word(h, p - 8), Word(h, p - 16), kind)
MspaceDeallocate(h, p, kind) ==
  Freed(h, p, IF \E b \in h.blocks : b.at = p THEN (CHOOSE b \in h.blocks : b.at = p).len ELSE 0, kind)
deallocate(h, p, kind) ==
  CASE p = 0 -> h
    [] p # 0 /\ h.upc  -> UpcDeallocate(h, p, kind)
    [] p # 0 /\ ~h.upc -> MspaceDeallocate(h, p, kind)

-----------------------------------------------------------------------------
HeapInit == /\ heap = NewHeap(FALSE, HeapBase, HeapSize)
            /\ heapHeld = {} /\ heapObjs = {} /\ heapWrapped = FALSE
\* A process that is linked with UPC, chosen while nothing is allocated.
UseUpcAlloc == /\ heapHeld = {} /\ ~heap.upc
               /\ heap' = NewHeap(TRUE, HeapBase, HeapSize) /\ UNCHANGED <<heapHeld, heapObjs, heapWrapped>>

Room == Cardinality(heapHeld) < HeapLive
Elements(at, T, n) == {at + i * T.size : i \in 0..n - 1}

\* The sum of PaddedSize wraps: what is handed out is smaller than its own header and pad.
PadWraps(h, size, align) == h.upc /\ size + PadAlign(align) > SizeMax

\* upcxx::allocate<T>(n): no object is made, and the product is not checked.
AllocateN(T, n) ==
  LET size == WrapSize(n * T.size)
      got  == allocate_or_null(heap, size, T.align, "user")
  IN
  /\ Room /\ CanAllocate(heap, size, T.align)
  /\ heap' = got.h
  /\ heapHeld' = heapHeld \cup (IF got.p = 0 THEN {} ELSE {[at |-> got.p, type |-> T, n |-> n, made |-> "raw"]})
  /\ heapWrapped' = (PadWraps(heap, size, T.align) \/ (got.p # 0 /\ n * T.size > SizeMax))
  /\ UNCHANGED heapObjs

\* new_: the constructor may throw, and then the memory goes back.
New(T, throws) ==
  LET got == allocate_or_null(heap, T.size, T.align, "user") IN
  /\ Room /\ CanAllocate(heap, T.size, T.align) /\ heapWrapped' = PadWraps(heap, T.size, T.align)
  /\ heap' = IF throws THEN deallocate(got.h, got.p, "user") ELSE got.h
  /\ IF got.p = 0 \/ throws THEN UNCHANGED <<heapHeld, heapObjs>>
     ELSE /\ heapHeld' = heapHeld \cup {[at |-> got.p, type |-> T, n |-> 1, made |-> "new"]}
          /\ heapObjs' = heapObjs \cup {got.p}

\* Faulty variant: the elements follow the count without alignment.
PaddingUnaligned(T) == 8

\* The count of an array sits at the front of its block, the elements behind it, aligned.
Padding(T) == HeapUp(8, T.align)
TooMany(T, n) == n > (SizeMax - Padding(T)) \div T.size

\* new_array: the constructor of element built + 1 throws, when there is one; those before
\* it are destructed and the memory goes back.
NewArray(T, n, built) ==
  LET size  == WrapSize(Padding(T) + WrapSize(n * T.size))
      align == IF T.align < 8 THEN 8 ELSE T.align
      got   == allocate_or_null(heap, size, align, "user")
      elts  == got.p + Padding(T)
      h     == [got.h EXCEPT !.head = Written([a \in {got.p} |-> n], @)]
  IN
  /\ Room /\ built \in 0..n /\ (T.trivial => built = n)
  /\ IF TooMany(T, n) THEN UNCHANGED heapVars
     ELSE /\ CanAllocate(heap, size, align) /\ heapWrapped' = PadWraps(heap, size, align)
          /\ heap' = CASE got.p = 0 -> heap
                       [] got.p # 0 /\ built = n -> h
                       [] got.p # 0 /\ built < n -> deallocate(h, got.p, "user")
          /\ IF got.p = 0 \/ built < n THEN UNCHANGED <<heapHeld, heapObjs>>
             ELSE /\ heapHeld' = heapHeld \cup {[at |-> elts, type |-> T, n |-> n, made |-> "array"]}
                  /\ heapObjs' = heapObjs \cup Elements(elts, T, n)

Deallocate(o) ==
  /\ o.made = "raw" /\ heap' = deallocate(heap, o.at, "user")
  /\ heapHeld' = heapHeld \ {o} /\ UNCHANGED <<heapObjs, heapWrapped>>
Delete(o) ==
  /\ o.made = "new" /\ heap' = deallocate(heap, o.at, "user")
  /\ heapHeld' = heapHeld \ {o} /\ heapObjs' = heapObjs \ {o.at} /\ UNCHANGED heapWrapped
DeleteArray(o) ==
  LET ptr == o.at - Padding(o.type) IN
  /\ o.made = "array" /\ heap' = deallocate(heap, ptr, "user")
  /\ heapHeld' = heapHeld \ {o} /\ heapObjs' = heapObjs \ Elements(o.at, o.type, Word(heap, ptr))
  /\ UNCHANGED heapWrapped

\* The program goes on as long as no request has wrapped; what happens in memory after one
\* that has is undefined.
HeapNext ==
  /\ ~heapWrapped
  /\ \/ UseUpcAlloc
     \/ \E T \in HeapTypes, n \in HeapCounts : AllocateN(T, n)
     \/ \E T \in HeapTypes, throws \in BOOLEAN : New(T, throws)
     \/ \E T \in HeapTypes, n \in HeapCounts : \E built \in HeapBuilt \cup {n} : NewArray(T, n, built)
     \/ \E o \in heapHeld : Deallocate(o) \/ Delete(o) \/ DeleteArray(o)

HeapSpec == HeapInit /\ [][HeapNext]_heapVars

-----------------------------------------------------------------------------
\* The footprints are those of the blocks that are allocated.
FootprintsExact(h) ==
  \A k \in Kinds : LET mine == {b \in h.blocks : b.kind = k} IN
    /\ h.foot[k].count = Cardinality(mine)
    /\ h.foot[k].bytes = MapThenSumSet(LAMBDA b : b.len, mine)
\* Every block is inside the segment, apart from the others, and over UPC has room for its header.
BlocksApart(h) ==
  \A b \in h.blocks :
    /\ h.base <= b.base /\ b.base + b.len <= h.base + h.size
    /\ h.upc => b.at - b.base >= 16
    /\ \A c \in h.blocks \ {b} : b.base + b.len <= c.base \/ c.base + c.len <= b.base
\* What the user holds lies in one block, aligned, big enough for its elements, and there is
\* no block nobody holds: neither a constructor that throws nor a long array leaks or is cut.
HeldExact ==
  /\ Cardinality(heapHeld) = Cardinality(heap.blocks)
  /\ \A o \in heapHeld : \E b \in heap.blocks :
       /\ b.at = IF o.made = "array" THEN o.at - Padding(o.type) ELSE o.at
       /\ o.at % o.type.align = 0 /\ o.at + o.n * o.type.size <= b.base + b.len
  /\ heapObjs = UNION {Elements(o.at, o.type, o.n) : o \in {x \in heapHeld : x.made # "raw"}}
\* allocate, new_ and their kin keep the shared heap, its headers and its footprints exact,
\* over either allocator, when memory runs out, when an array is too long for new_array and
\* when constructors throw; except after a request the code itself lets wrap: n * sizeof(T)
\* in allocate<T>(n), or size + alignment over UPC.
HeapExact == heapWrapped \/ (~heap.fault /\ FootprintsExact(heap) /\ BlocksApart(heap) /\ HeldExact)
===============================================================================
