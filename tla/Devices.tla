------------------------------- MODULE Devices -------------------------------
(***************************************************************************)
(* Devices and device allocators: the table of device heaps of each         *)
(* process, the GASNet endpoints and memory kinds behind its native part,   *)
(* the segments collectively allocated on the devices, the objects that     *)
(* own them and may be moved, and the events of asynchronous copies.        *)
(*                                                                         *)
(* dv[r] is the state of process r; every change of it is one of the        *)
(* operators from a state to a state below.  The ranks run one program,     *)
(* dvCalls; dvIn[r] is the collective call that rank r is inside.           *)
(***************************************************************************)
EXTENDS Integers, Sequences, FiniteSets, FiniteSetsExt

CONSTANTS
    DvRanks, DvPersonas,
    DvNative,       \* kinds that use GASNet memory kinds
    DvReference,    \* kinds that do not
    MaxNative,      \* max_heaps_cat[0]; index 0 is the host
    MaxReference,   \* max_heaps_cat[1]
    DvPrograms,     \* programs: sequences of calls [what, kind, eb, from, to, id, size, given],
                    \* id and size per rank; the ranks make the same calls
    DvCopying,      \* ranks whose personas copy meanwhile
    DvReportMax,    \* 2^44 - 1: the largest size reported
    DvRankMax,      \* 2^20 - 1: the largest rank reported
    DvCopyMax       \* BOUND: copies of a persona under way

ASSUME DevicesAssumption ==
    /\ IsFiniteSet(DvRanks) /\ DvRanks # {} /\ DvRanks \subseteq Nat
    /\ DvNative \intersect DvReference = {}
    /\ MaxNative \in Nat \ {0} /\ MaxReference \in Nat
    /\ DvReportMax \in Nat \ {0} /\ DvRankMax \in Nat

VARIABLES dv, dvCalls, dvIn
dvVars == <<dv, dvCalls, dvIn>>

Slots == {1, 2}                      \* variables of the program that hold an object
HeapIdx == 1 .. MaxNative + MaxReference - 1
Inactive == -1
InvalidId == -1
Category(kind) == IF kind \in DvNative THEN 1 ELSE 2

NoHeap == [kind |-> "host"]
NoDevice == [heap |-> Inactive, id |-> InvalidId]
Fresh == [heap |-> Inactive, implicit |-> 0, seg |-> FALSE]
Outside == [call |-> 0]
Kept == [size |-> -1, rank |-> -1]   \* no exception

---------------------------------------------------------------------------
(* heap_state: the table and its two counters *)

alloc_index(s, kind) ==
    IF kind \in DvNative THEN s.count[1]
    ELSE Min({i \in MaxNative .. MaxNative + MaxReference - 1 : s.heaps[i] = NoHeap})

HasIndex(s, kind) == s.count[Category(kind)] < <<MaxNative, MaxReference>>[Category(kind)]

(* Faulty variant: native indices are given back too *)
free_index_native(s, i) ==
    [s EXCEPT !.heaps[i] = NoHeap, !.count[IF i < MaxNative THEN 1 ELSE 2] = @ - 1]

free_index(s, i) ==
    [s EXCEPT !.heaps[i] = NoHeap, !.count[2] = IF i < MaxNative THEN @ ELSE @ - 1]

(* GASNet memory kinds are shared by the endpoints of one device *)
create_endpoint(s, kind, id) ==
    IF kind \in DvNative THEN [s EXCEPT !.eps = @ + 1, !.mk[<<kind, id>>] = @ + 1] ELSE s
destroy_endpoint(s, i) ==
    LET h == s.heaps[i]
    IN  IF h.kind \in DvNative
        THEN [s EXCEPT !.mk[<<h.kind, h.id>>] = @ - 1, !.heaps[i].bound = FALSE] ELSE s

(* The constructor of a device, d being the object *)
NewDevice(s, d, kind, id) ==
    IF id = InvalidId THEN [s EXCEPT !.devices[d] = NoDevice]
    ELSE LET i  == alloc_index(s, kind)
             st == [kind |-> kind, device_base |-> d, alloc_base |-> 0, id |-> id,
                    to_free |-> 0, bound |-> FALSE, ep |-> s.eps, free |-> {}]
         IN  [create_endpoint(s, kind, id) EXCEPT
                !.heaps[i] = st, !.count[Category(kind)] = @ + 1,
                !.devices[d] = [heap |-> i, id |-> id]]

(* device_allocator_core::release *)
release(s, a) ==
    LET i == s.allocators[a].heap
    IN  IF i = Inactive THEN s
        ELSE [s EXCEPT !.memory = @ \ {s.heaps[i].to_free}, !.heaps[i].to_free = 0,
                       !.heaps[i].alloc_base = 0, !.allocators[a].heap = Inactive]

(* Device::destroy after its barrier *)
DestroyHeap(s, d) ==
    LET i  == s.devices[d].heap
        s1 == destroy_endpoint(s, i)
        s2 == IF s1.heaps[i].alloc_base # 0 THEN release(s1, s1.heaps[i].alloc_base) ELSE s1
        s3 == [s2 EXCEPT !.events = @ \ s2.heaps[i].free]
    IN  IF i = Inactive THEN s ELSE [free_index(s3, i) EXCEPT !.devices[d] = NoDevice]

(* moves: the registration follows the object *)
MoveDevice(s, from, to) ==
    LET i  == s.devices[from].heap
        s1 == [s EXCEPT !.devices[to] = s.devices[from], !.devices[from] = NoDevice]
    IN  IF i = Inactive THEN s1 ELSE [s1 EXCEPT !.heaps[i].device_base = to]
MoveAllocator(s, from, to) ==
    LET i  == s.allocators[from].heap
        s1 == [s EXCEPT !.allocators[to] = s.allocators[from], !.allocators[from] = Fresh]
    IN  IF i = Inactive THEN s1 ELSE [s1 EXCEPT !.heaps[i].alloc_base = to]

---------------------------------------------------------------------------
(* make_gpu_segment, up to the reduction: the memory is the caller's, or    *)
(* the device gives some or not                                             *)

SegmentAllocated(s, i, got, given) ==
    IF i = Inactive \/ given \/ ~got THEN s
    ELSE [s EXCEPT !.heaps[i].to_free = s.blocks + 1, !.blocks = @ + 1,
                   !.memory = @ \union {s.blocks + 1}]

(* the size that failed over the rank, as one number *)
ReduceVal(r, failed) ==
    Min({failed, DvReportMax}) * (DvRankMax + 1) + Min({r, DvRankMax})

(* ... and after it *)
Unwind(s, i) ==
    IF i = Inactive \/ s.heaps[i].to_free = 0 THEN s
    ELSE [s EXCEPT !.memory = @ \ {s.heaps[i].to_free}, !.heaps[i].to_free = 0]
Report(r, failed, max) ==
    IF failed > 0 THEN [size |-> failed, rank |-> r]
    ELSE LET size == max \div (DvRankMax + 1)  rank == max % (DvRankMax + 1)
         IN  [size |-> IF size = DvReportMax THEN 0 ELSE size,
              rank |-> IF rank = DvRankMax THEN -1 ELSE rank]
Register(s, i, a, implicit) ==
    LET s1 == [s EXCEPT !.allocators[a] = [heap |-> i, implicit |-> implicit, seg |-> TRUE]]
    IN  IF i = Inactive THEN s1
        ELSE [s1 EXCEPT !.heaps[i].alloc_base = a, !.heaps[i].bound = s.heaps[i].kind \in DvNative]

---------------------------------------------------------------------------
(* Programs *)

Call(r) == dvCalls[dv[r].at + 1]

DvStart(calls) ==
    [heaps |-> [i \in HeapIdx |-> NoHeap], count |-> <<1, 0>>, eps |-> 1,
     mk |-> [k \in DvNative \X {0} |-> 0],
     devices |-> [d \in 1 .. 2 + calls |-> NoDevice],
     allocators |-> [a \in Slots |-> Fresh],
     memory |-> {}, blocks |-> 0, events |-> {}, made |-> 0,
     cbs |-> [p \in DvPersonas |-> <<>>], at |-> 0, orphans |-> {},
     failed |-> [c \in 1 .. calls |-> 0],
     outcome |-> [c \in 1 .. calls |-> Kept]]

DvRun(programs) ==
    /\ dvCalls \in programs
    /\ dv = [r \in DvRanks |-> DvStart(Len(dvCalls))]
    /\ dvIn = [r \in DvRanks |-> Outside]

(* rank r makes its next call *)
Calls(r, what) ==
    /\ dvIn[r] = Outside /\ dv[r].at < Len(dvCalls) /\ Call(r).what = what
    /\ UNCHANGED dvCalls

Enters(s) == [s EXCEPT !.at = @ + 1]
AllIn(n) == \A r \in DvRanks : dv[r].at >= n

(* a device, possibly inactive, in an empty variable *)
Device(r) ==
    LET c == Call(r)  id == c.id[r]
    IN  /\ Calls(r, "device")
        /\ dv[r].devices[c.to] = NoDevice
        /\ id # InvalidId => HasIndex(dv[r], c.kind)
        /\ dv' = [dv EXCEPT ![r] = NewDevice(Enters(@), c.to, c.kind, id)]
        /\ UNCHANGED dvIn

(* an allocator on a device that has none: get memory, then reduce *)
Segment(s, r, i, c, implicit, got) ==
    LET failed == IF got THEN 0 ELSE c.size[r]
    IN  /\ got \/ (i # Inactive /\ ~c.given)
        /\ dv' = [dv EXCEPT ![r] = [SegmentAllocated(s, i, got, c.given) EXCEPT !.failed[s.at] = failed]]
        /\ dvIn' = [dvIn EXCEPT ![r] = [call |-> s.at, what |-> "segment", heap |-> i,
                                        alloc |-> c.to, implicit |-> implicit]]

Allocator(r, got) ==
    LET c == Call(r)  i == dv[r].devices[c.from].heap
    IN  /\ Calls(r, "allocator")
        /\ i # Inactive => dv[r].heaps[i].alloc_base = 0
        /\ dv[r].allocators[c.to] = Fresh
        /\ Segment(Enters(dv[r]), r, i, c, 0, got)

(* make_gpu_allocator: a device of the allocator's own, then the same *)
make_gpu_allocator(r, got) ==
    LET c == Call(r)
        d == 2 + dv[r].at + 1
        s == NewDevice(Enters(dv[r]), d, c.kind, c.id[r])
    IN  /\ Calls(r, "gpu")
        /\ dv[r].allocators[c.to] = Fresh
        /\ c.id[r] # InvalidId => HasIndex(dv[r], c.kind)
        /\ Segment(s, r, s.devices[d].heap, c, d, got)

(* Every rank has reduced: all register, or all unwind and throw.  A device *)
(* made by make_gpu_allocator stays: nothing refers to it any more.         *)
SegmentDone(r) ==
    LET in  == dvIn[r]
        s   == dv[r]
        max == Max({ReduceVal(q, dv[q].failed[in.call]) : q \in DvRanks})
    IN  /\ in # Outside /\ in.what = "segment" /\ AllIn(in.call)
        /\ dv' = [dv EXCEPT ![r] =
                IF max \div (DvRankMax + 1) > 0
                THEN [Unwind(s, in.heap) EXCEPT
                        !.outcome[in.call] = Report(r, s.failed[in.call], max),
                        !.orphans = @ \union ({in.implicit} \ {0})]
                ELSE Register(s, in.heap, in.alloc, in.implicit)]
        /\ dvIn' = [dvIn EXCEPT ![r] = Outside]
        /\ UNCHANGED dvCalls

(* destroy of a device or of an allocator, which destroys its device: a     *)
(* barrier unless the program asks for none, then the teardown.  The        *)
(* program has waited for the copies that use the heap.                     *)
NoCopies(s, i) ==
    \A p \in DvPersonas : \A n \in DOMAIN s.cbs[p] : i \notin s.cbs[p][n].uses
Destroy(r, d) ==
    /\ d # 0 => NoCopies(dv[r], dv[r].devices[d].heap)
    /\ dv' = [dv EXCEPT ![r] = Enters(@)]
    /\ dvIn' = [dvIn EXCEPT ![r] = [call |-> dv[r].at + 1, what |-> "destroy", device |-> d]]

DestroyDevice(r) == Calls(r, "destroy") /\ Destroy(r, Call(r).from)
DestroyAllocator(r) ==
    /\ Calls(r, "destroy allocator")
    /\ LET i == dv[r].allocators[Call(r).from].heap
       IN  Destroy(r, IF i = Inactive THEN 0 ELSE dv[r].heaps[i].device_base)

Destroyed(r) ==
    LET in == dvIn[r]
    IN  /\ in # Outside /\ in.what = "destroy"
        /\ dvCalls[in.call].eb # "none" => AllIn(in.call)
        /\ dv' = [dv EXCEPT ![r] = IF in.device = 0 THEN @ ELSE DestroyHeap(@, in.device)]
        /\ dvIn' = [dvIn EXCEPT ![r] = Outside]
        /\ UNCHANGED dvCalls

(* the program moves its objects; an allocator only into one never used,    *)
(* or moved from: a destroyed one still has its segment_allocator           *)
MovesDevice(r) ==
    LET c == Call(r)
    IN  /\ Calls(r, "move")
        /\ dv[r].devices[c.to] = NoDevice
        /\ dv' = [dv EXCEPT ![r] = MoveDevice(Enters(@), c.from, c.to)]
        /\ UNCHANGED dvIn
MovesAllocator(r) ==
    LET c == Call(r)
    IN  /\ Calls(r, "move allocator")
        /\ dv[r].allocators[c.to] = Fresh
        /\ dv' = [dv EXCEPT ![r] = MoveAllocator(Enters(@), c.from, c.to)]
        /\ UNCHANGED dvIn

(* the destructor of an inactive allocator deletes its own device *)
Drop(r) ==
    LET c == Call(r)
    IN  /\ Calls(r, "drop") /\ dv[r].allocators[c.from].heap = Inactive
        /\ dv' = [dv EXCEPT ![r] = [Enters(@) EXCEPT !.allocators[c.from] = Fresh]]
        /\ UNCHANGED dvIn

---------------------------------------------------------------------------
(* Copies of this process between its memory and its devices, or between    *)
(* devices (heap 0 is the host): an event of the free list   *)
(* or a new one is recorded behind the copy; progress of the persona that   *)
(* started it gives the event back, then runs the callback.                 *)

MainHeap(heap_d, heap_s) == IF heap_d # 0 THEN heap_d ELSE heap_s

NextEvent(s, i) ==
    IF s.heaps[i].free # {} THEN CHOOSE e \in s.heaps[i].free : TRUE ELSE s.made + 1

copy_local(r, p, heap_d, heap_s) ==
    LET s     == dv[r]
        i     == MainHeap(heap_d, heap_s)
        event == NextEvent(s, i)
    IN  /\ i # 0 /\ \A h \in {heap_d, heap_s} \ {0} : s.heaps[h] # NoHeap /\ s.heaps[h].alloc_base # 0
        /\ heap_d # 0 /\ heap_s # 0 => s.heaps[heap_d].kind = s.heaps[heap_s].kind
        /\ dvIn[r] # Outside => dvIn[r].what = "segment"
        /\ Len(s.cbs[p]) < DvCopyMax
        /\ dv' = [dv EXCEPT
                    ![r].cbs[p] = Append(@, [heap |-> i, uses |-> {heap_d, heap_s}, event |-> event, back |-> FALSE]),
                    ![r].heaps[i].free = @ \ {event},
                    ![r].events = @ \union {event},
                    ![r].made = IF s.heaps[i].free # {} THEN @ ELSE @ + 1]
        /\ UNCHANGED <<dvCalls, dvIn>>

burst_device_event(r, p) ==
    LET cb == dv[r].cbs[p][1]
    IN  /\ dv[r].cbs[p] # <<>> /\ ~cb.back
        /\ dv' = [dv EXCEPT ![r].heaps[cb.heap].free = @ \union {cb.event},
                            ![r].cbs[p][1].back = TRUE]
        /\ UNCHANGED <<dvCalls, dvIn>>

burst_device_callback(r, p) ==
    /\ dv[r].cbs[p] # <<>> /\ dv[r].cbs[p][1].back
    /\ dv' = [dv EXCEPT ![r].cbs[p] = Tail(@)]
    /\ UNCHANGED <<dvCalls, dvIn>>

---------------------------------------------------------------------------
DvNext ==
    \/ \E r \in DvRanks :
          \/ Device(r)
          \/ \E got \in BOOLEAN : Allocator(r, got)
          \/ \E got \in BOOLEAN : make_gpu_allocator(r, got)
          \/ SegmentDone(r)
          \/ DestroyDevice(r)
          \/ DestroyAllocator(r)
          \/ Destroyed(r)
          \/ MovesDevice(r)
          \/ MovesAllocator(r)
          \/ Drop(r)
    \/ \E r \in DvCopying, p \in DvPersonas :
          \/ \E d, s \in HeapIdx \union {0} : copy_local(r, p, d, s)
          \/ burst_device_event(r, p)
          \/ burst_device_callback(r, p)

---------------------------------------------------------------------------
(* Properties *)

Opened(s) == {i \in HeapIdx : s.heaps[i] # NoHeap}
InFlight(s) == UNION {{s.cbs[p][n].event : n \in {m \in DOMAIN s.cbs[p] : ~s.cbs[p][m].back}}
                       : p \in DvPersonas}

(* the table, the objects and GASNet name each other *)
TableExact(s) ==
    /\ \A i \in Opened(s) :
          LET h == s.heaps[i]
          IN  /\ s.devices[h.device_base] = [heap |-> i, id |-> h.id]
              /\ h.alloc_base # 0 => s.allocators[h.alloc_base].heap = i
              /\ (h.kind \in DvNative) = (i < MaxNative)
              /\ h.kind \in DvNative => h.ep = i
    /\ \A d \in DOMAIN s.devices : s.devices[d].heap # Inactive =>
          s.devices[d].heap \in Opened(s) /\ s.heaps[s.devices[d].heap].device_base = d
    /\ \A a \in Slots : s.allocators[a].heap # Inactive =>
          s.allocators[a].heap \in Opened(s) /\ s.heaps[s.allocators[a].heap].alloc_base = a
    /\ \A k \in DOMAIN s.mk :
          s.mk[k] = Cardinality({i \in Opened(s) : <<s.heaps[i].kind, s.heaps[i].id>> = k})
    /\ s.count[2] = Cardinality({i \in Opened(s) : i >= MaxNative})

(* device memory and events have one holder each, and end with it *)
HoldersExact(r) ==
    LET s == dv[r]
    IN  /\ s.memory = {s.heaps[i].to_free : i \in Opened(s)} \ {0}
        /\ \A i \in Opened(s) : s.heaps[i].to_free # 0 =>
              s.heaps[i].alloc_base # 0 \/ (dvIn[r] # Outside /\ dvIn[r].heap = i)
        /\ s.events = InFlight(s) \union UNION {s.heaps[i].free : i \in Opened(s)}
        /\ \A i \in Opened(s) : s.heaps[i].free \intersect InFlight(s) = {}
        /\ \A i, j \in Opened(s) : i # j => s.heaps[i].free \intersect s.heaps[j].free = {}
        /\ \A a \in Slots : s.allocators[a].heap = Inactive /\ s.allocators[a].implicit # 0 =>
              s.devices[s.allocators[a].implicit].heap = Inactive
        /\ \A d \in DOMAIN s.devices : d \notin Slots /\ s.devices[d].heap # Inactive =>
              \/ d \in s.orphans
              \/ dvIn[r] # Outside
              \/ \E a \in Slots : s.allocators[a].implicit = d

(* all ranks keep a segment or all throw, and the exception names a request *)
(* that failed, unless it was too large to report                           *)
AgreementExact(n) ==
    LET through == {r \in DvRanks : dv[r].at > n \/ (dv[r].at = n /\ dvIn[r] = Outside)}
        bad     == {r \in DvRanks : dv[r].failed[n] > 0}
    IN  \A r \in through : dvCalls[n].what \in {"allocator", "gpu"} =>
          /\ (dv[r].outcome[n] # Kept) <=> bad # {}
          /\ bad # {} => LET e == dv[r].outcome[n]
                         IN  IF r \in bad THEN e = [size |-> dv[r].failed[n], rank |-> r]
                             ELSE \E q \in bad :
                                    /\ e.size \in {0, dv[q].failed[n]}
                                    /\ e.rank \in {-1, q}
                                    /\ \A b \in bad : e.size # 0 => dv[b].failed[n] <= e.size

(* Through opens, moves, failures and closes in any order, an index of the  *)
(* heap table, the device and the allocator registered there and, for a     *)
(* native kind, the GASNet endpoint of that index (global pointers carry    *)
(* it) belong together, and a memory kind has as many references as open    *)
(* devices.  Device memory is held by a registered allocator or by a call   *)
(* under way, so a failed collective leaves none; every event is in one     *)
(* free list or behind one copy, and closing a device loses none.  The      *)
(* ranks agree whether a segment exists, and the exception names a request  *)
(* that failed.                                                             *)
DevicesExact ==
    /\ \A r \in DvRanks : TableExact(dv[r]) /\ HoldersExact(r)
    /\ \A n \in DOMAIN dvCalls : AgreementExact(n)
=============================================================================
