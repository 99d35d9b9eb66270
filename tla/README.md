# A TLA+ verification of the UPC++ runtime

UPC++ is a C++ library for partitioned global address space programs. Its
processes (ranks) call each other through active messages of GASNet-EX; inside a
rank, threads exchange *personas*, and everything that finishes later is a
*future*, a *promise* or an *lpc* (local procedure call) queued with a persona.
This directory holds TLA+ models of `src/src`, the TLC configurations that check
them, and proofs checked by TLAPS. `PROJECT.json` maps every definition to the
source lines it stands for, lists the hazards that drive the choice of
properties, with the line where each bites, and pairs every property with a
faulty variant of the code that violates it.

Contents: 1 inventory of the system, 2 modules and what they model, 3 runs,
bounds and fairness, 4 proofs, 5 what the runs found, 6 limits and what is not
modelled, 7 plan.

## 1. Inventory

### How the parts interact

A user operation (`rpc`, `rput`, `copy`, a collective) is *injected*: it hands
bytes to GASNet, and leaves behind either a handle callback (polled), a dormant
lpc (woken by a reply), or nothing. `upcxx::progress` polls GASNet, runs the
handle callbacks that are complete, and then bursts the inboxes of each persona
the thread holds. Active-message handlers, which GASNet may run on any thread
that polls, only enqueue lpcs to personas. Lpcs fulfill promises; a fulfilled
promise drains the active queue of the future engine, which runs `then`
callbacks; those are user code and inject again.

Three layers follow from that. At the bottom are the *services*: the wire
format, the two allocators, sending of active messages, start-up and finalize,
global pointers, devices, function pointers. In the middle is the *engine*:
mpsc queues, futures, personas and progress, handle callbacks, put-then-AM,
broadcast. On top are the *operations* with their completions, and the
*collective* calls on teams, with distributed objects and atomic domains.

### Components, their state and what makes them correct

| Component | State | Operations | Hard part | What makes it correct |
|---|---|---|---|---|
| mpsc queue (`intru_queue.hpp`) | links, tail | `enqueue`, `burst`, `dequeue` | lock-free; entries delete themselves | FIFO, exactly once, no use after free, no lost entry |
| future engine (`future/`) | headers, reference counts, successor lists, active queue | promise calls, `then`, `when_all`, copy and drop of futures | proxies are re-linked in bulk; everything may happen inside a callback | counts exact, no lost wake-up, right values |
| personas and progress (`persona.hpp`, `do_progress`, `after_gasnet`) | scope stacks, owners, inboxes, progress level, deferred promises | scopes, `during`, `defer`, `progress` | threads, reentrance, a burst interrupted by its own callbacks | right thread, no nested user callback, exactly once, no starvation |
| put then AM (`rma_put_then_am_master`) | reassembly table and states, nonce | sender, three handlers, reply | messages in any order, handlers on any thread, a lock that covers only part | a command runs once, whole, after its bytes |
| broadcast of AMs (`bcast_am_master*`) | reference-counted buffers and blocks | split, forward, copy, clean up | ranks count and free each other's buffers | every rank runs it once, buffers freed once and not too early |
| handle callbacks (`handle_cb_queue`) | linked list, tail, abort history | register, successor, burst | list changed by the callbacks the burst runs | list whole, order, a ready handle is found |
| completions (`completion.hpp`) | cx_states | construct, fire, cancel, make dormant, ship | who fires, deletes or cancels them, at which level and with which persona | each request answered once, after its event |
| rpc, dormant lpcs (`rpc.hpp`, `lpc_dormant.hpp`) | chains of dormant lpcs | inject, reply, awaken, cancel | reply races the injecting thread; injection may throw | delivered once or cancelled once; no node read after it was given away |
| rput, rget, vis | callbacks, `outstanding` | inject, complete | two events of one operation in either order | both delivered, object deleted by the last |
| copy (`copy.hpp`) | bounce buffers, acknowledgements | every branch of `copy_general` | continuations on three ranks and two engines | buffers and completions freed once, not too early |
| teams and registry (`team.*`) | collective counter, registry | `split`, `create`, `destroy`, ids | messages before the local call | ids agree, state created and removed once |
| distributed objects | registry entries, promises | construct, fetch, move, destroy | fetch before activation, move before fulfillment | waiters see the live object |
| collectives | reduction and broadcast states | `reduce_*`, `broadcast`, `barrier*` | contributions before the call; tree rotated to the root | every value counted once |
| atomics | domains | create, operate, move, destroy | use after destroy | operations on live domains only, linearizable |
| serialization, views | writers' hunks, reader position | write, compact, read, skip | growth of unbounded messages, alignment | the reader stands where the writer stood |
| segment allocator | holes and hunks | `allocate`, `deallocate`, move | two indexes and a list that must agree | blocks disjoint, aligned, space conserved |
| shared heap | blocks, footprints | `allocate`, `new_`, `new_array`, deletes | padding, overflow, throwing constructors | footprints exact, blocks apart |
| AM injection, rendezvous (`runtime.hpp`) | send buffers, payloads | `prepare_am`, four buffers, handlers | who frees the payload | freed once, after the last read |
| init, finalize, heap rebuild | counts, quiescence rounds | `init`, `finalize`, `destroy_heap`, `restore_heap` | a reduction that races with allocation, a bounded wait | nothing torn down under a message; everyone gets out |
| global pointers | address tables | globalize, localize, arithmetic, order | neighbours of segments, word wrap | inverse of each other, one order |
| devices | index table, allocators, events | open, allocate collectively, move, close | failure on one rank only, recycled indices | table, endpoints, memory and events belong together |
| CCS function pointers | segment map, index table, caches | tokenize, verify, load | ranks load libraries at different times and places | a pointer becomes the same function, or is refused |
| utilities, diagnostics, environment; dlmalloc | – | – | – | templates and printing; vendored |

## 2. Modules

A step of a model is what other threads (or ranks) can observe: where the code
runs under a lock or touches only its own thread's data, one action is a whole
function; where it does not, each access to shared memory is an action. Names
are those of the source.

### Engine

**MpscQueue** (`intru_queue.hpp`, the atomic implementation). One action per
shared access: `EnqueueExchange` is the tail exchange, `EnqueueLink` the store
after it, `BurstScan` one turn of the first loop of `burst`, `BurstTake` the
consumer's exchange of the tail, `BurstDrain` one turn of the second loop (its
spin on a missing link is the action being disabled), `DequeueCas` and
`DequeueSpin` the two ways out of `dequeue`. `order` and `ndet` are history: the
entries exchanged and not yet run, and how many of them the drain has detached.
**FifoQueue** is what it promises: a sequence, with one action that appends and
one that runs the head. **MpscQueueProofs** holds the proofs.

**FutureCore** (`future/`). `hdr` is the heap of headers; an address is used
once, and a deleted header stays `"dead"`, so a dangling pointer is visible.
`EnterReady`, `EnterProxying`, `HandOver`, `DropForResult` and the others are
operators from heap to heap, because they are the steps of one call on one
thread; actions are the user's calls (`NewPromise`, `Fulfill`, `Then`,
`WhenAll`, `CopyFuture`, `DropFuture`, ...) and the turns of the active queue
(`LeaveActiveProxy`, `LeaveActiveAll`, `CallbackBegin`, `CallbackReturn`). User
calls are enabled at top level and inside a running callback. `origin` and
`args` are history: the header whose result a header stands for, as far as it is
known by now (when a callback returns a future, or a `when_all` gets its result,
`StandFor` redirects everything that stood for the dependent), and the futures a
body was built on. A few source
branches are unreachable in the model (core.cpp:181-190, 233 and 240, and the
ones of `drop_for_proxied` at core.hpp:893 and 902): they ask for a reference
count that `GraphExact` excludes. Left out: the values
(a result header stands for its tuple), the compile-time kinds of futures, and
a callback that returns a future waiting for itself, which is a program that
never finishes. A lazily fused `then` is a callback that calls `then` itself.
**FutureHeapProofs** and **FutureCoreProofs** hold the proofs: operations on the
heap, and steps.

**ProgressEngine** (`persona.hpp`, `do_progress`, `after_gasnet`,
`lpc.hpp`). `frames[t]` is the stack of callbacks a thread is inside of and
`prog[t]` the one progress call it can be in, phase by phase and persona by
persona. What a callback does is the choice of the actions its frame takes:
open and close scopes, `Send`, `During`, complete operations, call progress
again (which returns at once, as the code does). Enqueueing is atomic here, as
MpscQueue justifies. A promise with deferred decrements is an element of
`pros`, the persona's queue of promises.

**PutThenAm** (`rma_put_then_am_master` and the handlers of runtime.cpp
2430-2740, `reply_cb.hpp`). The sender puts the excess prefix, then sends one
packed message or a payload and several command parts in any interleaving with
the handlers. A handler's critical section is one action; the copy of bytes,
the addition of credits, the second look at the table and the reply are
separate. `Key` keeps the code's arithmetic: a nonce with its top bit set is
sign extended into the word that holds the rank. **RemoteCompletion** is the
promise: bytes land, then the rpc runs, once, then the initiator is answered.

**BcastTree** is the arithmetic that cuts an interval of ranks, for both
protocols. **BcastEager** is the eager protocol (one block shared by two lpcs),
**BcastRdzv** the rendezvous one (buffers with a count of readers, in-place use
on one node, copies between nodes), **BcastAm** composes them: the initial state
picks a protocol. **Broadcast** is the promise both implement: every other rank
runs the rpc once.

**HandleCbQueue** (`handle_cb.hpp`, `handle_cb_queue::burst`). The list is
modelled with its pointer-to-pointer tail, since the hazard is precisely a
callback that appends where the scan stands. `spin` tells `burst`'s two modes
apart; `aborted` is the history that widens the search.

### Operations

**Completions** (`completion.hpp`) is shared by every operation. `plan[o]` is
the call with its requests (event, action, eagerness); `st` is what the
initiator holds: calls made to each cx_state, notifications the user had,
promises queued, lpcs posted, dormant lpcs, dependencies added to the user's
promise, bounce buffers, the object that keeps the cx_states. `st.fact` is
history: the events that have really happened. The templates choose between
implementations at compile time; here that choice is a guard on the request.
**CompletionPromise** is the abstract specification: a request is answered at
most once and not before its event.

**Rput** has the three ways of a put: a copy to a peer that shares memory, one
GASNet put with a source callback that registers the operation callback, and
put-then-AM, whose reply and source event come in either order and are counted
by `outstanding`. **Rpc** has `rpc`, `rpc_ff` and their immediate forms, which
may throw after the dormant lpcs were built: `AwakenTurn` is one turn of the
handler's loop, which reads the next node before it gives the current one to a
persona that may run and delete it at once. **Transfers** writes `rget`, the six
noncontiguous transfers, the atomics, all entry points of `copy` and every
branch of `copy_general` (`copy.hpp`, `copy.cpp`) as chains of continuations,
each with who runs it. **Operations** composes
them and states the properties; **MCOperations** lists the calls. The network is
what PutThenAm and HandleCbQueue show it to be: one event, one reply.

### Collective calls

**Teams** (`team.hpp`, `team.cpp`, `barrier.cpp`): every rank runs the same
program `prog` (a job may differ by member, colour and argument); `at[r]` is
where rank r stands and how it waits, `reg[r]` its registry, `tms[r]` its team
objects. A digest is the sequence of what was eaten: the hash is taken to be
injective. A GASNet collective is external and matched by its order on a team.
**Collectives** (`reduce.hpp`, `broadcast.hpp`, `barrier.hpp`): trivial ones go to
GASNet, with the choice by type, operator and size; nontrivial ones are the
library's tree, rotated to the root, with states created by whichever comes
first, call or message. **DistObject** has construction, late activation,
`when_here`, `fetch`, move and destruction, with reference counts of the
promise. **AtomicDomain** has construct, operate, move and destroy, and what the
operations do to one word. **TeamProgram** composes the four on one registry.

### Services

**Serialization** (`serialization.hpp`, `view.hpp`): types are records, bytes
are kept as who wrote them. `SerBegin` computes the storage bound and chooses
the writer, `SerWrite` writes a part, growing hunks if unbounded, `SerSend`
compacts, `SerRead` and `SerSkip` consume a part; the recursion over types is a
pure algorithm compared with the value that was written.
**SegmentAllocator** (`segment_allocator.cpp`) is the list of blocks with the
index of holes by size and the index of hunks by address.
**SharedHeap** has `allocate_or_null` and `deallocate` over either heap
with their padding, and `allocate`, `new_`, `new_array` and their deletes with
throwing constructors and the overflow test of the array size. Sizes are of
`size_t`: the products and, over UPC, the sum with the alignment wrap where the
code lets them, and the history variable `heapWrapped` remembers that memory was
handed out for such a request; the behaviour ends there. **AmSend** (`prepare_am`,
the four `am_send_buffer` classes, eager and rendezvous handlers, the
destructors) and **StartStop** (`init`, `finalize`, `destroy_heap`,
`restore_heap`, `quiesce_rdzv`) give a job: ranks with neighbourhoods,
thresholds and programs. **GlobalPtr** lets one pointer travel through
construction, arithmetic, casts and ranks; `gpRef` is the byte the program
meant. **Devices** has the table of device heaps, the collective creation that
may fail on one rank, moves, and the events of copies. **Ccs** has the segment
map of a process, the tables of verified segments, the caches of two threads,
tokens and their wire form; another thread may load a library (`OtherLoads`) and
rebuild the map at any time, also while the main one is inside `verify_all`.
**Services** puts these seven side by side: a
behaviour exercises one of them, chosen at the start.

## 3. Runs

| Run | Instance | States | What it shows |
|---|---|---|---|
| `mpsc_queue` | 4 entries, 2 producers, bursts of 1 to 3 | 0.36 M | inductive invariant, memory safety, refinement of FifoQueue, every entry runs |
| `future_core` | four sizes of programs, up to 5 headers | 0.48 M | `GraphExact` (counts, links, active queue), `ProxiesFlat`, `ValuesDelivered` (right values, no lost wake-up) |
| `progress_engine` | 2 threads, a shared persona, an lpc, a promise with up to 2 operations under way | 1.2 M | scopes, no nested user callback, lpcs once and on the right thread, promises exact |
| `progress_live` | 2 threads, 2 lpcs | 0.22 M | every lpc is executed |
| `put_then_am` | any 2 of 4 puts, 2 ranks, nonces modulo 2 | 0.16 M | `ReassemblyExact` (whole commands, safe handlers, empty table), refinement, completion |
| `bcast_am` | 6 ranks, 2 nodes, both protocols | 72 k | `BroadcastMemory`, refinement, everyone runs |
| `handle_cb_queue` | 5 callbacks, each of which may register another one | 0.14 M | `QueueSound`, order, a ready handle is found |
| `operations` | one operation of any kind with up to 3 requests, beside an atomic that shares its promise | 59 k | memory, calls on cx_states, both counters, refinement of CompletionPromise, every request answered |
| `team_program` | 14 programs of 3 or 4 ranks | 20 k | registry, results, distributed objects, atomic domains, everyone finishes |
| `services` | seven services, 138 initial states | 0.12 M | eight invariants, one per service (two for a job), and every job ends |
| `copy_source_event` | one copy | violation | see section 5 |
| `ccs_twin` | one job with a duplicated library | violation | see section 5 |

Each property of a passing run has a faulty variant of the code that it
catches: an operator just before the definition it stands for, introduced by
"Faulty variant".

**Refinement.** MpscQueue implements FifoQueue, PutThenAm implements
RemoteCompletion, both broadcast protocols implement Broadcast, and Operations
implements CompletionPromise. Each abstract specification is a property of its
run through a refinement mapping stated at the end of the detailed module.

**Bounds.** They are the smallest at which the interesting cases occur.

* Four entries let a burst stop at its budget with an entry behind it while both
  producers stand between exchange and link.
* `MCSizes`: five headers make a proxy that is itself proxied by two others;
  four with `when_all` of two a `then` over a `when_all` over two roots; three
  with countdown 2 a promise fulfilled in parts inside callbacks.
* Two promise operations let one be deferred while another is being executed.
  `ProgressCap`, `AfterCap` and `BurstMax` are 1000, 100 and 100 in the code and
  2, 1 and 1 here, so that each loop ends both ways. `MaxScopes` is 2, so here
  only user code between callbacks opens scopes of its own; callbacks that do
  are covered by the proof, which has no bound on scopes.
* Two live puts are enough for the reassembly table (an entry depends on one
  other entry only through its key); nonces modulo 2 make every key collide that
  can, and the sign extension differs between the two.
* Six ranks are the fewest with a forwarder on the owner's node, a copy between
  nodes and a copy that comes back to the root's node. Larger teams, on which the
  eager fan-out of 15/16 gets interior nodes, are covered by the proof.
* A miss limit of one (four in the code) and a history capped at two (1024) put
  the same decisions within five callbacks.
* Two operations and three requests: one operation of every kind with every
  combination of events, and a second one that keeps the promise and the persona
  they share busy. Operations meet only there.
* Three ranks let a message about a collective overtake its call at one rank
  while a third has finished; four give the reduction tree an interior node for
  a rotated root.
* First hunks of 512 bytes, filled to 3, 440, 470 or 485 bytes before the part
  under test, end in the middle of every kind of element.
* A segment of sixteen pages with requests of zero, less than a page, an
  alignment above the page, several pages, and half of it; a heap of 256 bytes
  with 14-bit sizes and arrays of 0, 2, 681, 2048 and 4094 elements of 4 or 24
  bytes, so that there are requests that exceed the heap, that `new_array` refuses,
  whose product wraps, and whose product fits and wraps with the alignment.
* Jobs: two ranks on one node, on two nodes, and three ranks with contiguous and
  scattered neighbourhoods; sizes on either side of every cutover; a 9000-byte
  payload that exceeds the heap so that `bad_shared_alloc` occurs; programs that
  wait, that finalize abruptly, that nest `init`, and that rebuild the heap.
  `FinalizeRounds` is 2 (1000 in the code): rounds are alike. GASNet's
  collectives are counted modulo 4: no rank is more than one ahead.
* Global pointers: ranks 1 and 2 share a node, and each maps the other's segment
  in the opposite order, adjacent at rank 1; words of 256 with halves of 16;
  four steps of arithmetic, casts and travel.
* Devices: two ranks, the native kind (indices are not used again and equal the
  GASNet endpoint) and the reference kind (indices are recycled), six programs in
  which one rank may fail for lack of memory or have no device; copies by two
  personas.
* CCS: caches of two entries, so that eviction happens; offsets and indices
  below 16 stand for 2^48 and 2^15; two ranks that load libraries in different
  orders and places, one thread that sends while another verifies, and a job in
  which threads of both ranks load and use a library between the copy that
  `verify_all` compares and the map it marks.

**Fairness.** `mpsc_queue`: a producer that has begun finishes, the consumer
keeps bursting; a producer need not begin. The code has no lock on that path,
so only a stopped thread could break it. `progress_live`: a thread inside a
progress call goes on (weak), callbacks close their scopes (weak) and return
(strong: a callback may take any finite number of other steps first), and user
code calls `upcxx::progress()` again and again (strong: it may be between other
calls whenever it is), which is what the specification of the library asks of
programs. `put_then_am` and `bcast_am`: every rank keeps polling, and the
threads and the master persona go on. `handle_cb_queue`: a burst that started
goes on and progress is called repeatedly; handles are *not* assumed to
complete, since the point is that one that does is found behind others that
do not. `operations` and `team_program`: weak fairness of the next-state
relation, which has no cycle in these instances: what can run runs, in any
order. A barrier that waits in internal progress only is caught by it, since
then a rank waits for user-level work that no step can do. `services`: for a
job, each rank's progress and each rank's own operation are weakly fair, the
threads being scheduled and the library's waits calling progress in a loop; the
other services have safety properties only.

Deadlock is checked except for the future engine, where user code may simply
stop calling, and for the services, which end when an allocator's or a
program's calls are used up; the models of protocols end in an explicit `Stop`
that is enabled only when everything is done, so a stuck protocol is reported.

## 4. Proofs

TLAPS checks the following theorems, for every value of the constants that
satisfies the assumptions of section 4.10. An invariant named here without
"Proofs" is stated in the component's own module.

| Module | Theorem | Statement |
|---|---|---|
| MpscQueueProofs | `QueueInvariant`, `MemorySafety`, `Refinement` | `Spec => []QueueInv`, `Spec => []NoUseAfterFree`, `Spec => ImplementsFifo` |
| ProgressEngineProofs | `ProgressInvariant` | `Spec => []ProgressInv` |
| | `ScopesStayConsistent`, `UserCallbacksDoNotNest`, `LpcsStayExact`, `PromisesStayExact` | the four invariants of run `progress_engine` |
| PutThenAmProofs | `PutInvariant`, `CommandsReassembled` | `Spec => []PutInv`, `Spec => []ReassemblyExact` |
| | `PutKeepsPromise` | `Spec => KeepsPromise`, the specification of RemoteCompletion |
| BcastAmProofs | `BroadcastInvariant`, `BroadcastSafe` | `AmSpec => []AmInv`, `AmSpec => []BroadcastMemory` |
| | `BroadcastRefines` | `AmSpec => Broadcasts`, the specification of Broadcast |
| HandleCbQueueProofs | `CbInvariant`, `QueueIsSound`, `CallbacksRunInOrder` | `Spec => []CbInv`, `[]QueueSound`, `[]RunsInOrder` |
| SegmentProofs | `SegmentInvariant`, `SegmentStaysExact` | `SegSpec => []SegInv`, `SegSpec => []SegmentExact` |
| | `PointerInvariant`, `PointersStayExact` | `GpSpec => []GpInv`, `GpSpec => []PointersExact` |
| | `HeapInvariant`, `HeapStaysExact` | `HeapSpec => []HeapInv`, `HeapSpec => []HeapExact` |
| FutureCoreProofs | `FutureInvariant` | `Spec => []FutureInv` |
| | `GraphStaysExact`, `ProxiesStayFlat` | `Spec => []GraphExact`, `Spec => []ProxiesFlat` |
| | `ValuesInvariant`, `ValuesStayDelivered` | `Spec => []ValuesInv`, `Spec => []ValuesDelivered` |

### 4.1 MpscQueue

`NoUseAfterFree` is not inductive: that the predecessor cell of a producer has
not been deleted depends on where the consumer is and on the producer that will
fill it. `QueueInv` says what the list is at every moment. `OrderOK`: the
entries in flight are distinct and not deleted. `TailOK`: the tail is the last
of them, or the head cell when the list is empty or all of it was detached.
`Reachable`: each entry hangs on its predecessor's link, or that link is empty
and a producer is about to fill it, or the consumer holds it. `ProducersOK` is
the converse: a producer about to link writes the cell of its own predecessor,
which is empty and which the consumer has not passed. `ConsumerOK` ties the
consumer's locals to the front of the list. The proof has one lemma per group of
actions; `RunShifts` and `PredShifts` carry the renumbering when the first entry
leaves. The refinement maps `q` to `order`: an exchange appends, a run removes
the head, everything else stutters.

### 4.2 ProgressEngine

That user callbacks do not nest depends on the level a thread's progress call is
at, that an lpc runs on the right thread depends on which scopes are open below
the callback, and neither survives a step by itself: a callback may open scopes,
hand personas over and call progress, and all of it must be undone, in order,
before the frame below goes on. `ProgressInv` therefore describes whole stacks.
`ScopesExact`: stack, chain, top persona and owner fields agree. `LevelsOK`: the
two per-thread flags are what the frames and the progress call say they are.
`StackOK`: every frame and every visit of a persona finds the scopes below it as
it left them. `ExactlyOnce` and `PromisesExact` place every lpc and every
promise: in one inbox, or in one position of one burst, or executed. Stacks and
queues are sequences whose positions are followed one by one (`ItemsWait`,
`PromisesWait`: a thing that waits does so at one place), which replaces
counting.

### 4.3 PutThenAm

`ReassemblyExact` speaks of commands that run and of the table; what keeps it is
an account of credits. `HandlersOK` says for each handler, by its place in the
code, which state it works on and whether its bytes and credits are in already;
`StatesOK` that the credits of a state are the sum of what handlers past their
addition brought, so that the handler that completes the sum is the only one;
`NoncesOK` that no two puts of a rank that are under way have one nonce, so that
their keys differ: `Key`, although it sign extends a nonce with its top bit set,
is injective on ranks and nonces; `TableOK` that an entry stands for a command of which a
part is not counted yet. That a sum reaches its total only when all parts are
there is a statement about a finite set of offsets, proved by cardinalities. The
step simulation of RemoteCompletion follows from the invariant.

### 4.4 BcastAm

Both protocols split an interval of ranks. `IntervalsOK`, `ToldOnce` and
`NobodyForgotten` say that at any time every rank other than the root is either
reached or inside exactly one interval that somebody has still to forward; they
rest on `KeptBounds`: for any split of at least a half, what a forwarder keeps of
an interval is a part of it, and nothing only of a single rank. `CountsExact` is
the memory part of the rendezvous: the count of a buffer equals the number of
places that can still read it (messages, copies under way, lpcs), the count being
moved by its owner's node and by messages alike. `AmInv` is the invariant of the
protocol in use. Broadcasts follow step by step: a rank runs when its rpc does.

### 4.5 HandleCbQueue

`burst` holds a pointer to a slot of the list while callbacks append to it.
`Linked` says there is a chain, a numbering of the slots that the `next` links
follow from the head to the tail, which contains the waiting callbacks exactly
and the slot of the scan. Each action changes the chain explicitly: append at the
end, remove at the scan, insert a successor in its place. `QueueSound` is stated
by following links from the head; that this reaches exactly the chain is shown by
least counterexample (`LeastNat`), so no induction principle with a predicate is
needed. `CallbacksOK` carries the order, `BurstOK` the local variables.

### 4.6 SegmentAllocator

The invariant is stated on *extents*, what a block and its successor say
together: begin, end, hole or hunk. `Sound`: the list ascends from 0 to
the end of the segment, both indexes are functions of its extents, no hole
borders on another, and hunks and allocations correspond one to one, each
allocation inside its hunk and aligned. Every operation replaces a run of
adjacent blocks by other blocks that fill the same bytes (`Spliced`); the lemmas
`SpliceAscends` and `SpliceExtents` say once and for all what that does to the
order and to the set of extents. Deallocation is two such replacements, between
which the freed hole may border on another (`HolesApartBut`); carving is one,
in three forms: what is in front of the hunk stays a hole (`CutKeeping`), there
is nothing in front (`CutFlush`), or the hunk on the left grows over it
(`CutAbsorbing`). `HoleFits` is the search: the best fit is unique, so a hole
that is chosen has been tested to fit. `UpFacts` is the arithmetic of rounding
up to a multiple, with an alignment that need not be a power of two.

### 4.7 FutureCore

`GraphExact` says that reference counts, successor lists and the active queue
are right between calls, which one call after another must preserve; but a call
is many operations of core.hpp, and between them the counts are off by what the
locals of the call hold, and a dependent may be without its body. `HeapOK(H, X,
z)` describes the heap at any such moment. `X` is the *tally*: how many
references to each header are held outside the heap. `z` is the dependent whose
body is destroyed and which has not yet entered a state, or `Nil`. Under it,
`CountOK` makes every count equal to tally, links, results and the dependent's
own reference, and a header allocated exactly when that is positive;
`SuccessorsOK` makes a list a numbering of the open links to its header;
`HeaderOK` and `BodyOK` tie status, body and result together: an argument that no
link waits for is a result, and a proxy that waits does so for something that is
no proxy. That last part is `ProxiesFlat`. `FutureInv` is `HeapOK` with the
futures of user code as tally, and the queue: `QueueExact`, `RunningOK` for the
callback on the stack, and `RoomKept`, that a `when_all` under way finds a header
for its result.

**FutureHeapProofs** takes the operations one by one. Each lemma says: from
`HeapOK` with one tally the operation gives `HeapOK` with another, and what it
leaves alone (`Keeps...`, `Due`). Adding and dropping a reference moves one
number of the tally; a drop that reaches zero deletes the header, and with it
drops its result. `EnterReady` and `ProxyOnto` move many links at once: the set
of links to each header afterwards is stated as a union of sets before, their
cardinalities give the counts, and the lists are pieces of old lists
(`PickAt`), so that nothing is summed up. `HandOver` and the death of a proxy
that nobody refers to are the cases where such a count comes out as zero.
`LinkAll` is a loop over the arguments; the state after k of them
is described for every k, and that it holds is shown by least counterexample
(`LeastNat`). **FutureCoreProofs** follows each action: the tally of user code
at its beginning, its operations in the order of the code, the tally at its end.
The proof assumes of a callback only that the future it returns does not wait
for the callback's own header, a guard of `CallbackReturn`; without it
`enter_proxying` would make a header a proxy of itself.

`ValuesDelivered` needs two more parts, and `ValuesInv` has them. `ValuesOK` is
about the history: a promise, a result and a body that has not run stand for
themselves; a proxy stands for what the header it proxies stands for; a ready
dependent has the result it stands for; and the dependencies of a body stand,
one by one, for what the futures it was built on stand for, although
`entered_ready_with_sucs` and `enter_proxying` have replaced the headers in
between. It survives `CallbackReturn` because redirecting is a substitution:
whatever stood for the callback's header now stands for what the returned future
does, on both sides of every such equation (`Follows`). `Acyclic` is that any
non-empty set of headers has one that waits for none of the set: nothing waits
for itself, said without recursion. Waking and dying only take links away and
moving a link past a proxy shortens a path (`Sheds`, `Spares`, `Alters`); only
`CallbackReturn` adds one that could close a cycle, from the callback's header to
the future it returns. There the guard is used: `Upstream` is closed after
`MaxHeaders` rounds, since a set of headers can grow only that often, so a cycle
through the new link would put the callback's header upstream of the future.
`NoLostWakeup` then is a least-element argument: of the headers upstream of an
unready one that are themselves not ready, one waits for none of the others; when
nothing is queued it can be no dependent, so it is a promise, and one with
something to come.

### 4.8 GlobalPtr

`GpInv` says of the pointer at hand, and of the one the program remembered, that
it *means* what history says it means: all its fields are null and it means
nothing, or they name a byte of an existing segment (or the end of a host
segment, which `try_global_ptr` accepts) at the owner's address, with that
segment's kind. Every operation makes a pointer that means what it should, once
three things are known. Words: a difference reduced to a word and added again
gives the address back (`AddrShift`), a difference within a segment survives the
conversion to `ptrdiff_t` (`DifferenceFits`), the two signed halves of an address
meet (`HalvesMeet`). The tables: `PeersBy` places a peer by counting the bases up
to its own, which numbers the peers without gaps since an injection of finite
sets of one size is onto (`TableFilled`); so the table is sorted and holds
everyone, and `upper_bound` finds the last base that is not above an address
(`KeyFacts`). And the layout: segments are mapped apart, so the segment found is
the one that holds the address, or the one that ends there when none begins there
(`PeerFound`; this is where the inclusive comparison with the size matters). That
`rank_is_local` is membership in the local team, with its single comparison of
unsigned numbers, is `LocalRanks`. `PointersExact` follows from `GpInv` part by
part (`RoundTrip`, `Validated`, `Ordered`, `Subtracted`).

### 4.9 SharedHeap

`HeapExact` looks at blocks; what `deallocate` frees, and what it credits, comes
out of memory: over UPC from the two words below the user's address, and
`delete_array` destructs as many elements as the word at the front of the block
says. `HeldInv` therefore keeps the words with the blocks, and `HeapInv` says that
it holds unless a request has wrapped. `WholeHeap`: the blocks
are apart and in the segment, over UPC each begins at least 16 bytes in front of
its user's address and its header says where and how long (`FrontOK`), and the
footprint is their number and the sum of their lengths. `HeldOK`: things held and
blocks correspond one to one, each thing lies in its block (`SitsIn`), and the
count of an array is where `delete_array` reads it. Every call is then one of
three moves: a block more (`HeapGrows`), a block less (`HeapShrinks`) or the same
blocks, when a constructor throws (`ThereAndBack`); `Agree` says that the words of
the other blocks survive it. The arithmetic is in `PadFits` (rounding what is
beyond the base by an alignment leaves 16 bytes for the header, since base and
alignment are multiples of 16; `PaddedHands` needs that the padded size has not
wrapped, which `~heapWrapped'` gives to each action), `HandedArray` (elements behind an aligned count are
aligned) and `NoWrap` (past the test of `new_array` neither product nor sum with
the count wraps; the sum with the alignment over UPC still may, see section 5).
The footprint in bytes is a fold over a set, taken in an order that `CHOOSE`
picks; that its value does not depend on the order (`SumSplits`, `LenSumFacts`)
is shown with a smallest counterexample, because induction principles cannot be
instantiated here.

### 4.10 Assumptions, and what is not proved

The assumptions are named in the modules that declare the constants, and TLC
evaluates them on every run: sets of model values that must differ do
(`QueueAssumption`, `ProgressAssumption`, `NilIsNoMessage`), caps and sizes are
numbers, most of them positive, a broadcast keeps at least half of an interval and
not all of it (`BcastAmAssumption`; the code has 1/2 and 15/16), the segment is
not empty and not at address 0 (`SegAssumption`: a segment that is, is how the
code tells an inactive allocator), and the alignments asked for are positive.
`GlobalPtrAssumption` is the layout at start-up: ranks are 0 to n-1 and fit a
word, a local team is an interval of ranks, a process maps the segments of its
local team apart and away from address 0, no segment reaches the end of the
address space, each is smaller than half of it (`ptrdiff_t`), and a rank and a
heap index name one device segment. `HeapAssumption`: the shared segment is not
at address 0, a type has a size, and its alignment is a power of two (stated as
what is used of it: it divides 16 or is a multiple of 16). Nothing is assumed of
the width of `size_t`: what its wrap does to the theorems is in the statement.

Only model-checked: liveness (`EveryEntryRuns`, `LpcsRun`, `PutsComplete`,
`EveryoneRuns`, `ReadyRuns`, `AllAnswered`, `EveryoneFinishes`, `JobsEnd`), which
needs fairness and ENABLED; operations and collective calls; and the other
services. Serialization recurses over types and is outside what the prover
handles. Model-checked on a side instance only: the inductive
invariants before they were proved, among them `ProgressInv` for one thread with
four scopes, where callbacks open scopes (2.5 M states), `SegInv` (0.46 M),
`HeapInv` (1.3 M), and
`FutureInv` and `ValuesInv` on the instance of `future_core`.

## 5. What the runs found

Two runs expect a violation; each states what the repository says of itself.

* `copy_source_event`: with reference memory kinds, a put-like copy out of a
  device that asks for source and remote completion but not for operation
  completion deletes its completions in the call (copy.hpp:685, since `must_ack`
  at 597 looks at operation completion and acknowledgement only), while the
  continuation of the device copy still fires the source event on them
  (copy.hpp:668). completion.hpp:653 promises "exactly one call" to a state
  before it destructs.
* `ccs_twin`: a library with the bytes of a verified one, loaded on one rank
  only, inherits the verified flag there, and the next `verify_all` gives it an
  index on that rank alone (ccs.cpp:1139); from then on the same index names
  different segments on the two ranks. docs/ccs-rpc.md:79 says the sets are
  identical on all ranks.

Met while modelling, and kept out of the passing runs by the inputs they are
given; they are recorded here for whoever changes that code:

* Noncontiguous puts never use the `mode` asked for by `source_cx::as_blocking`
  or `as_buffered` (vis.hpp:66, 95), and `operation_cx::as_blocking` leaves them
  without an operation callback; `CallsExact` asks synchrony of `rput` only.
* A remote `rput` with remote completion and no operation completion does not
  delete its `rput_obj` (rput.hpp:312; `KeepsObject` in Operations).
* The same copy as in `copy_source_event`, when remote completion is asked, does
  not count itself for `discharge` (copy.hpp:662).
* `skip_sequence` takes a wrong stride for elements that contain arrays of
  elements whose size is not a multiple of their alignment
  (serialization.hpp:939-953); the unbounded `write_sequence` computes
  `edge_ - size0`, which wraps when the alignment exceeds 8 and the hunk is full
  to its last 8 bytes; `bound_function::skip` skips its tuple as a whole.
* `destroy_heap` with several local teams frees the heap that `local_scratch_ptr`
  points into, and `finalize` frees it again; jobs rebuild the heap only where
  the local team is the world.
* A job that finalizes with a local rendezvous pending can never see the count
  reach zero, since `quiesce_rdzv` runs internal progress only: it leaves by the
  bound on rounds, as `LifeCycleExact` allows (`gaveUp`).
* `segment_allocator` rounds a size near the largest up to zero
  (segment_allocator.cpp:82).
* Over UPC `allocate_or_null` adds size and alignment in `size_t` and does not
  check the sum (runtime.cpp:1230, used at 1235 and 1238): a request within an
  alignment of the largest size is given a block of a few bytes, smaller than its
  own header and pad, and is charged for those. The overflow test of `new_array`
  (allocate.hpp) does not cover that sum. `upcxx::allocate<T>(n)` multiplies
  unchecked over either allocator. Both are in the model and in the run;
  `HeapExact`, and with it `HeapStaysExact` and `HeapInvariant`, say nothing of a
  heap in which such a request was granted (`heapWrapped`).
* `try_global_ptr` accepts the address one past the end of a segment
  (runtime.cpp:1378), the debug check refuses it.
* `team_id::here`, `when_here` and `dist_id::here` insert null entries into the
  registry when they find none.
* The search of `make_gpu_segment` for the largest segment throws if its last
  probe fails although a smaller one succeeded; a `make_gpu_allocator` that
  fails leaves its implicit device open; a released device allocator keeps its
  segment pointer, so that assigning into it trips an assertion.
* In CCS the fallback to a hash of the path cannot be reached for readable ELF
  images; `verify_segment` compares `idx > max_segments_` and may write one past
  the table; `search` accepts `p <= seg.end`, so adjacent segments confuse the
  cache (segments have gaps here), and a function at the very start of a segment
  is not found (functions lie inside); each refused lookup under enforcement
  adds its segment to the cache again.
* `prepare_npam_medium` disables the buffer's destructor before it throws, which
  is harmless because nothing has been allocated.
* A ready handle behind more than 5124 unready ones is not reached, because the
  history of bursts is capped (runtime.cpp:2791); `ReadyRuns` holds below that.

## 6. Limits, and what is not modelled

* Memory order: atomics are sequentially consistent in the models. The link
  store of `enqueue` is relaxed in the code (intru_queue.hpp:261), so the order
  of an entry's contents relative to it is outside the model.
* The BIGLOCK build of the queue, mutexes given to `persona_scope`, the yield
  for oversubscribed cores, `progress_required` and `discharge`'s loop are left
  out (the counter that `discharge` waits for is in Operations).
* GASNet is modelled by how it is used: every message arrives, once, in any
  order; a handle completes at some time or never; collectives match in the
  order of the calls on a team. The code relies on that and has no retry of its
  own. The watermark of negotiated payload, and network backpressure other than
  the refusal of an immediate send, are GASNet's.
* User contract, as the documentation states it: collectives are called in the
  same order by all members; a program waits before it destroys a team, and
  synchronises before a distributed object is destructed and before an atomic
  domain is used (without debugging, the creation of a GASNet domain does not
  synchronise).
* The services do not share state in the runs (a job has its own heaps); AmSend
  sends messages to be run and not the operations of Operations, which rests on
  it through "a message arrives once and runs once".
* `payload_owner == payload_sender` (runtime.cpp:1843) compares addresses of
  two processes; the model compares owners.
* A hash (of a team id, of a segment) is injective. Values of futures, payload
  bytes and strides of transfers are data that no property depends on. A
  callback, an rpc body or a then runs as one step where nothing observes it.
* `quiesce_rdzv`: the rendezvous messages of AmSend fetch into private landing
  zones, so that no rank allocates from the shared heap while the counts are
  reduced. The landing zones of broadcasts (runtime.cpp:1912) and the bounce
  buffers of `copy` (copy.hpp:605) are in the shared heap and count as rendezvous
  buffers: a rank that has reported zero may allocate one before the reduction
  ends, and the maximum of zero is then wrong. It takes communication that the
  program has not waited for, which `finalize` forbids; `LifeCycleExact` does not
  look at it. `Sweep` stands for the user progress of the barrier: it serves all
  personas of the process and has no cap, where the code stops after 1000
  callbacks (runtime.cpp:2251) and serves those active on the thread.
* ProgressEngine defers the fulfilment of promises that need no destructor; one
  whose values do is put into the user-level inbox of its persona instead
  (persona.hpp:649), which is left out.
* Rput: that the reply of a remote completion arrives is a step of the network
  here; its handlers are in PutThenAm. A copy between two other ranks
  (copy.hpp:192) is one transfer at the third rank.
* GlobalPtr: the host segments of a run have one size, where the code keeps one
  for each peer (runtime.cpp:983); `validate_global_ptr` leaves out the tests that
  the heap index is in range (runtime.cpp:1446) and that the kind is a valid one,
  which hold for pointers the library made. A pointer travels as its bytes.
* UPC: a job linked with UPC rebuilds its heap only when UPC++ uses UPC's
  allocator.

Not modelled at all: `dl_malloc.c` (vendored; SharedHeap takes the lowest place
that fits); utilities, diagnostics and the parsing of environment variables;
debug printing of every component; `uuid` and `kind_info` of devices; Mach-O
images and the legacy segment map of CCS; the hash of a global pointer.

## 7. Plan

Done: the engine, operations, collective calls and services, modelled and
checked; and the proofs of section 4. What is left is proof, in this order:

1. The table of Devices and the index table of Ccs.
2. Operations: at most one call on each cx_state, and the step simulation of
   CompletionPromise.
3. The collective registry of Teams.

The modules named use no recursive operators, so that theorems can be stated
about them; Serialization and the MC modules that build messages do.
