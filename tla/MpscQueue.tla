------------------------------ MODULE MpscQueue ------------------------------
(***************************************************************************)
(* intru_queue<T, mpsc> of src/intru_queue.hpp, the lock-free queue behind  *)
(* every persona's peer inbox: any number of producers, one consumer.      *)
(* One action per access to shared memory, so every interleaving the       *)
(* atomics allow (under sequential consistency) is a behaviour here.       *)
(*                                                                         *)
(* A "cell" is a memory word that holds a T*: the queue's head_, or the    *)
(* intruder of an entry.  The tail is the address of a cell, as in the     *)
(* code once the xor with &head_ is undone (decode_tailp/encode_tailp).    *)
(* An entry is its own address: link[e] is e->intruder.p.                  *)
(***************************************************************************)
EXTENDS Naturals, Sequences, FiniteSets

CONSTANTS Entries,     \* addresses of queue entries; one is reused after it ran
          Producers,   \* threads that enqueue
          Budgets,     \* the values of max_n that burst is called with
          HeadCell,    \* &head_
          Null         \* nullptr

ASSUME QueueAssumption ==
  /\ HeadCell \notin Entries
  /\ Null \notin Entries \cup {HeadCell}
  /\ Budgets \subseteq Nat \ {0}

Cells == Entries \cup {HeadCell}

VARIABLES
  link,    \* contents of each cell: head_ and the entries' intruders
  tail,    \* the cell the next enqueue will write (decoded tailp_xor_head_)
  free,    \* entries no one owns: not yet allocated, or run and deleted
  ppc,     \* [Producers -> {"idle", "swap", "link"}]
  item,    \* x, the entry the producer is enqueueing
  got,     \* the cell the producer's exchange returned
  cpc,     \* where the consumer is
  p,       \* the consumer's local p (burst_something) or head (dequeue)
  nxt,     \* the consumer's local head_next (dequeue)
  last,    \* the consumer's local last_next (burst_something)
  exec_n,  \* entries run so far by this burst
  max_n,   \* the budget of this burst
  order,   \* history: entries in the order of their exchanges, not yet run
  ndet,    \* history: how many entries of order the consumer has detached
  ran      \* history: the entry that ran last

prodVars == <<ppc, item, got>>
consVars == <<cpc, p, nxt, last, exec_n, max_n>>
vars == <<link, tail, free, prodVars, consVars, order, ndet, ran>>

ConsumerLocs == {"idle", "scan", "publish", "reset", "take", "drain",
                 "deqload", "deqstore", "deqcas", "deqspin", "deqfix"}

TypeOK ==
  /\ link \in [Cells -> Entries \cup {Null}]
  /\ tail \in Cells
  /\ free \subseteq Entries
  /\ ppc \in [Producers -> {"idle", "swap", "link"}]
  /\ item \in [Producers -> Entries \cup {Null}]
  /\ got \in [Producers -> Cells \cup {Null}]
  /\ cpc \in ConsumerLocs
  /\ p \in Entries \cup {Null}
  /\ nxt \in Entries \cup {Null}
  /\ last \in Cells \cup {Null}
  /\ exec_n \in Nat
  /\ max_n \in Nat
  /\ order \in Seq(Entries)
  /\ ndet \in Nat
  /\ ran \in Entries \cup {Null}

Init ==
  /\ link = [c \in Cells |-> Null]
  /\ tail = HeadCell
  /\ free = Entries
  /\ ppc = [t \in Producers |-> "idle"]
  /\ item = [t \in Producers |-> Null]
  /\ got = [t \in Producers |-> Null]
  /\ cpc = "idle" /\ p = Null /\ nxt = Null /\ last = Null
  /\ exec_n = 0 /\ max_n = 0
  /\ order = <<>> /\ ndet = 0 /\ ran = Null

-----------------------------------------------------------------------------
(* enqueue(x) *)

\* The producer has allocated x; (x->*next).p.store(nullptr).
EnqueueBegin(t, x) ==
  /\ ppc[t] = "idle"
  /\ x \in free
  /\ free' = free \ {x}
  /\ link' = [link EXCEPT ![x] = Null]
  /\ item' = [item EXCEPT ![t] = x]
  /\ ppc' = [ppc EXCEPT ![t] = "swap"]
  /\ UNCHANGED <<tail, got, consVars, order, ndet, ran>>

\* tailp_xor_head_.exchange: x is in the queue from here on.
EnqueueExchange(t) ==
  /\ ppc[t] = "swap"
  /\ got' = [got EXCEPT ![t] = tail]
  /\ tail' = item[t]
  /\ order' = Append(order, item[t])
  /\ ppc' = [ppc EXCEPT ![t] = "link"]
  /\ UNCHANGED <<link, free, item, consVars, ndet, ran>>

\* got->store(x)
EnqueueLink(t) ==
  /\ ppc[t] = "link"
  /\ link' = [link EXCEPT ![got[t]] = item[t]]
  /\ ppc' = [ppc EXCEPT ![t] = "idle"]
  /\ item' = [item EXCEPT ![t] = Null]
  /\ got' = [got EXCEPT ![t] = Null]
  /\ UNCHANGED <<tail, free, consVars, order, ndet, ran>>

-----------------------------------------------------------------------------
(* The consumer.  Run(e) is fn(e), execute_and_delete: e's memory goes     *)
(* back to the allocator.  An enqueue made by the callback itself is a     *)
(* step of some producer.                                                  *)

Run(e) ==
  /\ free' = free \cup {e}
  /\ order' = Tail(order)
  /\ ndet' = IF ndet > 0 THEN ndet - 1 ELSE 0
  /\ ran' = e

RunNothing == UNCHANGED <<free, order, ndet, ran>>

\* burst(max_n): head_.load(); an empty queue returns 0 (a stutter here).
BurstBegin(n) ==
  /\ cpc = "idle"
  /\ link[HeadCell] # Null
  /\ p' = link[HeadCell]
  /\ exec_n' = 0 /\ max_n' = n
  /\ cpc' = "scan"
  /\ RunNothing
  /\ UNCHANGED <<link, tail, prodVars, nxt, last>>

\* One turn of the first loop whose p->next is set: run p, step to p_next.
BurstScan ==
  /\ cpc = "scan"
  /\ link[p] # Null
  /\ Run(p)
  /\ p' = link[p]
  /\ exec_n' = exec_n + 1
  /\ cpc' = IF max_n = exec_n + 1 THEN "publish" ELSE "scan"
  /\ UNCHANGED <<link, tail, prodVars, nxt, last, max_n>>

\* Faulty variant: run what looks like the last entry without detaching it.
BurstScanEndRunsLast ==
  /\ cpc = "scan"
  /\ link[p] = Null
  /\ \/ exec_n # 0 /\ cpc' = "publish" /\ RunNothing /\ UNCHANGED p
     \/ exec_n = 0 /\ cpc' = "reset" /\ Run(p) /\ UNCHANGED p
  /\ UNCHANGED <<link, tail, prodVars, nxt, last, exec_n, max_n>>

\* p->next is null: p looks like the last entry.
BurstScanEnd ==
  /\ cpc = "scan"
  /\ link[p] = Null
  /\ cpc' = IF exec_n # 0 THEN "publish" ELSE "reset"
  /\ RunNothing
  /\ UNCHANGED <<link, tail, prodVars, p, nxt, last, exec_n, max_n>>

\* Faulty variant: return from the budget exit without storing head_.
BurstPublishForgets ==
  /\ cpc = "publish"
  /\ cpc' = "idle" /\ p' = Null /\ exec_n' = 0 /\ max_n' = 0
  /\ RunNothing
  /\ UNCHANGED <<link, tail, prodVars, nxt, last>>

\* head_.store(p) and return.
BurstPublish ==
  /\ cpc = "publish"
  /\ link' = [link EXCEPT ![HeadCell] = p]
  /\ cpc' = "idle" /\ p' = Null /\ exec_n' = 0 /\ max_n' = 0
  /\ RunNothing
  /\ UNCHANGED <<tail, prodVars, nxt, last>>

\* Faulty variant: exchange the tail before head_ is cleared.
BurstResetSkipped ==
  /\ cpc = "reset"
  /\ cpc' = "take"
  /\ RunNothing
  /\ UNCHANGED <<link, tail, prodVars, p, nxt, last, exec_n, max_n>>

\* head_.store(nullptr)
BurstReset ==
  /\ cpc = "reset"
  /\ link' = [link EXCEPT ![HeadCell] = Null]
  /\ cpc' = "take"
  /\ RunNothing
  /\ UNCHANGED <<tail, prodVars, p, nxt, last, exec_n, max_n>>

\* last_next = tail.exchange(&head_): everything up to last_next is ours.
BurstTake ==
  /\ cpc = "take"
  /\ last' = tail
  /\ tail' = HeadCell
  /\ ndet' = Len(order)
  /\ cpc' = "drain"
  /\ UNCHANGED <<link, free, prodVars, p, nxt, exec_n, max_n, order, ran>>

\* An entry before the last: spin until its next is set, run it; the budget
\* is not looked at.
BurstDrain ==
  /\ cpc = "drain"
  /\ p # last
  /\ link[p] # Null
  /\ Run(p)
  /\ p' = link[p]
  /\ exec_n' = exec_n + 1
  /\ UNCHANGED <<link, tail, prodVars, cpc, nxt, last, max_n>>

\* "And now the last."
BurstDrainLast ==
  /\ cpc = "drain"
  /\ p = last
  /\ Run(p)
  /\ cpc' = "idle" /\ p' = Null /\ last' = Null /\ exec_n' = 0 /\ max_n' = 0
  /\ UNCHANGED <<link, tail, prodVars, nxt>>

-----------------------------------------------------------------------------
(* dequeue(), called only when head_ is not null (it asserts that).        *)

DequeueBegin ==
  /\ cpc = "idle"
  /\ link[HeadCell] # Null
  /\ p' = link[HeadCell]
  /\ cpc' = "deqload"
  /\ RunNothing
  /\ UNCHANGED <<link, tail, prodVars, nxt, last, exec_n, max_n>>

\* head_next = head->next.load()
DequeueLoad ==
  /\ cpc = "deqload"
  /\ nxt' = link[p]
  /\ cpc' = "deqstore"
  /\ RunNothing
  /\ UNCHANGED <<link, tail, prodVars, p, last, exec_n, max_n>>

DequeueReturn ==
  /\ Run(p)
  /\ cpc' = "idle" /\ p' = Null /\ nxt' = Null
  /\ UNCHANGED <<last, exec_n, max_n>>

\* head_.store(head_next); done unless that made head_ null.
DequeueStore ==
  /\ cpc = "deqstore"
  /\ link' = [link EXCEPT ![HeadCell] = nxt]
  /\ \/ /\ nxt # Null
        /\ DequeueReturn
     \/ /\ nxt = Null
        /\ cpc' = "deqcas"
        /\ RunNothing
        /\ UNCHANGED <<p, nxt, last, exec_n, max_n>>
  /\ UNCHANGED <<tail, prodVars>>

\* Faulty variant: return on a failed compare-exchange without waiting.
DequeueCasNoSpin ==
  /\ cpc = "deqcas"
  /\ tail' = IF tail = p THEN HeadCell ELSE tail
  /\ DequeueReturn
  /\ UNCHANGED <<link, prodVars>>

\* tail.compare_exchange_strong(&head->next, &head_)
DequeueCas ==
  /\ cpc = "deqcas"
  /\ \/ /\ tail = p
        /\ tail' = HeadCell
        /\ DequeueReturn
     \/ /\ tail # p
        /\ cpc' = "deqspin"
        /\ RunNothing
        /\ UNCHANGED <<tail, p, nxt, last, exec_n, max_n>>
  /\ UNCHANGED <<link, prodVars>>

\* The enqueue that won the race has linked its entry.
DequeueSpin ==
  /\ cpc = "deqspin"
  /\ link[p] # Null
  /\ nxt' = link[p]
  /\ cpc' = "deqfix"
  /\ RunNothing
  /\ UNCHANGED <<link, tail, prodVars, p, last, exec_n, max_n>>

DequeueFix ==
  /\ cpc = "deqfix"
  /\ link' = [link EXCEPT ![HeadCell] = nxt]
  /\ DequeueReturn
  /\ UNCHANGED <<tail, prodVars>>

-----------------------------------------------------------------------------

Producer(t) ==
  \/ \E x \in Entries : EnqueueBegin(t, x)
  \/ EnqueueExchange(t)
  \/ EnqueueLink(t)

Burst ==
  \/ \E n \in Budgets : BurstBegin(n)
  \/ BurstScan \/ BurstScanEnd \/ BurstPublish
  \/ BurstReset \/ BurstTake \/ BurstDrain \/ BurstDrainLast

Dequeue ==
  \/ DequeueBegin \/ DequeueLoad \/ DequeueStore
  \/ DequeueCas \/ DequeueSpin \/ DequeueFix

Next == (\E t \in Producers : Producer(t)) \/ Burst \/ Dequeue

Spec == Init /\ [][Next]_vars

(* A producer that has started an enqueue finishes it, and the owner of    *)
(* the queue keeps making progress calls: nothing makes a producer start.  *)
Fairness ==
  /\ \A t \in Producers : WF_vars(EnqueueExchange(t) \/ EnqueueLink(t))
  /\ WF_vars(Burst)
  /\ WF_vars(DequeueLoad \/ DequeueStore \/ DequeueCas \/ DequeueSpin \/ DequeueFix)

FairSpec == Spec /\ Fairness
-----------------------------------------------------------------------------
(* Properties *)

(* The consumer has the oldest entry in a local variable and head_ no      *)
(* longer leads to it (or is about to stop doing so).                      *)
Held == cpc \in {"scan", "publish", "reset", "take", "drain",
                 "deqcas", "deqspin", "deqfix"}

(* The cell through which order[i] is, or will be, reached.                *)
PredCell(i) == IF i = ndet + 1 THEN HeadCell ELSE order[i - 1]

Pending(t, c, e) == ppc[t] = "link" /\ got[t] = c /\ item[t] = e

OrderOK ==
  /\ ndet <= Len(order)
  /\ cpc = "drain" <=> ndet > 0
  /\ \A i, j \in 1..Len(order) : order[i] = order[j] => i = j
  /\ \A i \in 1..Len(order) : order[i] \notin free

TailOK ==
  /\ tail = IF ndet < Len(order) THEN order[Len(order)] ELSE HeadCell
  /\ order # <<>> => link[order[Len(order)]] = Null
  /\ ndet > 0 => link[order[ndet]] = Null
  /\ ndet = Len(order) => link[HeadCell] = Null

(* No entry is lost: each one whose exchange has happened is reachable     *)
(* from its predecessor's cell, or the producer that will link it is on    *)
(* its way, or the consumer already holds it.                              *)
Reachable ==
  \A i \in 1..Len(order) :
    \/ i = 1 /\ Held
    \/ link[PredCell(i)] = order[i]
    \/ /\ link[PredCell(i)] = Null
       /\ \E t \in Producers : Pending(t, PredCell(i), order[i])

(* A producer between its exchange and its store writes the cell of its    *)
(* own predecessor, which is still empty and which the consumer has not    *)
(* passed.                                                                 *)
ProducersOK ==
  /\ \A t \in Producers : ppc[t] = "link" =>
       \E i \in 1..Len(order) :
         /\ item[t] = order[i]
         /\ got[t] = PredCell(i)
         /\ link[got[t]] = Null
         /\ ~(i = 1 /\ Held)
  /\ \A t \in Producers : ppc[t] = "swap" =>
       /\ item[t] \in Entries \ free
       /\ link[item[t]] = Null
       /\ \A i \in 1..Len(order) : order[i] # item[t]
  /\ \A t, u \in Producers :
       ppc[t] # "idle" /\ ppc[u] # "idle" /\ item[t] = item[u] => t = u

ConsumerOK ==
  /\ cpc # "idle" => order # <<>> /\ p = order[1]
  /\ cpc = "drain" => last = order[ndet]
  /\ cpc \in {"take", "deqcas", "deqspin", "deqfix"} => link[HeadCell] = Null
  /\ cpc \in {"deqload", "deqstore"} => link[HeadCell] = p
  /\ cpc = "deqstore" => nxt = Null \/ (Len(order) > 1 /\ nxt = order[2] /\ nxt = link[p])
  /\ cpc = "deqspin" => Len(order) > 1
  /\ cpc = "deqfix" => Len(order) > 1 /\ nxt = order[2] /\ nxt = link[p]

(* The inductive invariant.                                                *)
QueueInv == TypeOK /\ OrderOK /\ TailOK /\ Reachable /\ ProducersOK /\ ConsumerOK

(* No thread follows or writes a pointer into an entry that has run and    *)
(* been deleted: "it isn't safe to execute an element without knowing its  *)
(* successor first (thanks to execute_and_DELETE)".                        *)
NoUseAfterFree ==
  /\ \A t \in Producers : ppc[t] = "link" => got[t] \notin free
  /\ cpc # "idle" => p \notin free
  /\ cpc = "drain" => last \notin free

(* The queue is a FIFO whose enqueues take effect at the exchange: entries *)
(* run exactly once, in that order.                                        *)
Fifo == INSTANCE FifoQueue WITH q <- order

ImplementsFifo == Fifo!Spec

(* Every entry whose exchange has happened eventually runs; in particular  *)
(* the spins of the consumer end and no entry stays detached.              *)
EveryEntryRuns ==
  \A e \in Entries : (\E i \in DOMAIN order : order[i] = e) ~> (ran = e)
=============================================================================
