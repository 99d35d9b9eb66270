----------------------------- MODULE HandleCbQueue -----------------------------
(***************************************************************************)
(* handle_cb_queue (backend/gasnet/handle_cb.hpp and runtime.cpp): a       *)
(* persona's singly linked list of callbacks waiting for GASNet handles,   *)
(* polled from the front by burst().  A callback may register more at the  *)
(* tail and, a source-completion callback, put its operation's callback    *)
(* right where it was itself (handle_cb_successor).  burst() gives up      *)
(* after a number of handles in a row that are not ready; fruitless bursts *)
(* of a spinning progress() make it look further the next time.            *)
(*                                                                         *)
(* Slot 0 stands for the head_ field and slot c for the next_ field of     *)
(* callback c, so that pp and tailp are slots; value 0 is the null pointer *)
(* and Unlinked the 0x1 of a callback that is in no list.  One thread      *)
(* holds the persona; handles become ready at any time.                    *)
(***************************************************************************)
EXTENDS Integers, FiniteSets

CONSTANTS MaxCbs,      \* callbacks created in a behaviour
          MissBase,    \* non-ready handles in a row that end a burst: 4
          MissSlack,   \* extra misses forgiven per fruitless burst: 4
          AbortCap,    \* bound of aborted_burst_n_: 1024
          InCallback   \* callbacks one callback may register

ASSUME HandleCbQueueAssumption ==
  /\ MaxCbs \in Nat /\ MissBase \in Nat \ {0}
  /\ MissSlack \in Nat /\ AbortCap \in Nat /\ InCallback \in Nat

Cbs == 1 .. MaxCbs
Slots == 0 .. MaxCbs
Unlinked == MaxCbs + 1

VARIABLES
  next,      \* the list: slot -> callback
  tailp,     \* the slot get_tailp() designates
  aborted,   \* aborted_burst_n_
  created,   \* number of callbacks created so far
  srcs,      \* those that are source callbacks; c's operation callback is c + 1
  ready,     \* callbacks whose handle has completed
  done,      \* callbacks executed
  pc,        \* out of burst(), scanning, or in a callback
  spin,      \* the maybe_spinning argument
  pp, miss, limit, execs,   \* burst()'s pp, miss_n, miss_limit and exec_n
  cur,       \* the callback being executed
  added      \* callbacks it has registered

list  == <<next, tailp>>
world == <<created, srcs>>
frame == <<pc, spin, pp, miss, limit, execs, cur, added>>
vars  == <<list, aborted, world, ready, done, frame>>

Init ==
  /\ next = [s \in Slots |-> IF s = 0 THEN 0 ELSE Unlinked]
  /\ tailp = 0
  /\ aborted = 0
  /\ created = 0
  /\ srcs = {} /\ ready = {} /\ done = {}
  /\ pc = "out" /\ spin = FALSE
  /\ pp = 0 /\ miss = 0 /\ limit = MissBase /\ execs = 0
  /\ cur = 0 /\ added = 0

\* An operation is injected and its first callback registered, by the thread
\* outside burst() or by a callback: handle_cb_queue::enqueue.
Enqueue(c) ==
  /\ next' = [next EXCEPT ![c] = 0, ![tailp] = c]
  /\ tailp' = c

Register(n) ==
  /\ \/ pc = "out" /\ added' = added
     \/ pc = "call" /\ added < InCallback /\ added' = added + 1
  /\ n \in {1, 2} /\ created + n <= MaxCbs
  /\ Enqueue(created + 1)
  /\ created' = created + n
  /\ srcs' = IF n = 2 THEN srcs \cup {created + 1} ELSE srcs
  /\ UNCHANGED <<aborted, ready, done, pc, spin, pp, miss, limit, execs, cur>>

\* GASNet: a handle completes, the source's not after the operation's.
Completes(c) ==
  /\ c <= created /\ c \notin ready
  /\ c - 1 \in srcs => c - 1 \in ready
  /\ ready' = ready \cup {c}
  /\ UNCHANGED <<list, aborted, world, done, frame>>

BurstBegin(s) ==
  /\ pc = "out"
  /\ pc' = "scan"
  /\ spin' = s
  /\ pp' = 0
  /\ limit' = MissBase + (IF s THEN aborted ELSE 0)
  /\ miss' = -(MissSlack * (IF s THEN aborted ELSE 0))
  /\ execs' = 0
  /\ UNCHANGED <<list, aborted, world, ready, done, cur, added>>

\* Faulty variant: the tail is left where it was when the last callback goes.
UnlinkNoTail(p) ==
  /\ next' = [next EXCEPT ![pp] = next[p]]
  /\ tailp' = tailp

\* remove from queue
Unlink(p) ==
  /\ next' = [next EXCEPT ![pp] = next[p]]
  /\ tailp' = IF next[p] = 0 THEN pp ELSE tailp

\* Faulty variant: a callback is run without testing its handle.
BurstHitUntested ==
  LET p == next[pp] IN
  /\ pc = "scan" /\ p # 0
  /\ Unlink(p)
  /\ pc' = "call"
  /\ cur' = p
  /\ added' = 0
  /\ UNCHANGED <<aborted, world, ready, done, spin, pp, miss, limit, execs>>

BurstHit ==
  LET p == next[pp] IN
  /\ pc = "scan" /\ p # 0 /\ p \in ready
  /\ Unlink(p)
  /\ pc' = "call"
  /\ cur' = p
  /\ added' = 0
  /\ UNCHANGED <<aborted, world, ready, done, spin, pp, miss, limit, execs>>

\* handle_cb_successor::operator()
Successor(c) ==
  IF next[c] = Unlinked
  THEN /\ tailp' = IF next[pp] = 0 THEN c ELSE tailp
       /\ next' = [next EXCEPT ![c] = next[pp], ![pp] = c]
  ELSE UNCHANGED list

\* execute_and_delete ends: a source callback, having notified, adds its
\* operation's callback; the burst's miss streak and abort history end.
CallEnd ==
  /\ pc = "call"
  /\ IF cur \in srcs THEN Successor(cur + 1) ELSE UNCHANGED list
  /\ done' = done \cup {cur}
  /\ execs' = execs + 1
  /\ miss' = 0
  /\ aborted' = 0
  /\ pc' = "scan"
  /\ cur' = 0 /\ added' = 0
  /\ UNCHANGED <<world, ready, spin, pp, limit>>

\* Faulty variant: a fruitless burst leaves no trace.
HistoryLost == aborted

\* The abort history after the burst has run into its miss limit.
History ==
  IF spin /\ execs = 0
  THEN IF aborted + 1 < AbortCap THEN aborted + 1 ELSE AbortCap
  ELSE aborted

\* burst() returns; its locals are gone.
Leave ==
  /\ pc' = "out" /\ spin' = FALSE
  /\ pp' = 0 /\ miss' = 0 /\ limit' = MissBase /\ execs' = 0

BurstMiss ==
  LET p == next[pp] IN
  /\ pc = "scan" /\ p # 0 /\ p \notin ready /\ miss + 1 # limit
  /\ miss' = miss + 1
  /\ pp' = p
  /\ UNCHANGED <<list, aborted, world, ready, done, pc, spin, limit, execs, cur, added>>

BurstAbort ==
  LET p == next[pp] IN
  /\ pc = "scan" /\ p # 0 /\ p \notin ready /\ miss + 1 = limit
  /\ aborted' = History
  /\ Leave
  /\ UNCHANGED <<list, world, ready, done, cur, added>>

BurstEnd ==
  /\ pc = "scan" /\ next[pp] = 0
  /\ Leave
  /\ UNCHANGED <<list, aborted, world, ready, done, cur, added>>

Burst == BurstHit \/ CallEnd \/ BurstMiss \/ BurstAbort \/ BurstEnd

Next == \/ \E n \in 1 .. 2 : Register(n)
        \/ \E c \in Cbs : Completes(c)
        \/ \E s \in BOOLEAN : BurstBegin(s)
        \/ Burst

Spec == Init /\ [][Next]_vars

\* A burst under way goes on, callbacks return, and the application keeps
\* calling progress(), which bursts spinning, whatever else it does between.
FairSpec == Spec /\ WF_vars(Burst) /\ SF_vars(BurstBegin(TRUE))

-----------------------------------------------------------------------------
\* Every variable has its type; the scan never passes its miss limit.
TypeOK ==
  /\ next \in [Slots -> 0 .. MaxCbs + 1]
  /\ tailp \in Slots /\ aborted \in 0 .. AbortCap
  /\ created \in Slots /\ srcs \subseteq Cbs /\ ready \subseteq Cbs
  /\ done \subseteq Cbs
  /\ pc \in {"out", "scan", "call"} /\ spin \in BOOLEAN
  /\ pp \in Slots /\ cur \in Slots /\ added \in 0 .. InCallback
  /\ limit \in MissBase .. MissBase + AbortCap
  /\ miss \in -(MissSlack * AbortCap) .. limit
  /\ execs \in Slots

\* The callbacks the list should hold: created, not executed, not an
\* operation's whose source callback has yet to be executed.
Waiting ==
  {c \in 1 .. created :
     /\ c \notin done
     /\ ~(pc = "call" /\ c = cur)
     /\ c - 1 \in srcs => c - 1 \in done}

\* The slots of the list, followed from head_ on.
Follow == [s \in Slots \cup {Unlinked} |-> IF s = Unlinked THEN Unlinked ELSE next[s]]
Reach ==
  LET at[i \in Nat] == IF i = 0 THEN 0 ELSE Follow[at[i - 1]]
  IN  at

\* The list holds the waiting callbacks, each once, ends in a null pointer
\* where the tail says, and the scan stands on a live slot of it: registering
\* from a callback and inserting a successor never lose or cross a link.
ListExact ==
  LET n == Cardinality(Waiting) IN
    /\ {Reach[i] : i \in 1 .. n} = Waiting
    /\ tailp = Reach[n] /\ next[tailp] = 0
    /\ pc # "out" => \E i \in 0 .. n : pp = Reach[i]

\* The list survives callbacks that register others, and a scan keeps within
\* the limits that its miss counter and the abort history have (burst).
QueueSound == TypeOK /\ ListExact

\* Nothing runs twice, before its handle is ready, or, for an operation, before
\* its source callback has run (which owns the object both live in).
RunsInOrder ==
  /\ done \subseteq ready
  /\ pc = "call" => cur \in ready \ done
  /\ \A c \in done : c - 1 \in srcs => c - 1 \in done

\* A ready handle's callback runs, however many handles in front of it never
\* become ready (up to the MissBase + (MissSlack + 1) * AbortCap a burst sees).
ReadyRuns ==
  \A c \in Cbs : (c \in ready /\ c \in Waiting) ~> (c \in done)
-----------------------------------------------------------------------------
(* The inductive invariant behind QueueSound and RunsInOrder.               *)

\* An operation's callback follows its source callback's, which runs first.
\* Until then, and until it is created, a callback is in no list.
CallbacksOK ==
  /\ \A c \in srcs : c + 1 <= created /\ c + 1 \notin srcs
  /\ done \subseteq ready /\ ready \subseteq 1 .. created
  /\ \A c \in done : c - 1 \in srcs => c - 1 \in done
  /\ \A c \in Cbs : c > created \/ (c - 1 \in srcs \ done) => next[c] = Unlinked

\* The burst's frame: the callback it runs is none of the list's, and what it has counted.
BurstOK ==
  /\ IF pc = "call" THEN cur \in ready \ done /\ (cur - 1 \in srcs => cur - 1 \in done)
                    ELSE cur = 0
  /\ execs <= Cardinality(done)
  /\ miss < limit

\* q holds the n slots that follow head_, in their order.
Chain(q, n) ==
  /\ q \in [0 .. n -> Slots] /\ q[0] = 0 /\ q[n] = tailp /\ next[tailp] = 0
  /\ \A i \in 1 .. n : q[i] = next[q[i - 1]]
  /\ \A i, j \in 0 .. n : q[i] = q[j] => i = j
  /\ {q[i] : i \in 1 .. n} = Waiting
  /\ pc # "out" => \E i \in 0 .. n : pp = q[i]

Linked == \E q \in [0 .. Cardinality(Waiting) -> Slots] : Chain(q, Cardinality(Waiting))

CbInv == TypeOK /\ CallbacksOK /\ BurstOK /\ Linked
===============================================================================
