------------------------------ MODULE FifoQueue ------------------------------
(***************************************************************************)
(* What an intru_queue promises to the code that uses it (lpc inboxes,     *)
(* deferred promises, active futures): entries run one at a time, in the   *)
(* order in which the enqueues took effect, each exactly once, and an      *)
(* entry belongs to the queue until the moment it runs.  The detailed      *)
(* specification MpscQueue is shown to implement this one.                 *)
(***************************************************************************)
EXTENDS Sequences

CONSTANTS Entries,   \* the intrusive queue entries (lpc_base, promise_meta, ...)
          Null       \* "nothing has run yet"

VARIABLES q,         \* entries enqueued and not yet run, oldest first
          ran        \* the entry that ran last

vars == <<q, ran>>

InQueue(e) == \E i \in DOMAIN q : q[i] = e

Init == q = <<>> /\ ran = Null

Enqueue(e) ==
  /\ ~InQueue(e)
  /\ q' = Append(q, e)
  /\ UNCHANGED ran

Run(e) ==
  /\ q # <<>>
  /\ e = Head(q)
  /\ q' = Tail(q)
  /\ ran' = e

Next == \E e \in Entries : Enqueue(e) \/ Run(e)

Spec == Init /\ [][Next]_vars
=============================================================================
