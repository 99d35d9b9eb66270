------------------------------ MODULE BcastEager ------------------------------
(***************************************************************************)
(* bcast_am_master_eager and am_bcast_master_eager (runtime.cpp).  A rank  *)
(* that gets the message copies it into one block that two lpcs of its     *)
(* master persona share: a deferred one that forwards it down the tree and *)
(* the rpc itself.  Whichever finishes last frees the block.  The handler  *)
(* may run on a thread that is not the master's, so the first lpc can run  *)
(* before the second is enqueued.                                          *)
(***************************************************************************)
EXTENDS Naturals, BcastTree

CONSTANTS N,       \* ranks of the team
          Root,    \* the rank that broadcasts
          Split    \* how an interval is split: Eager, in the code

Ranks == 0 .. N - 1

VARIABLES net,      \* messages in flight, [lb, ub]: to rank lb, its interval's end
          handler,  \* per rank: where am_bcast_master_eager is
          fwd,      \* per rank: the forwarding lpc: none, queued, running, done
          rpc,      \* per rank: the rpc's lpc: none, queued, done
          ub,       \* per rank: rank_d_ub of the loop that forwards
          refs,     \* per rank: eager_refs of its block
          block,    \* per rank: none, live, freed
          ran       \* per rank: how often the rpc has run

vars == <<net, handler, fwd, rpc, ub, refs, block, ran>>

\* rank_d_ub with which the root starts
WholeTeam == Root + N

Init ==
  /\ net = {}
  /\ handler = [r \in Ranks |-> "idle"]
  /\ fwd = [r \in Ranks |-> IF r = Root THEN "running" ELSE "none"]
  /\ rpc = [r \in Ranks |-> "none"]
  /\ ub = [r \in Ranks |-> IF r = Root THEN WholeTeam ELSE 0]
  /\ refs = [r \in Ranks |-> 0]
  /\ block = [r \in Ranks |-> "none"]
  /\ ran = [r \in Ranks |-> 0]

\* am_bcast_master_eager: build_eager, eager_refs = 2, and the defer
Receive(p) ==
  /\ p \in net
  /\ handler[p.lb] = "idle"
  /\ net' = net \ {p}
  /\ block' = [block EXCEPT ![p.lb] = "live"]
  /\ refs' = [refs EXCEPT ![p.lb] = 2]
  /\ ub' = [ub EXCEPT ![p.lb] = p.ub]
  /\ fwd' = [fwd EXCEPT ![p.lb] = "queued"]
  /\ handler' = [handler EXCEPT ![p.lb] = "deferred"]
  /\ UNCHANGED <<rpc, ran>>

\* ... and its last statement, tls.enqueue(backend::master, level, m)
EnqueueRpc(r) ==
  /\ handler[r] = "deferred"
  /\ handler' = [handler EXCEPT ![r] = "idle"]
  /\ rpc' = [rpc EXCEPT ![r] = "queued"]
  /\ UNCHANGED <<net, fwd, ub, refs, block, ran>>

BeginForward(r) ==
  /\ fwd[r] = "queued"
  /\ fwd' = [fwd EXCEPT ![r] = "running"]
  /\ UNCHANGED <<net, handler, rpc, ub, refs, block, ran>>

\* One turn of the loop of bcast_am_master_eager.
SendPiece(r) ==
  LET mid == Mid(Split, r, ub[r]) IN
  /\ fwd[r] = "running" /\ mid # r
  /\ net' = net \cup {Piece(N, mid, ub[r])}
  /\ ub' = [ub EXCEPT ![r] = mid]
  /\ UNCHANGED <<handler, fwd, rpc, refs, block, ran>>

\* if(0 == --eager_refs) free(payload)
DropRef(r) ==
  /\ refs' = [refs EXCEPT ![r] = @ - 1]
  /\ block' = [block EXCEPT ![r] = IF refs[r] = 1 THEN "freed" ELSE @]

\* The root's buffer is its caller's, on the stack or in am_buf.
DropUnlessRoot(r) == IF r = Root THEN UNCHANGED <<refs, block>> ELSE DropRef(r)

\* Faulty variant: the reference is dropped before the loop is through.
EndForwardEarly(r) ==
  /\ fwd[r] = "running"
  /\ fwd' = [fwd EXCEPT ![r] = "done"]
  /\ DropUnlessRoot(r)
  /\ UNCHANGED <<net, handler, rpc, ub, ran>>

\* Send-to-self ends the loop.
EndForward(r) ==
  /\ fwd[r] = "running" /\ Mid(Split, r, ub[r]) = r
  /\ fwd' = [fwd EXCEPT ![r] = "done"]
  /\ DropUnlessRoot(r)
  /\ UNCHANGED <<net, handler, rpc, ub, ran>>

\* The master persona runs the rpc, between lpcs, and then bcast_as_lpc::cleanup.
Execute(r) ==
  /\ rpc[r] = "queued" /\ fwd[r] # "running"
  /\ rpc' = [rpc EXCEPT ![r] = "done"]
  /\ ran' = [ran EXCEPT ![r] = @ + 1]
  /\ DropRef(r)
  /\ UNCHANGED <<net, handler, fwd, ub>>

Terminated ==
  /\ net = {}
  /\ \A r \in Ranks : handler[r] = "idle" /\ fwd[r] \in {"none", "done"} /\ rpc[r] # "queued"

Stop == Terminated /\ UNCHANGED vars

Step(r) == EnqueueRpc(r) \/ BeginForward(r) \/ SendPiece(r) \/ EndForward(r) \/ Execute(r)

Next == (\E p \in net : Receive(p)) \/ (\E r \in Ranks : Step(r)) \/ Stop

Spec == Init /\ [][Next]_vars

-----------------------------------------------------------------------------
\* Every variable has its type; no rank's block is released below zero.
TypeOK ==
  /\ net \subseteq [lb : Ranks, ub : 0 .. 2 * N]
  /\ handler \in [Ranks -> {"idle", "deferred"}]
  /\ fwd \in [Ranks -> {"none", "queued", "running", "done"}]
  /\ rpc \in [Ranks -> {"none", "queued", "done"}]
  /\ ub \in [Ranks -> 0 .. 2 * N]
  /\ refs \in [Ranks -> 0 .. 2]
  /\ block \in [Ranks -> {"none", "live", "freed"}]
  /\ ran \in [Ranks -> Nat]

\* The block is there as long as one of the two lpcs, or the handler that has
\* yet to enqueue the second, will read it; it is gone once both are through.
BlockLife ==
  \A r \in Ranks \ {Root} :
    LET used == handler[r] = "deferred" \/ fwd[r] \in {"queued", "running"} \/ rpc[r] = "queued"
    IN  /\ used => block[r] = "live"
        /\ ~used => block[r] # "live"
-----------------------------------------------------------------------------
(* The inductive invariant behind BlockLife and the promise: every rank is  *)
(* answered for by one message or one forwarding rank, until it is reached. *)

\* Nothing about the broadcast has reached rank q.
Fresh(q) ==
  /\ handler[q] = "idle" /\ fwd[q] = "none" /\ rpc[q] = "none"
  /\ refs[q] = 0 /\ block[q] = "none" /\ ran[q] = 0

Forwarding(r) == fwd[r] \in {"queued", "running"}
InMessage(p, q) == Covers(N, p.lb, p.ub, q)
InHand(r, q)    == Forwarding(r) /\ Covers(N, r, ub[r], q)

\* An interval starts at its rank and is no longer than the team.
IntervalsOK ==
  /\ \A p \in net : p.lb < p.ub /\ p.ub <= p.lb + N
  /\ \A r \in Ranks : Forwarding(r) => r < ub[r] /\ ub[r] <= r + N

\* A rank that somebody else is to tell has heard nothing, and only one is to tell it.
ToldOnce ==
  \A q \in Ranks :
    /\ \A p \in net : InMessage(p, q) => Fresh(q)
    /\ \A r \in Ranks \ {q} : InHand(r, q) => Fresh(q)
    /\ \A p1, p2 \in net : InMessage(p1, q) /\ InMessage(p2, q) => p1 = p2
    /\ \A p \in net, r \in Ranks : ~(InMessage(p, q) /\ InHand(r, q))
    /\ \A r1, r2 \in Ranks : InHand(r1, q) /\ InHand(r2, q) => r1 = r2

NobodyForgotten ==
  \A q \in Ranks : Fresh(q) => \/ \E p \in net : InMessage(p, q)
                               \/ \E r \in Ranks : InHand(r, q)

\* The lpcs that will still use rank r's block, the one yet to be enqueued included.
Users(r) == (IF Forwarding(r) THEN 1 ELSE 0)
              + (IF handler[r] = "deferred" \/ rpc[r] = "queued" THEN 1 ELSE 0)

\* A rank that was reached: its block counts its users.
Reached(r) ==
  /\ fwd[r] # "none" /\ (handler[r] = "deferred" <=> rpc[r] = "none")
  /\ refs[r] = Users(r) /\ block[r] = (IF Users(r) = 0 THEN "freed" ELSE "live")
  /\ ran[r] = IF rpc[r] = "done" THEN 1 ELSE 0

RootOK ==
  /\ handler[Root] = "idle" /\ rpc[Root] = "none" /\ ran[Root] = 0
  /\ fwd[Root] \in {"running", "done"}

EagerInv ==
  /\ TypeOK /\ IntervalsOK /\ ToldOnce /\ NobodyForgotten /\ RootOK
  /\ \A r \in Ranks \ {Root} : Fresh(r) \/ Reached(r)
===============================================================================
