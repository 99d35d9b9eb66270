------------------------------- MODULE BcastRdzv -------------------------------
(***************************************************************************)
(* bcast_am_master_rdzv and bcast_as_lpc::cleanup (runtime.cpp): a command *)
(* too long for a message stays in its owner's shared heap and the ranks   *)
(* fetch it.  A rank on the sender's node reads it in place: it runs the   *)
(* rpc out of the owner's buffer and forwards it on the owner's behalf.  A *)
(* rank elsewhere gets a copy into a buffer of its own, which then serves  *)
(* its part of the tree, and tells the old owner.                          *)
(*                                                                         *)
(* rdzv_refs in the buffer counts the messages and rpcs that still need    *)
(* it: forwarding adds its messages before it sends the first, since a     *)
(* receiver may be through before the next is sent.  Restricted AMs run in *)
(* handlers, on any thread; the rest on the master persona of a rank.      *)
(***************************************************************************)
EXTENDS Naturals, BcastTree, FiniteSets

CONSTANTS N,       \* ranks of the team
          Root,    \* the rank that broadcasts
          Node     \* the node (shared-memory neighbourhood) of each rank

Ranks == 0 .. N - 1

ASSUME BcastRdzvAssumption ==
  /\ N \in Nat \ {0} /\ Root \in Ranks
  /\ Node \in [Ranks -> Nat]

NoRank == N

VARIABLES
  net,      \* forwarded messages in flight, [to, ub, from, owner]
  pc,       \* per rank: where its master persona is with this broadcast
  ub,       \* per rank: rank_d_ub of its forwarding loop
  owner,    \* per rank: whose buffer it reads (its wrank_owner)
  src,      \* per rank: the owner to notify once its GET is done, or NoRank
  loaded,   \* per rank: refs as its non-atomic increment has read it
  refs,     \* per rank: rdzv_refs of its own buffer
  buffer,   \* per rank: its own buffer: none, live, freed
  drops,    \* restricted AMs in flight that decrement an owner's refs: owner -> count
  frees,    \* restricted AMs in flight that deallocate: owner -> count
  twice,    \* buffers deallocated when they were not live
  m,        \* ranks that have built a bcast_as_lpc to enqueue or run
  ran       \* per rank: how often it has run the rpc

vars == <<m, net, pc, ub, owner, src, loaded, refs, buffer, drops, frees, twice, ran>>

IsLocal(r, s) == Node[r] = Node[s]     \* backend::rank_is_local

Zero == [r \in Ranks |-> 0]

\* Faulty variant: the interval goes around the team and includes the root again.
WholeTeamAndMe == Root + N + 1

\* rank_d_ub with which the root starts
WholeTeam == Root + N

\* bcast_am_master has put the command in a new buffer with rdzv_refs 0.
Init ==
  /\ net = {}
  /\ pc = [r \in Ranks |-> IF r = Root THEN "count" ELSE "idle"]
  /\ ub = [r \in Ranks |-> IF r = Root THEN WholeTeam ELSE 0]
  /\ owner = [r \in Ranks |-> IF r = Root THEN Root ELSE NoRank]
  /\ src = [r \in Ranks |-> NoRank]
  /\ loaded = Zero
  /\ refs = Zero
  /\ buffer = [r \in Ranks |-> IF r = Root THEN "live" ELSE "none"]
  /\ drops = Zero
  /\ frees = Zero
  /\ twice = {}
  /\ m = {}
  /\ ran = Zero

\* gasnet::deallocate of rank o's buffer
Deallocate(o) ==
  /\ buffer' = [buffer EXCEPT ![o] = "freed"]
  /\ twice' = IF buffer[o] = "live" THEN twice ELSE twice \cup {o}

KeepBuffers == UNCHANGED <<buffer, twice>>

-----------------------------------------------------------------------------
(* bcast_am_master_rdzv                                                    *)

Count(r) == Messages(Rdzv, r, ub[r])

\* Where forwarding leads when nothing, or nothing more, is to be sent: the
\* root returns to its caller, a receiver goes on to enqueue its rpc.
AfterForward(r) == IF r \in m THEN "enqueue" ELSE "home"

\* payload_owner == payload_sender: the owner adds its messages without an
\* atomic operation, first reading ...
LoadRefs(r) ==
  /\ pc[r] = "count" /\ owner[r] = r
  /\ loaded' = [loaded EXCEPT ![r] = refs[r]]
  /\ pc' = [pc EXCEPT ![r] = "store"]
  /\ UNCHANGED <<m, net, ub, owner, src, refs, drops, frees, ran>> /\ KeepBuffers

\* ... then writing.  A broadcast to nobody frees the buffer at once.
StoreRefs(r) ==
  /\ pc[r] = "store"
  /\ refs' = [refs EXCEPT ![r] = loaded[r] + Count(r)]
  /\ pc' = [pc EXCEPT ![r] = IF Count(r) = 0 THEN AfterForward(r) ELSE "send"]
  /\ IF Count(r) = 0 /\ loaded[r] = 0 THEN Deallocate(r) ELSE KeepBuffers
  /\ UNCHANGED <<m, net, ub, owner, src, loaded, drops, frees, ran>>

\* Faulty variant: a reader on the owner's node forwards without counting.
AddRefsNot(r) ==
  /\ pc[r] = "count" /\ owner[r] # r
  /\ refs' = refs
  /\ pc' = [pc EXCEPT ![r] = IF Count(r) = 0 THEN AfterForward(r) ELSE "send"]
  /\ UNCHANGED <<m, net, ub, owner, src, loaded, drops, frees, ran>> /\ KeepBuffers

\* a reader of somebody else's buffer uses fetch_add
AddRefs(r) ==
  /\ pc[r] = "count" /\ owner[r] # r
  /\ refs' = [refs EXCEPT ![owner[r]] = @ + Count(r)]
  /\ pc' = [pc EXCEPT ![r] = IF Count(r) = 0 THEN AfterForward(r) ELSE "send"]
  /\ UNCHANGED <<m, net, ub, owner, src, loaded, drops, frees, ran>> /\ KeepBuffers

\* one turn of the sending loop
Send(r) ==
  LET mid == Mid(Rdzv, r, ub[r])
      sub == Piece(N, mid, ub[r]) IN
  /\ pc[r] = "send" /\ mid # r
  /\ net' = net \cup {[to |-> sub.lb, ub |-> sub.ub, from |-> r, owner |-> owner[r]]}
  /\ ub' = [ub EXCEPT ![r] = mid]
  /\ UNCHANGED <<m, pc, owner, src, loaded, refs, drops, frees, ran>> /\ KeepBuffers

SendEnd(r) ==
  /\ pc[r] = "send" /\ Mid(Rdzv, r, ub[r]) = r
  /\ pc' = [pc EXCEPT ![r] = AfterForward(r)]
  /\ UNCHANGED <<m, net, ub, owner, src, loaded, refs, drops, frees, ran>> /\ KeepBuffers

-----------------------------------------------------------------------------
(* The command a forwarded message carries, run on the target's master.    *)

\* A second message about the broadcast would be run like the first.
Ready(r) == pc[r] \in {"idle", "home"}

\* from a rank of this node: share the owner's buffer
ReceiveLocal(p) ==
  /\ p \in net /\ Ready(p.to) /\ IsLocal(p.to, p.from)
  /\ net' = net \ {p}
  /\ m' = m \cup {p.to}
  /\ owner' = [owner EXCEPT ![p.to] = p.owner]
  /\ ub' = [ub EXCEPT ![p.to] = p.ub]
  /\ pc' = [pc EXCEPT ![p.to] = "count"]
  /\ UNCHANGED <<src, loaded, refs, drops, frees, ran>> /\ KeepBuffers

\* from elsewhere: build_rdzv_lz in the shared heap, and start the GET
ReceiveRemote(p) ==
  /\ p \in net /\ Ready(p.to) /\ ~IsLocal(p.to, p.from)
  /\ net' = net \ {p}
  /\ m' = m \cup {p.to}
  /\ owner' = [owner EXCEPT ![p.to] = p.to]
  /\ src' = [src EXCEPT ![p.to] = p.owner]
  /\ ub' = [ub EXCEPT ![p.to] = p.ub]
  /\ buffer' = [buffer EXCEPT ![p.to] = "live"]
  /\ pc' = [pc EXCEPT ![p.to] = "get"]
  /\ UNCHANGED <<loaded, refs, drops, frees, twice, ran>>

\* the GET's callback: one reference for the rpc, then forward
GetDone(r) ==
  /\ pc[r] = "get"
  /\ refs' = [refs EXCEPT ![r] = 1]
  /\ pc' = [pc EXCEPT ![r] = "count"]
  /\ UNCHANGED <<m, net, ub, owner, src, loaded, drops, frees, ran>> /\ KeepBuffers

\* tls.enqueue of the rpc; a rank with a copy then tells the old owner
Enqueue(r) ==
  /\ pc[r] = "enqueue"
  /\ pc' = [pc EXCEPT ![r] = "queued"]
  /\ drops' = IF src[r] = NoRank THEN drops ELSE [drops EXCEPT ![src[r]] = @ + 1]
  /\ UNCHANGED <<m, net, ub, owner, src, loaded, refs, frees, ran>> /\ KeepBuffers

\* The master persona runs the rpc and bcast_as_lpc::cleanup: the last reader
\* frees its own copy, or asks the owner to free the buffer it shared.
Execute(r) ==
  LET o == owner[r]
      last == refs[o] = 1 IN
  /\ pc[r] = "queued"
  /\ pc' = [pc EXCEPT ![r] = "home"]
  /\ m' = m \ {r}
  /\ ran' = [ran EXCEPT ![r] = @ + 1]
  /\ refs' = [refs EXCEPT ![o] = @ - 1]
  /\ IF last /\ o = r THEN Deallocate(r) ELSE KeepBuffers
  /\ frees' = IF last /\ o # r THEN [frees EXCEPT ![o] = @ + 1] ELSE frees
  /\ UNCHANGED <<net, ub, owner, src, loaded, drops>>

\* Restricted AM at an owner: a copy has been made.
HandleDrop(o) ==
  /\ drops[o] > 0
  /\ drops' = [drops EXCEPT ![o] = @ - 1]
  /\ refs' = [refs EXCEPT ![o] = @ - 1]
  /\ IF refs[o] = 1 THEN Deallocate(o) ELSE KeepBuffers
  /\ UNCHANGED <<m, net, pc, ub, owner, src, loaded, frees, ran>>

\* Restricted AM at an owner: its buffer's last reader is through.
HandleFree(o) ==
  /\ frees[o] > 0
  /\ frees' = [frees EXCEPT ![o] = @ - 1]
  /\ Deallocate(o)
  /\ UNCHANGED <<m, net, pc, ub, owner, src, loaded, refs, drops, ran>>

Terminated ==
  /\ net = {} /\ drops = Zero /\ frees = Zero
  /\ \A r \in Ranks : pc[r] \in {"idle", "home"}

Stop == Terminated /\ UNCHANGED vars

Receive(p) == ReceiveLocal(p) \/ ReceiveRemote(p)

Step(r) == \/ LoadRefs(r) \/ StoreRefs(r) \/ AddRefs(r) \/ Send(r) \/ SendEnd(r)
           \/ GetDone(r) \/ Enqueue(r) \/ Execute(r) \/ HandleDrop(r) \/ HandleFree(r)

Next == (\E p \in net : Receive(p)) \/ (\E r \in Ranks : Step(r)) \/ Stop

Spec == Init /\ [][Next]_vars

-----------------------------------------------------------------------------
\* Every variable has its type; a count never falls below zero.
TypeOK ==
  /\ net \subseteq [to : Ranks, ub : 0 .. 2 * N, from : Ranks, owner : Ranks]
  /\ pc \in [Ranks -> {"idle", "get", "count", "store", "send", "enqueue", "queued", "home"}]
  /\ ub \in [Ranks -> 0 .. 2 * N]
  /\ owner \in [Ranks -> Ranks \cup {NoRank}]
  /\ src \in [Ranks -> Ranks \cup {NoRank}]
  /\ loaded \in [Ranks -> Nat]
  /\ refs \in [Ranks -> Nat]
  /\ buffer \in [Ranks -> {"none", "live", "freed"}]
  /\ drops \in [Ranks -> Nat] /\ frees \in [Ranks -> Nat]
  /\ twice \subseteq Ranks /\ m \subseteq Ranks
  /\ ran \in [Ranks -> Nat]

\* Rank r will still read rank o's buffer: through the GET it has started,
\* through the rpc it is yet to run, or because messages about it are to go.
Reads(r, o) ==
  \/ pc[r] = "get" /\ src[r] = o
  \/ owner[r] = o /\ (\/ pc[r] \in {"count", "store"}
                      \/ pc[r] = "send" /\ Mid(Rdzv, r, ub[r]) # r
                      \/ r \in m /\ pc[r] \in {"send", "enqueue", "queued"})

\* Nobody reads a buffer that has been freed or not yet filled, and none is
\* freed twice, whatever order messages, rpcs and notices come in.
NoUseAfterFree ==
  /\ twice = {}
  /\ \A r, o \in Ranks : Reads(r, o) => buffer[o] = "live"
  /\ \A p \in net : buffer[p.owner] = "live"

\* When all is quiet every buffer has been freed: what quiesce_rdzv waits for
\* before a rank may finalize.
BuffersReclaimed == Terminated => \A r \in Ranks : buffer[r] # "live"

\* No rank runs the rpc twice and the root does not run it.
Promise == INSTANCE Broadcast
Broadcasts == Promise!Spec
-----------------------------------------------------------------------------
(* The inductive invariant: the tree of intervals as in BcastEager, and a   *)
(* buffer's count is the number of those who hold a reference to it.        *)

\* Nothing about the broadcast has reached rank q.
Fresh(q) ==
  /\ pc[q] = "idle" /\ owner[q] = NoRank /\ src[q] = NoRank /\ q \notin m
  /\ refs[q] = 0 /\ buffer[q] = "none" /\ drops[q] = 0 /\ frees[q] = 0 /\ ran[q] = 0

Forwarding(r) == pc[r] \in {"get", "count", "store", "send"}
InMessage(p, q) == Covers(N, p.to, p.ub, q)
InHand(r, q)    == Forwarding(r) /\ Covers(N, r, ub[r], q)

\* An interval starts at its rank and is no longer than the team.
IntervalsOK ==
  /\ \A p \in net : p.to < p.ub /\ p.ub <= p.to + N
  /\ \A r \in Ranks : Forwarding(r) => r < ub[r] /\ ub[r] <= r + N

\* A rank that somebody else is to tell has heard nothing, and only one is to tell it.
ToldOnce ==
  \A q \in Ranks :
    /\ \A p \in net : InMessage(p, q) => Fresh(q)
    /\ \A r \in Ranks \ {q} : InHand(r, q) => Fresh(q)
    /\ \A p1, p2 \in net : InMessage(p1, q) /\ InMessage(p2, q) => p1 = p2
    /\ \A p \in net, r \in Ranks : ~(InMessage(p, q) /\ InHand(r, q))
    /\ \A r1, r2 \in Ranks : InHand(r1, q) /\ InHand(r2, q) => r1 = r2

NobodyForgotten ==
  \A q \in Ranks : Fresh(q) => \/ \E p \in net : InMessage(p, q)
                               \/ \E r \in Ranks : InHand(r, q)

\* A rank that was reached shares a buffer, or has a copy of one it will tell the owner of.
Reached(r) ==
  /\ pc[r] # "idle" /\ owner[r] \in Ranks
  /\ owner[r] = r <=> src[r] # NoRank
  /\ src[r] # r
  /\ pc[r] \in {"get", "store"} => owner[r] = r
  /\ (r \in m) <=> pc[r] # "home"
  /\ ran[r] = IF pc[r] = "home" THEN 1 ELSE 0

RootOK ==
  /\ pc[Root] \in {"count", "store", "send", "home"}
  /\ owner[Root] = Root /\ src[Root] = NoRank /\ Root \notin m /\ ran[Root] = 0

\* Rank o has a buffer that others may know of.
Sharing(o) == owner[o] = o /\ pc[o] \notin {"idle", "get", "count", "store"}

\* Before that nobody else does, so that o's load and store of its count is safe.
OnlySharedKnown ==
  \A o \in Ranks : ~Sharing(o) =>
    /\ \A p \in net : p.owner # o
    /\ \A r \in Ranks \ {o} : owner[r] # o /\ src[r] # o
    /\ drops[o] = 0 /\ frees[o] = 0

\* Who holds references to o's buffer: messages in flight, ranks that run the rpc out of
\* it, ranks that copy it and have not told o, and messages that are counted but not sent.
InNet(o)    == {p \in net : p.owner = o}
Readers(o)  == {r \in m : owner[r] = o /\ pc[r] # "get"}
Copiers(o)  == {r \in Ranks : src[r] = o /\ pc[r] \in {"get", "count", "store", "send", "enqueue"}}
Promised(o) == {rk \in Ranks \X (1 .. N) :
                  owner[rk[1]] = o /\ pc[rk[1]] = "send" /\ rk[2] <= Count(rk[1])}

References(o) == Cardinality(InNet(o)) + Cardinality(Readers(o)) + Cardinality(Copiers(o))
                   + Cardinality(Promised(o)) + drops[o]

\* The buffer of o is being filled, or is the root's before it is counted.
Filling(o) == pc[o] = "get" \/ (o = Root /\ pc[o] \in {"count", "store"})

\* It is there while it is filled, referred to, or about to be freed by its owner.
BufferOK(o) ==
  /\ frees[o] > 0 => refs[o] = 0 /\ frees[o] = 1
  /\ pc[o] = "store" => loaded[o] = refs[o]
  /\ (buffer[o] = "live") <=> (refs[o] > 0 \/ frees[o] > 0 \/ Filling(o))

CountsExact == \A o \in Ranks : refs[o] = References(o) /\ BufferOK(o)

RdzvInv ==
  /\ TypeOK /\ twice = {} /\ IsFiniteSet(net)
  /\ IntervalsOK /\ ToldOnce /\ NobodyForgotten /\ RootOK
  /\ \A r \in Ranks \ {Root} : Fresh(r) \/ Reached(r)
  /\ OnlySharedKnown /\ CountsExact
===============================================================================
