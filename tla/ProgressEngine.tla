--------------------------- MODULE ProgressEngine ---------------------------
(***************************************************************************)
(* Personas and the progress engine (persona.hpp, and do_progress and      *)
(* after_gasnet of backend/gasnet/runtime.cpp): the threads of a process,  *)
(* each with its stack of persona scopes, move the personas between them   *)
(* and run the lpcs that wait in the inboxes of the personas they hold.    *)
(*                                                                         *)
(* A thread's call stack is frames[t], the callbacks it is inside of, and  *)
(* prog[t], the one progress call it can be inside of.  User code runs at  *)
(* top level and inside user-level callbacks; runtime code runs inside     *)
(* internal-level callbacks and while the network or the handles are       *)
(* polled.  An lpc is an item; what it does is the choice of the actions   *)
(* its frame takes.  Enqueueing to an inbox is one step: MpscQueue shows   *)
(* that the peer inboxes behave like that.  A promise that completions     *)
(* fulfill is itself an lpc of its persona (pros_deferred_trivial_).       *)
(***************************************************************************)
EXTENDS Integers, Sequences, FiniteSets

CONSTANTS
  Threads,
  Nobody,      \* the owner of an inactive persona (a null pointer)
  Shared,      \* personas that are not the default persona of a thread
  Items,       \* lpcs
  Home,        \* promise -> the persona that uses it
  MaxOps,      \* operations start while the counter of their promise is at most this
  ProgressCap, \* do_progress stops looping after this many lpcs (1000)
  AfterCap,    \* after_gasnet does (100)
  BurstMax,    \* lpcs one burst of an inbox runs (100)
  MaxScopes    \* scopes a thread may stack

ASSUME ProgressAssumption ==
  /\ Nobody \notin Threads /\ Threads \cap Shared = {} /\ Items \cap DOMAIN Home = {}
  /\ \A x \in DOMAIN Home : Home[x] \in Threads \cup Shared
  /\ MaxOps \in Nat
  /\ ProgressCap \in Nat \ {0} /\ AfterCap \in Nat \ {0}
  /\ BurstMax \in Nat \ {0} /\ MaxScopes \in Nat \ {0}


Personas == Threads \cup Shared     \* a thread stands for its default persona
Levels   == {"internal", "user"}
Promises == DOMAIN Home

VARIABLES
  owner,       \* persona -> the thread it is active with, or Nobody
  scopes,      \* thread -> its persona_scopes, the top one last
  top,         \* thread -> tls.top_persona
  unique,      \* thread -> the personas of its next_unique_ chain, top last
  progressing, \* thread -> "none" or the level of the progress call it is in
  burstable,   \* thread -> the user bit of burstable_bits
  peer, self,  \* persona -> level -> inbox
  pros,        \* persona -> pros_deferred_trivial_
  pro,         \* promise -> [countdown, deferred]
  pending,     \* promise -> operations it counts that have not completed (history)
  prog,        \* thread -> where its progress call is
  frames,      \* thread -> the callbacks it is inside of, innermost last
  state        \* item or promise -> "new", "queued", "running", "done" (history)

queues   == <<peer, self, pros>>
promises == <<pro, pending>>
stack    == <<scopes, top>>
vars == <<owner, stack, unique, progressing, burstable, queues, promises, prog, frames, state>>

Idle == [phase |-> "idle", at |-> 0, batch |-> <<>>, left |-> 0, exec |-> 0,
         total |-> 0, cap |-> 0, depth |-> 0]

Init ==
  /\ owner = [p \in Personas |-> IF p \in Threads THEN p ELSE Nobody]
  /\ scopes = [t \in Threads |-> <<[persona |-> t, kind |-> "unique", saved |-> t]>>]
  /\ top = [t \in Threads |-> t]
  /\ unique = [t \in Threads |-> <<t>>]
  /\ progressing = [t \in Threads |-> "none"]
  /\ burstable = [t \in Threads |-> FALSE]
  /\ peer = [p \in Personas |-> [l \in Levels |-> <<>>]]
  /\ self = [p \in Personas |-> [l \in Levels |-> <<>>]]
  /\ pros = [p \in Personas |-> <<>>]
  /\ pro = [x \in Promises |-> [countdown |-> 1, deferred |-> 0]]
  /\ pending = [x \in Promises |-> 0]
  /\ prog = [t \in Threads |-> Idle]
  /\ frames = [t \in Threads |-> <<>>]
  /\ state = [i \in Items \cup Promises |-> "new"]

---------------------------------------------------------------------------
(* Where a thread is                                                       *)

Inner(t)  == frames[t][Len(frames[t])]
InFrame(t) == Len(frames[t]) > prog[t].depth
Phase(t)  == prog[t].phase

\* User code is executing: top level, or a user-level callback.
UserCode(t) ==
  IF frames[t] = <<>> THEN Phase(t) = "idle"
  ELSE Inner(t).level = "user" /\ (InFrame(t) \/ Phase(t) = "idle")

\* Runtime code is executing: an internal-level callback, or the polling of
\* the network and of the handles of a persona.
RuntimeCode(t) ==
  \/ frames[t] # <<>> /\ Inner(t).level = "internal" /\ (InFrame(t) \/ Phase(t) = "idle")
  \/ Phase(t) \in {"poll", "handles"} /\ ~ InFrame(t)

---------------------------------------------------------------------------
(* Scopes                                                                  *)

\* The scopes that the frame a thread is in may not pop.
Base(t) == IF frames[t] = <<>> THEN 1 ELSE Inner(t).base

PushRedundant(t, p) ==
  /\ scopes' = [scopes EXCEPT ![t] = Append(@, [persona |-> p, kind |-> "redundant", saved |-> top[t]])]
  /\ top' = [top EXCEPT ![t] = p]

PopRedundant(t) ==
  /\ top' = [top EXCEPT ![t] = scopes[t][Len(scopes[t])].saved]
  /\ scopes' = [scopes EXCEPT ![t] = SubSeq(@, 1, Len(@) - 1)]

\* persona_scope(p): p is inactive, or active with the calling thread.
PushScope(t, p) ==
  /\ UserCode(t) /\ Len(scopes[t]) < MaxScopes
  /\ owner[p] \in {Nobody, t}
  /\ owner' = [owner EXCEPT ![p] = t]
  /\ scopes' = [scopes EXCEPT ![t] = Append(@,
       [persona |-> p, kind |-> IF owner[p] = Nobody THEN "unique" ELSE "again", saved |-> top[t]])]
  /\ top' = [top EXCEPT ![t] = p]
  /\ unique' = IF owner[p] = Nobody THEN [unique EXCEPT ![t] = Append(@, p)] ELSE unique
  /\ UNCHANGED <<progressing, burstable, queues, promises, prog, frames, state>>

\* Faulty variant: the persona is given up even where an outer scope of the thread holds it.
PopScopeAlways(t) ==
  LET s == scopes[t][Len(scopes[t])]
  IN  /\ UserCode(t) /\ Len(scopes[t]) > Base(t)
      /\ scopes' = [scopes EXCEPT ![t] = SubSeq(@, 1, Len(@) - 1)]
      /\ top' = [top EXCEPT ![t] = scopes[t][Len(scopes[t]) - 1].persona]
      /\ owner' = [owner EXCEPT ![s.persona] = Nobody]
      /\ unique' = [unique EXCEPT ![t] = SubSeq(@, 1, Len(@) - 1)]
      /\ UNCHANGED <<progressing, burstable, queues, promises, prog, frames, state>>

\* ~persona_scope: the scopes of a frame end in reverse order, inside it.
PopScope(t) ==
  LET s == scopes[t][Len(scopes[t])]
  IN  /\ UserCode(t) /\ Len(scopes[t]) > Base(t)
      /\ scopes' = [scopes EXCEPT ![t] = SubSeq(@, 1, Len(@) - 1)]
      /\ top' = [top EXCEPT ![t] = scopes[t][Len(scopes[t]) - 1].persona]
      /\ IF s.kind = "unique"
         THEN /\ owner' = [owner EXCEPT ![s.persona] = Nobody]
              /\ unique' = [unique EXCEPT ![t] = SubSeq(@, 1, Len(@) - 1)]
         ELSE UNCHANGED <<owner, unique>>
      /\ UNCHANGED <<progressing, burstable, queues, promises, prog, frames, state>>

---------------------------------------------------------------------------
(* Sending lpcs                                                            *)

\* The inbox of p that thread t may use: self if p is active with t.
Enqueue(t, p, l, i) ==
  IF owner[p] = t
  THEN self' = [self EXCEPT ![p][l] = Append(@, i)] /\ UNCHANGED <<peer, pros>>
  ELSE peer' = [peer EXCEPT ![p][l] = Append(@, i)] /\ UNCHANGED <<self, pros>>

\* A callback of a finished handle counts as executed.
CountHandle(t) ==
  prog' = IF Phase(t) = "handles" /\ ~ InFrame(t) THEN [prog EXCEPT ![t].exec = @ + 1] ELSE prog

\* persona::lpc_ff from user code; persona_tls::defer from runtime code.
Send(t, p, l, i) ==
  /\ state[i] = "new"
  /\ \/ UserCode(t) /\ l = "user"
     \/ RuntimeCode(t)
  /\ Enqueue(t, p, l, i)
  /\ CountHandle(t)
  /\ state' = [state EXCEPT ![i] = "queued"]
  /\ UNCHANGED <<owner, stack, unique, progressing, burstable, promises, frames>>

\* Faulty variant: the owner of the persona is not looked at.
MayRunAnywhere(t, p, l) == l = "internal" \/ burstable[t]

\* persona_tls::during: the lpc runs at once if p is active with the caller
\* and level l may run here, with p on top and l not burstable below it, and
\* is sent otherwise.  The runtime calls it from its own code and, inside
\* communication calls, from user code.
MayRunHere(t, p, l) == owner[p] = t /\ (l = "internal" \/ burstable[t])

During(t, p, l, i) ==
  /\ state[i] = "new" /\ (UserCode(t) \/ RuntimeCode(t))
  /\ CountHandle(t)
  /\ \/ /\ MayRunHere(t, p, l)
        /\ burstable' = IF l = "user" THEN [burstable EXCEPT ![t] = ~ @] ELSE burstable
        /\ PushRedundant(t, p)
        /\ frames' = [frames EXCEPT ![t] = Append(@,
             [item |-> i, level |-> l, persona |-> p, base |-> Len(scopes[t]) + 1, own |-> TRUE])]
        /\ state' = [state EXCEPT ![i] = "running"]
        /\ UNCHANGED queues
     \/ /\ ~ MayRunHere(t, p, l)
        /\ Enqueue(t, p, l, i)
        /\ state' = [state EXCEPT ![i] = "queued"]
        /\ UNCHANGED <<stack, burstable, frames>>
  /\ UNCHANGED <<owner, unique, progressing, promises>>

---------------------------------------------------------------------------
(* Promises                                                                *)

\* User code starts an operation that will fulfill x (as_promise): the
\* operation registers one dependency.
StartOp(t, x) ==
  /\ UserCode(t) /\ owner[Home[x]] = t
  /\ pro[x].countdown \in 1 .. MaxOps
  /\ pro' = [pro EXCEPT ![x].countdown = @ + 1]
  /\ pending' = [pending EXCEPT ![x] = @ + 1]
  /\ UNCHANGED <<owner, stack, unique, progressing, burstable, queues, prog, frames, state>>

\* Faulty variant: the promise is queued once per operation.
MustEnqueueAlways(x) == TRUE

\* fulfill_during_user_of_active: an operation completes.  The first one since
\* x last ran puts it in the queue, the others only add to its count.
MustEnqueue(x) == pro[x].deferred = 0

CompleteOp(t, x) ==
  /\ RuntimeCode(t) /\ owner[Home[x]] = t /\ pending[x] > 0
  /\ pro' = [pro EXCEPT ![x].deferred = @ + 1]
  /\ pending' = [pending EXCEPT ![x] = @ - 1]
  /\ pros' = IF MustEnqueue(x) THEN [pros EXCEPT ![Home[x]] = Append(@, x)] ELSE pros
  /\ CountHandle(t)
  /\ UNCHANGED <<owner, stack, unique, progressing, burstable, peer, self, frames, state>>

\* promise::finalize: the user's own dependency.
Finalize(t, x) ==
  /\ UserCode(t) /\ owner[Home[x]] = t /\ state[x] = "new"
  /\ pro' = [pro EXCEPT ![x].countdown = @ - 1]
  /\ state' = [state EXCEPT ![x] = "done"]
  /\ UNCHANGED <<owner, stack, unique, progressing, burstable, queues, pending, prog, frames>>

---------------------------------------------------------------------------
(* Returning from callbacks                                                *)

\* A callback returns; one that During started ends its scope and restores
\* the burstable bit.  Its own scopes are closed by then.
Return(t) ==
  /\ frames[t] # <<>> /\ (InFrame(t) \/ Phase(t) = "idle")
  /\ Len(scopes[t]) = Inner(t).base
  /\ state' = IF Inner(t).item \in Items
              THEN [state EXCEPT ![Inner(t).item] = "done"] ELSE state
  /\ frames' = [frames EXCEPT ![t] = SubSeq(@, 1, Len(@) - 1)]
  /\ IF Inner(t).own
     THEN /\ PopRedundant(t)
          /\ burstable' = IF Inner(t).level = "user" THEN [burstable EXCEPT ![t] = ~ @] ELSE burstable
     ELSE UNCHANGED <<stack, burstable>>
  /\ UNCHANGED <<owner, unique, progressing, queues, promises, prog>>

---------------------------------------------------------------------------
(* Progress                                                                *)

\* upcxx::progress(l) from user code; a call inside a progress call returns.
ProgressBegin(t, l) ==
  /\ UserCode(t) /\ progressing[t] = "none"
  /\ progressing' = [progressing EXCEPT ![t] = l]
  /\ burstable' = IF l = "user" THEN [burstable EXCEPT ![t] = ~ @] ELSE burstable
  /\ prog' = [prog EXCEPT ![t] = [Idle EXCEPT !.phase = "poll", !.cap = ProgressCap,
                                              !.depth = Len(frames[t])]]
  /\ UNCHANGED <<owner, stack, unique, queues, promises, frames, state>>

\* The visit of the n'th persona of the chain starts: it is made the top one.
Visit(t, n, pr) == prog' = [prog EXCEPT ![t] = [pr EXCEPT !.at = n, !.phase = "handles"]]
Visited(t) == unique[t][prog[t].at]

\* gasnet::after_gasnet, called by communication calls of user or runtime code.
AfterGasnet(t) ==
  /\ UserCode(t) \/ RuntimeCode(t)
  /\ progressing[t] = "none"
  /\ progressing' = [progressing EXCEPT ![t] = "internal"]
  /\ Visit(t, Len(unique[t]), [Idle EXCEPT !.cap = AfterCap, !.depth = Len(frames[t])])
  /\ PushRedundant(t, unique[t][Len(unique[t])])
  /\ UNCHANGED <<owner, unique, burstable, queues, promises, frames, state>>

\* gasnet_AMPoll is over and the first sweep starts.
PollEnd(t) ==
  /\ Phase(t) = "poll" /\ ~ InFrame(t)
  /\ Visit(t, Len(unique[t]), prog[t])
  /\ PushRedundant(t, unique[t][Len(unique[t])])
  /\ UNCHANGED <<owner, unique, progressing, burstable, queues, promises, frames, state>>

\* Faulty variant: the persona's own user-level inbox is not visited.
PhaseAfterNoSelf(t) ==
  CASE Phase(t) = "handles"       -> "peer_internal"
    [] Phase(t) = "peer_internal" -> "self_internal"
    [] Phase(t) = "self_internal" -> IF progressing[t] = "user" THEN "peer_user" ELSE "leave"
    [] Phase(t) = "peer_user"     -> "promises"
    [] Phase(t) = "promises"      -> "leave"

\* The bursts of a visit, in the code's order: burst_internal, and burst_user
\* in a user-level progress call.
PhaseAfter(t) ==
  CASE Phase(t) = "handles"       -> "peer_internal"
    [] Phase(t) = "peer_internal" -> "self_internal"
    [] Phase(t) = "self_internal" -> IF progressing[t] = "user" THEN "peer_user" ELSE "leave"
    [] Phase(t) = "peer_user"     -> "self_user"
    [] Phase(t) = "self_user"     -> "promises"
    [] Phase(t) = "promises"      -> "leave"
UserPhases == {"peer_user", "self_user", "promises"}

\* Faulty variant: user-level bursts stay allowed inside a user-level burst.
FlipNever(t, from, to) == burstable

\* No user-level lpc may start inside a user-level burst.
FlipUser(t, from, to) ==
  IF (from \in UserPhases) # (to \in UserPhases)
  THEN [burstable EXCEPT ![t] = ~ @] ELSE burstable

\* A burst detaches up to n lpcs of its inbox; the others stay in front of
\* those that are enqueued while it runs.
Taken(q, n) == SubSeq(q, 1, IF Len(q) < n THEN Len(q) ELSE n)
Detached(q, p, l, n) == [q EXCEPT ![p][l] = SubSeq(@, n + 1, Len(@))]

NextPhase(t) ==
  /\ Phase(t) \in {"handles", "peer_internal", "self_internal"} \cup UserPhases
  /\ ~ InFrame(t) /\ prog[t].batch = <<>>
  /\ burstable' = FlipUser(t, Phase(t), PhaseAfter(t))
  /\ LET to == PhaseAfter(t)
         p  == Visited(t)
         l  == IF to \in UserPhases THEN "user" ELSE "internal"
         fromPeer == to \in {"peer_internal", "peer_user"}
         fromSelf == to \in {"self_internal", "self_user"}
     IN  /\ prog' = [prog EXCEPT ![t].phase = to, ![t].left = IF fromPeer THEN BurstMax ELSE 0,
                                 ![t].batch = IF fromPeer THEN Taken(peer[p][l], BurstMax)
                                              ELSE IF fromSelf THEN Taken(self[p][l], BurstMax)
                                              ELSE IF to = "promises" THEN pros[p]
                                              ELSE <<>>]
         /\ peer' = IF fromPeer THEN Detached(peer, p, l, BurstMax) ELSE peer
         /\ self' = IF fromSelf THEN Detached(self, p, l, BurstMax) ELSE self
         /\ pros' = IF to = "promises" THEN [pros EXCEPT ![p] = <<>>] ELSE pros
  /\ UNCHANGED <<owner, stack, unique, progressing, promises, frames, state>>

\* The burst of a peer inbox may also see lpcs that arrive while it runs.
Refill(t) ==
  /\ Phase(t) \in {"peer_internal", "peer_user"} /\ ~ InFrame(t) /\ prog[t].batch = <<>>
  /\ LET p == Visited(t)
         l == IF Phase(t) = "peer_user" THEN "user" ELSE "internal"
     IN  /\ peer[p][l] # <<>> /\ prog[t].left > 0
         /\ prog' = [prog EXCEPT ![t].batch = Taken(peer[p][l], prog[t].left)]
         /\ peer' = Detached(peer, p, l, prog[t].left)
  /\ UNCHANGED <<owner, stack, unique, progressing, burstable, self, pros, promises, frames, state>>

\* The next lpc of a burst starts.  A promise applies its deferred decrements
\* (fulfill_deferred_and_drop) and, if that makes it ready, runs callbacks.
RunNext(t) ==
  /\ ~ InFrame(t) /\ prog[t].batch # <<>>
  /\ LET i == Head(prog[t].batch)
     IN  /\ frames' = [frames EXCEPT ![t] = Append(@,
              [item |-> i, level |-> IF Phase(t) \in UserPhases THEN "user" ELSE "internal",
               persona |-> Visited(t), base |-> Len(scopes[t]), own |-> FALSE])]
         /\ state' = IF i \in Items THEN [state EXCEPT ![i] = "running"] ELSE state
         /\ pro' = IF i \in Promises
                   THEN [pro EXCEPT ![i] = [countdown |-> @.countdown - @.deferred, deferred |-> 0]]
                   ELSE pro
  /\ prog' = [prog EXCEPT ![t].batch = Tail(@), ![t].exec = @ + 1,
                              ![t].left = IF @ > 0 THEN @ - 1 ELSE 0]
  /\ UNCHANGED <<owner, stack, unique, progressing, burstable, queues, pending>>

\* A visit ends and the next one begins: its scope replaces the other's.
MoveVisit(t, n, pr) ==
  LET p == unique[t][n]
  IN  /\ Visit(t, n, pr)
      /\ scopes' = [scopes EXCEPT ![t][Len(scopes[t])].persona = p]
      /\ top' = [top EXCEPT ![t] = p]

VisitEnd(t) ==
  /\ Phase(t) = "leave" /\ prog[t].at > 1
  /\ MoveVisit(t, prog[t].at - 1, prog[t])
  /\ UNCHANGED <<owner, unique, progressing, burstable, queues, promises, frames, state>>

\* A sweep is over: sweep again while lpcs are found and the cap allows.
Total(t) == prog[t].total + prog[t].exec
Again(t) == Total(t) < prog[t].cap /\ prog[t].exec # 0

SweepAgain(t) ==
  /\ Phase(t) = "leave" /\ prog[t].at = 1 /\ Again(t)
  /\ MoveVisit(t, Len(unique[t]), [prog[t] EXCEPT !.total = Total(t), !.exec = 0])
  /\ UNCHANGED <<owner, unique, progressing, burstable, queues, promises, frames, state>>

\* The progress call returns.
ProgressEnd(t) ==
  /\ Phase(t) = "leave" /\ prog[t].at = 1 /\ ~ Again(t)
  /\ PopRedundant(t)
  /\ burstable' = IF progressing[t] = "user" THEN [burstable EXCEPT ![t] = ~ @] ELSE burstable
  /\ progressing' = [progressing EXCEPT ![t] = "none"]
  /\ prog' = [prog EXCEPT ![t] = Idle]
  /\ UNCHANGED <<owner, unique, queues, promises, frames, state>>

ThreadStep(t) ==
  \/ PollEnd(t) \/ NextPhase(t) \/ Refill(t) \/ RunNext(t)
  \/ VisitEnd(t) \/ SweepAgain(t) \/ ProgressEnd(t)

Next ==
  \E t \in Threads :
    \/ ThreadStep(t) \/ Return(t)
    \/ PopScope(t) \/ AfterGasnet(t)
    \/ \E l \in Levels : ProgressBegin(t, l)
    \/ \E p \in Personas :
         \/ PushScope(t, p)
         \/ \E l \in Levels, i \in Items : Send(t, p, l, i) \/ During(t, p, l, i)
    \/ \E x \in Promises : StartOp(t, x) \/ CompleteOp(t, x) \/ Finalize(t, x)

Spec == Init /\ [][Next]_vars

\* Threads take the steps of a progress call, callbacks return and close the
\* scopes they opened, and user code calls upcxx::progress() again and again.
FairSpec ==
  /\ Spec
  /\ \A t \in Threads : /\ WF_vars(ThreadStep(t))
                        /\ WF_vars(PopScope(t)) /\ SF_vars(Return(t))
                        /\ SF_vars(ProgressBegin(t, "user"))

---------------------------------------------------------------------------
(* Properties                                                              *)

Scope == [persona : Personas, kind : {"unique", "again", "redundant"}, saved : Personas]
Frame == [item : Items \cup Promises, level : Levels, persona : Personas, base : Nat, own : BOOLEAN]
Phases == {"idle", "poll", "handles", "peer_internal", "self_internal", "leave"} \cup UserPhases
Call == [phase : Phases, at : Nat, batch : Seq(Items \cup Promises), left : Nat, exec : Nat,
         total : Nat, cap : Nat, depth : Nat]

\* Every variable has the shape of its declaration.
TypeOK ==
  /\ owner \in [Personas -> Threads \cup {Nobody}]
  /\ scopes \in [Threads -> Seq(Scope)]
  /\ top \in [Threads -> Personas]
  /\ unique \in [Threads -> Seq(Personas)]
  /\ progressing \in [Threads -> Levels \cup {"none"}]
  /\ burstable \in [Threads -> BOOLEAN]
  /\ peer \in [Personas -> [Levels -> Seq(Items)]]
  /\ self \in [Personas -> [Levels -> Seq(Items)]]
  /\ pros \in [Personas -> Seq(Promises)]
  /\ pro \in [Promises -> [countdown : Nat, deferred : Nat]]
  /\ pending \in [Promises -> Nat]
  /\ prog \in [Threads -> Call]
  /\ frames \in [Threads -> Seq(Frame)]
  /\ state \in [Items \cup Promises -> {"new", "queued", "running", "done"}]

\* The n'th persona of the chain U is the one of the j'th scope of S, a unique one.
Chained(S, U, n, j) == S[j].kind = "unique" /\ S[j].persona = U[n]

\* The chain of unique scopes: each unique scope and each persona of the chain
\* has its counterpart, in the same order (so no persona is in it twice).
ChainExact(S, U) ==
  /\ \A j \in DOMAIN S : S[j].kind = "unique" => \E n \in DOMAIN U : Chained(S, U, n, j)
  /\ \A n \in DOMAIN U : \E j \in DOMAIN S : Chained(S, U, n, j)
  /\ \A m, n \in DOMAIN U, i, j \in DOMAIN S :
       Chained(S, U, m, i) /\ Chained(S, U, n, j) => (m < n <=> i < j)

\* The scope stack, the chain of unique scopes, the top persona and the owner
\* fields of the personas tell the same story: a persona is active with one
\* thread, and is visited once per sweep, in whatever order scopes are opened
\* and closed, also inside callbacks (persona_scope, persona_scope_redundant).
ScopesExact ==
  \A t \in Threads :
    /\ scopes[t] # <<>> /\ top[t] = scopes[t][Len(scopes[t])].persona
    /\ ChainExact(scopes[t], unique[t])
    /\ \A p \in Personas : owner[p] = t <=> \E n \in DOMAIN unique[t] : unique[t][n] = p
    /\ \A k \in DOMAIN scopes[t] : owner[scopes[t][k].persona] = t

\* Threads that open and close scopes, also inside callbacks and in the middle
\* of a sweep, keep every variable of the shape of its declaration and agree on
\* who holds which persona.
ScopesConsistent == TypeOK /\ ScopesExact

UserFrames(F) == {k \in DOMAIN F : F[k].level = "user"}

\* A user-level callback runs only inside a user-level progress call of its
\* thread and never inside another user-level callback, although completions
\* may run it from the middle of the polling (during, do_progress).
UserCallbacksNeverNest ==
  \A t \in Threads :
    /\ Cardinality(UserFrames(frames[t])) <= 1
    /\ UserFrames(frames[t]) # {} => progressing[t] = "user"

SeqSet(s) == {s[k] : k \in DOMAIN s}

\* A callback runs on the thread that holds its persona, with that persona
\* current when it starts, and that thread keeps it until the callback ends
\* and until a burst of the persona's inboxes is over.
RightThread ==
  \A t \in Threads :
    /\ \A k \in DOMAIN frames[t] :
         /\ owner[frames[t][k].persona] = t
         /\ scopes[t][frames[t][k].base].persona = frames[t][k].persona
    /\ prog[t].batch # <<>> => owner[Visited(t)] = t

\* The places where lpcs and promises wait: the inboxes and the promise queue
\* of a persona, and what a thread's burst has detached.
Places == ({"peer", "self"} \X Personas \X Levels) \cup ({"pros"} \X Personas \X {"user"})
            \cup ({"burst"} \X Threads \X {"user"})

Waiting ==
  [w \in Places |-> CASE w[1] = "peer"  -> peer[w[2]][w[3]]
                      [] w[1] = "self"  -> self[w[2]][w[3]]
                      [] w[1] = "pros"  -> pros[w[2]]
                      [] w[1] = "burst" -> prog[w[2]].batch]

\* x waits in the places Q; and it does so once.
In(Q, x) == \E w \in DOMAIN Q : \E k \in DOMAIN Q[w] : Q[w][k] = x
Once(Q, x) ==
  \A v \in DOMAIN Q : \A j \in DOMAIN Q[v] : Q[v][j] = x =>
    \A w \in DOMAIN Q : \A k \in DOMAIN Q[w] : Q[w][k] = x => v = w /\ j = k

Runs(i) == \E t \in Threads : \E k \in DOMAIN frames[t] : frames[t][k].item = i

\* An lpc that was sent waits in one place, once, until it runs; it runs once.
ExactlyOnce ==
  /\ \A i \in Items :
       /\ In(Waiting, i) <=> state[i] = "queued"
       /\ Once(Waiting, i)
       /\ Runs(i) <=> state[i] = "running"
  /\ \A t, u \in Threads : \A j \in DOMAIN frames[t], k \in DOMAIN frames[u] :
       frames[t][j].item = frames[u][k].item /\ frames[t][j].item \in Items => t = u /\ j = k

\* However personas change threads and bursts give up, an lpc is nowhere lost
\* or doubled, and it runs where its persona is held (lpc_ff, during, burst).
LpcsExact == RightThread /\ ExactlyOnce

\* A promise is in the queue of its persona, or in the burst of it, exactly
\* when decrements are deferred (core.hpp: "zero if and only if this promise
\* is not already linked in"), and its counter is what is still to come.
PromisesExact ==
  \A x \in Promises :
    /\ In(Waiting, x) <=> pro[x].deferred > 0
    /\ Once(Waiting, x)
    /\ \A p \in Personas : x \in SeqSet(pros[p]) => p = Home[x]
    /\ pro[x].countdown
         = pro[x].deferred + pending[x] + (IF state[x] = "new" THEN 1 ELSE 0)

\* An lpc sent to the default persona of a thread is executed: the loops of a
\* progress call end, and no inbox is passed over.
LpcsRun ==
  \A i \in Items :
    (\E t \in Threads, l \in Levels : i \in SeqSet(peer[t][l]) \cup SeqSet(self[t][l]))
      ~> (state[i] = "done")

---------------------------------------------------------------------------
(* The inductive invariant behind the first four properties                *)

\* What the progress level g of a thread, its burstable bit b, its progress
\* call c and its callbacks F know of each other.
LevelsOK(g, b, c, F) ==
  /\ g = "none" <=> c.phase = "idle"
  /\ c.phase \in UserPhases => g = "user"
  /\ c.depth <= Len(F)
  /\ c.phase = "idle" => c.depth = 0
  /\ c.phase \in {"idle", "poll", "handles", "leave"} => c.batch = <<>>
  /\ c.phase = "leave" => Len(F) = c.depth
  /\ \A k \in DOMAIN F : F[k].own \/ (k = c.depth + 1 /\ c.phase \notin {"idle", "poll"})
  /\ \A k \in UserFrames(F) : /\ k > c.depth /\ g = "user"
                              /\ F[k].own <=> c.phase \notin UserPhases
  /\ \A j, k \in UserFrames(F) : j = k
  /\ b <=> g = "user" /\ c.phase \notin UserPhases /\ UserFrames(F) = {}

\* The scope, of the scopes S, that makes the visited persona the top one.
VisitScope(S, c, F) ==
  IF Len(F) > c.depth
  THEN IF F[c.depth + 1].own THEN F[c.depth + 1].base - 1 ELSE F[c.depth + 1].base
  ELSE Len(S)

Visiting(c) == c.phase \notin {"idle", "poll"}

\* A scope saves the top persona it hides, and a unique one is the first for
\* its persona.
ScopesNest(S) ==
  /\ Len(S) >= 1 /\ S[1].kind = "unique"
  /\ \A k \in DOMAIN S : k > 1 => S[k].saved = S[k - 1].persona
  /\ \A j, k \in DOMAIN S : j < k /\ S[k].kind = "unique" => S[j].persona # S[k].persona

\* Callbacks and scopes nest: each callback starts with a scope of its persona on top.
FramesNest(S, F) ==
  /\ \A k \in DOMAIN F : /\ 2 <= F[k].base /\ F[k].base <= Len(S)
                         /\ S[F[k].base].persona = F[k].persona
                         /\ S[F[k].base].kind = "redundant"
  /\ \A j, k \in DOMAIN F : j < k => F[j].base < F[k].base

\* The visit's scope, above those of the callbacks the progress call was made in,
\* is one of the visited persona.
VisitNests(S, U, c, F) ==
  LET v == VisitScope(S, c, F)
  IN  /\ 2 <= v /\ S[v].kind = "redundant"
      /\ c.at \in DOMAIN U /\ S[v].persona = U[c.at]
      /\ \A k \in DOMAIN F : k <= c.depth => F[k].base < v

\* What a callback or a visit finds below its own scope is there when it ends.
StackOK(S, U, c, F) ==
  ScopesNest(S) /\ FramesNest(S, F) /\ (Visiting(c) => VisitNests(S, U, c, F))

ProgressInv ==
  /\ TypeOK /\ ScopesExact /\ ExactlyOnce /\ PromisesExact
  /\ \A t \in Threads : /\ LevelsOK(progressing[t], burstable[t], prog[t], frames[t])
                        /\ StackOK(scopes[t], unique[t], prog[t], frames[t])
=============================================================================
