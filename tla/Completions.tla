------------------------------ MODULE Completions ------------------------------
(***************************************************************************)
(* The completions of an operation (completion.hpp): what the user asked   *)
(* to be told (future, promise, lpc, rpc, or a call that blocks) of which  *)
(* event (source, remote, operation), and the state the initiator keeps    *)
(* until the event comes.  The C++ picks the cases at compile time; here   *)
(* they are guards on the request.                                         *)
(*                                                                         *)
(* The state of the initiating process is one record, so that the calls a  *)
(* function makes one after another compose as functions of it.            *)
(***************************************************************************)
EXTENDS Integers, Sequences, FiniteSets, Folds

CONSTANTS Ops,      \* the operations
          MaxCx     \* the longest completions<...> list

ASSUME CompletionsAssumption == IsFiniteSet(Ops) /\ MaxCx \in Nat

Events  == {"source", "remote", "operation"}

\* What the factories source_cx, operation_cx and remote_cx offer: an event, an action,
\* and for futures and promises whether they may be readied at once instead of at the
\* next user-level progress.
Request(ev, acts, eager) == [ev : {ev}, act : acts, eager : eager]
Requests ==
  Request("source", {"future", "promise"}, BOOLEAN)
    \cup Request("operation", {"future", "promise"}, BOOLEAN)
    \cup Request("source", {"lpc", "buffered", "blocking"}, {FALSE})
    \cup Request("operation", {"lpc", "blocking"}, {FALSE})
    \cup Request("remote", {"rpc"}, {FALSE})

Keys == Ops \X (1 .. MaxCx)   \* the i-th request of an operation

VARIABLES
  plan,   \* plan[o]: the arguments of the operation's call, its requests among them
  st      \* the state of the initiator, see State

cxVars == <<plan, st>>

Counts == [Keys -> 0 .. 3]

State ==
  [calls   : Counts,        \* calls to operator(), cancel or to_lpc_dormant of a cx_state
   hits    : Counts,        \* notifications the user has had
   queued  : Counts,        \* promises to be fulfilled by user-level progress
   relay   : Counts,        \* lpcs that will defer a promise once more
   posted  : Counts,        \* lpcs in the inbox of the persona the user named
   elided  : SUBSET Keys,   \* told by the return value: no promise is held
   dormant : SUBSET Keys,   \* in the list of dormant lpcs
   deps    : Nat,           \* what the operations added to the user's promise
   undis   : Nat,           \* undischarged_n_
   fact    : [Ops -> SUBSET Events],                        \* what has really happened
   am      : [Ops -> {"none", "sent", "handed", "ran"}],    \* the rpc for the target
   live    : [Ops -> {"none", "live", "dead"}],             \* the object with the cx_states
   bufs    : [Ops -> SUBSET {"s", "d"}],                    \* bounce buffers
   misuse  : BOOLEAN]                                       \* a dead object or buffer was used

Nothing == [k \in Keys |-> 0]

InitialState ==
  [calls |-> Nothing, hits |-> Nothing, queued |-> Nothing, relay |-> Nothing,
   posted |-> Nothing, elided |-> {}, dormant |-> {}, deps |-> 0, undis |-> 0,
   fact |-> [o \in Ops |-> {}], am |-> [o \in Ops |-> "none"],
   live |-> [o \in Ops |-> "none"], bufs |-> [o \in Ops |-> {}], misuse |-> FALSE]

NoPlan == [kind |-> "none", vals |-> FALSE, cxs |-> <<>>]

CxInit == plan = [o \in Ops |-> NoPlan] /\ st = InitialState

-----------------------------------------------------------------------------
\* The requests of operation o, those that are served where it was initiated
\* (event_is_here) and those among them that wait for event ev.
Asked(o)    == {o} \X (1 .. Len(plan[o].cxs))
R(k)        == plan[k[1]].cxs[k[2]]
Here(o)     == {k \in Asked(o) : R(k).ev # "remote" /\ R(k).act \notin {"buffered", "blocking"}}
For(o, ev)  == {k \in Here(o) : R(k).ev = ev}
As(K, act)  == {k \in K : R(k).act = act}

Names(p, ev)       == \E i \in DOMAIN p.cxs : p.cxs[i].ev = ev
HasEvent(o, ev)    == Names(plan[o], ev)
IsEventSync(o, ev) == \E k \in Asked(o) : R(k).ev = ev /\ R(k).act \in {"buffered", "blocking"}

\* Only the operation event carries values, and only for some operations.
Values(k) == plan[k[1]].vals /\ R(k).ev = "operation"

\* cx_event_done: operation implies remote implies source.
Implied == [none |-> {}, source |-> {"source"}, operation |-> Events]

Bump(f, K) == [k \in Keys |-> f[k] + (IF k \in K THEN 1 ELSE 0)]
Size(K)    == Cardinality(K)

\* The cx_states are built from the requests: an lpc holds the persona back, a
\* promise that will receive values gets its dependency now.
MakeLpcs(s, K)     == [s EXCEPT !.undis = @ + Size(K)]
MakePromises(s, K) == [s EXCEPT !.deps = @ + Size({k \in K : Values(k)})]
Construct(s, o) ==
  [MakePromises(MakeLpcs(s, As(Here(o), "lpc")), As(Here(o), "promise")) EXCEPT !.live[o] = "live"]

\* completions_returner, given the events that are already done.  An eager future
\* without values is returned ready; an eager promise without values takes no
\* dependency; any other promise without values takes its dependency here.
\* Faulty variant: an eager future is returned ready without asking whether the event is done.
ElidesEarly(k, done) == R(k).eager /\ ~Values(k)
Elides(k, done) == R(k).eager /\ ~Values(k) /\ R(k).ev \in Implied[done]
GetFutures(s, K, done) ==
  LET E == {k \in K : Elides(k, done)} IN [s EXCEPT !.elided = @ \cup E, !.hits = Bump(@, E)]
SetDone(s, K, done) ==
  LET E == {k \in K : Elides(k, done)} IN
    [s EXCEPT !.elided = @ \cup E, !.hits = Bump(@, E),
              !.deps = @ + Size({k \in K \ E : ~Values(k)})]
Return(s, o, done) ==
  SetDone(GetFutures(s, As(Here(o), "future"), done), As(Here(o), "promise"), done)

\* operator() of the cx_states.  A promise without values is deferred even when it
\* may be eager.
FireFutures(s, K) ==
  LET now == {k \in K : R(k).eager} IN
    [s EXCEPT !.hits = Bump(@, now), !.queued = Bump(@, K \ now)]
FireValuedPromises(s, K) ==
  LET now == {k \in K : R(k).eager} IN
    [s EXCEPT !.hits = Bump(@, now), !.deps = @ - Size(now), !.queued = Bump(@, K \ now)]
FirePromises(s, K) == [s EXCEPT !.queued = Bump(@, K)]
FireLpcs(s, K)     == [s EXCEPT !.posted = Bump(@, K), !.undis = @ - Size(K)]

\* completions_state::operator()<ev>: the actions of the event, those excepted whose
\* notification was elided.
Fire(s, o, ev) ==
  LET due    == For(o, ev) \ s.elided
      valued == {k \in As(due, "promise") : Values(k)}
      fired  == FireLpcs(FirePromises(FireValuedPromises(FireFutures(s, As(due, "future")), valued),
                                      As(due, "promise") \ valued), As(due, "lpc"))
  IN [fired EXCEPT !.calls = Bump(@, For(o, ev)), !.misuse = @ \/ s.live[o] # "live"]

\* cancel<ev>: the dependencies are given back, nobody is told.
Cancel(s, o, ev) ==
  LET K == For(o, ev) IN
    [s EXCEPT !.calls = Bump(@, K),
              !.undis = @ - Size(As(K, "lpc")),
              !.deps  = @ - Size(As(K, "promise") \ s.elided)]

\* The object with the cx_states is deleted.
Delete(s, o) == [s EXCEPT !.live[o] = "dead", !.misuse = @ \/ s.live[o] # "live"]

\* Event ev has really happened (the network or a copy engine did it).
Happen(s, o, ev) == [s EXCEPT !.fact[o] = @ \cup Implied[ev]]

\* The functions of remote_cx::as_rpc are bound together and shipped.
Remote(o)  == HasEvent(o, "remote")
Ship(s, o) == IF ~Remote(o) THEN s
              ELSE [s EXCEPT !.am[o] = "sent", !.misuse = @ \/ s.am[o] # "none"]

\* The destination is here: the rpc goes straight to the master persona.
During(s, o) == IF ~Remote(o) THEN s
                ELSE [s EXCEPT !.am[o] = "handed", !.misuse = @ \/ s.am[o] # "none"]

-----------------------------------------------------------------------------
\* User-level progress fulfils a promise: the user is told, and a promise of the
\* user's has one dependency less.
Fulfill(k) ==
  /\ st.queued[k] > 0
  /\ st' = [st EXCEPT !.queued[k] = @ - 1, !.hits[k] = @ + 1,
                      !.deps = IF R(k).act = "promise" THEN @ - 1 ELSE @]
  /\ UNCHANGED plan

\* The persona the user named runs the lpc of as_lpc, which deletes itself.
RunLpc(k) ==
  /\ st.posted[k] > 0
  /\ st' = [st EXCEPT !.posted[k] = @ - 1, !.hits[k] = @ + 1, !.dormant = @ \ {k}]
  /\ UNCHANGED plan

\* The awakened lpc of a promise defers its fulfilment once more.
RunRelay(k) ==
  /\ st.relay[k] > 0
  /\ st' = [st EXCEPT !.relay[k] = @ - 1, !.queued[k] = @ + 1, !.dormant = @ \ {k}]
  /\ UNCHANGED plan

\* The target's master persona is given the rpc, and runs it.
Hand(o) ==
  /\ st.am[o] = "sent"
  /\ st' = [st EXCEPT !.am[o] = "handed"]
  /\ UNCHANGED plan

\* cx_remote_dispatch: every function asked for by as_rpc is called.
RunRemote(o) ==
  /\ st.am[o] = "handed"
  /\ st' = [st EXCEPT !.am[o] = "ran",
                      !.hits = Bump(@, {k \in Asked(o) : R(k).ev = "remote"})]
  /\ UNCHANGED plan
===============================================================================
