----------------------------- MODULE FutureCore -----------------------------
(***************************************************************************)
(* The future engine of one thread (future/core.hpp, future/core.cpp,      *)
(* then.hpp, impl_when_all.hpp, impl_shref.hpp, promise.hpp): the graph of *)
(* reference-counted headers, the successor lists that link a header to    *)
(* the ones waiting for it, and the queue of active headers that drains    *)
(* them without ever nesting a callback in a callback.                     *)
(*                                                                         *)
(* A header is a number that is used once: a deleted header stays "dead",  *)
(* so that a reference to it is a dangling pointer the invariants see.     *)
(* Header 0 is the_always, the static header of make_future<>(), which     *)
(* callbacks without a value return; as an argument it acts like the ready *)
(* result of MakeFuture.  A link <<s, k>> is the k'th dependency_link      *)
(* stored in the body of header s.                                         *)
(*                                                                         *)
(* User code may run whenever nothing is draining, and inside a running    *)
(* then-callback.  Values are left out: a result header stands for the     *)
(* tuple it stores.                                                        *)
(***************************************************************************)
EXTENDS Integers, Sequences, FiniteSets

Lists == INSTANCE SequencesExt

CONSTANTS
  MaxHeaders,    \* headers ever allocated
  MaxRoots,      \* promises and ready futures are among the first MaxRoots
  MaxCountdown,  \* the dependency counter of a promise
  MaxArgs,       \* arguments of when_all
  Sizes          \* BOUNDS of the programs explored: records of the headers they make, the
                 \* user futures on one header, the countdown and the arguments

ASSUME FutureAssumption ==
  /\ MaxHeaders \in Nat \ {0} /\ MaxRoots \in 0 .. MaxHeaders
  /\ MaxCountdown \in Nat \ {0} /\ MaxArgs \in Nat \ {0}
  /\ Sizes \subseteq [headers : 1 .. MaxHeaders, refs : Nat \ {0},
                      countdown : 1 .. MaxCountdown, args : 1 .. MaxArgs]

Always  == 0
Headers == 0 .. MaxHeaders
Nil     == -1

\* future_header::status_*
StatusActive         == 0
StatusReady          == -1
StatusProxying       == -2
StatusProxyingActive == -3

VARIABLES
  size,      \* the size of the program that runs
  hdr,       \* the heap of headers, with the body a dependent points to
  active,    \* the active queue: headers whose leave_active is due
  running,   \* the header whose then-callback is executing, or Nil
  returning, \* the header an unfinished make_header call will return, or Nil
  user,      \* user[h]: futures and promises of user code that hold h
  origin,    \* origin[h]: the header whose result h stands for, as far as known (history)
  args       \* args[h]: the futures the body of h was built on (history)

vars == <<size, hdr, active, running, returning, user, origin, args>>

---------------------------------------------------------------------------
(* Headers and references                                                  *)

BlankHeader(kind, ref, status) ==
  [kind |-> kind, ref |-> ref, status |-> status, sucs |-> <<>>,
   result |-> Nil, body |-> "none", deps |-> <<>>, countdown |-> 0]

FreeHeader == BlankHeader("free", 0, StatusReady)
DeadHeader == BlankHeader("dead", 0, StatusReady)

\* future_header_promise: its own result, one reference, not ready.
PromiseHeader(h) ==
  [BlankHeader("promise", 1, StatusActive + 1) EXCEPT !.result = h, !.countdown = 1]

\* future_header_result built ready, with n references.
ResultHeader(h, n) == [BlankHeader("result", n, StatusReady) EXCEPT !.result = h]

\* future_header_dependent: one reference for its creator and one that it
\* carries until it becomes ready.
DependentHeader(body) ==
  [BlankHeader("dependent", 2, StatusActive) EXCEPT !.body = body]

Allocated(H, h) == H[h].kind \notin {"free", "dead"}
Ready(H, h)     == H[h].status = StatusReady
Proxying(H, h)  == H[h].status \in {StatusProxying, StatusProxyingActive}
IsFree(H)       == {h \in Headers : H[h].kind = "free"}
NewHeader(H)    == CHOOSE h \in IsFree(H) : \A g \in IsFree(H) : h <= g

\* incref/decref leave a static header alone.
AddRef(H, h, n) == IF H[h].ref < 0 THEN H ELSE [H EXCEPT ![h].ref = @ + n]

\* future_header_ops_result_ready::dropref.
DropReady(H, h) ==
  IF H[h].ref = 1 THEN [H EXCEPT ![h] = DeadHeader] ELSE AddRef(H, h, -1)

\* future_header_ops_general::dropref: a ready dependent releases its result,
\* a promise may die unfulfilled.
Drop(H, h) ==
  IF H[h].ref = 1 /\ Ready(H, h) /\ H[h].result # h
  THEN DropReady([H EXCEPT ![h] = DeadHeader], H[h].result)
  ELSE DropReady(H, h)

\* ~future_dependency for every argument of the body of h: the arguments are
\* ready by then, so each one is its own result.
DropDeps(H, h) ==
  LET held(x)  == Cardinality({k \in DOMAIN H[h].deps : H[h].deps[k].dep = x})
  IN  [x \in Headers |->
         IF held(x) = 0 \/ H[x].ref < 0 THEN H[x]
         ELSE IF H[x].ref = held(x) THEN DeadHeader
         ELSE [H[x] EXCEPT !.ref = @ - held(x)]]

\* drop_for_result: one reference to a becomes one to a's result.
DropForResult(H, a) ==
  LET b == H[a].result
  IN  IF a = b THEN H
      ELSE IF H[a].ref = 1 THEN [H EXCEPT ![a] = DeadHeader]
      ELSE AddRef(AddRef(H, a, -1), b, 1)

\* drop_for_proxied: one reference to a becomes one to the header it proxies.
\* Its branch that deletes a is not taken: a is not ready, so it carries the
\* reference of its own (ReferencesExact).
Proxied(H, a)        == H[a].deps[1].dep
DropForProxied(H, a) == AddRef(AddRef(H, a, -1), Proxied(H, a), 1)

---------------------------------------------------------------------------
(* Successor lists                                                         *)

\* The elements of s whose places are in W, in their order.
Place(W, n)   == CHOOSE i \in W : Cardinality({j \in W : j <= i}) = n
PickAt(s, W)  == [n \in 1 .. Cardinality(W) |-> s[Place(W, n)]]

\* future_dependency_shref_base: argument a, whose reference the link takes,
\* becomes dependency k of dependent s.
LinkDependencyTo(H, b, s, k) ==
  [H EXCEPT ![b].sucs   = << <<s, k>> >> \o @,
            ![s].deps   = Append(@, [dep |-> b, linked |-> TRUE]),
            ![s].status = @ + 1]

\* Faulty variant: a ready dependency is kept itself instead of its result.
LinkDependencyNoResult(H, s, k, a) ==
  LET b  == IF Proxying(H, a) THEN Proxied(H, a) ELSE a
      H1 == IF Proxying(H, a) THEN DropForProxied(H, a) ELSE H
  IN  IF Ready(H1, b)
      THEN [H1 EXCEPT ![s].deps = Append(@, [dep |-> b, linked |-> FALSE])]
      ELSE LinkDependencyTo(H1, b, s, k)

LinkDependency(H, s, k, a) ==
  LET b  == IF Proxying(H, a) THEN Proxied(H, a) ELSE a
      H1 == IF Proxying(H, a) THEN DropForProxied(H, a) ELSE H
  IN  IF Ready(H1, b)
      THEN [DropForResult(H1, b) EXCEPT
              ![s].deps = Append(@, [dep |-> H1[b].result, linked |-> FALSE])]
      ELSE LinkDependencyTo(H1, b, s, k)

LinkAll(H, s, fs) ==
  LET after[k \in 0 .. Len(fs)] ==
        IF k = 0 THEN H ELSE LinkDependency(after[k-1], s, k, fs[k])
  IN  after[Len(fs)]

\* Whether link i of a resolved successor list is the last one its successor
\* waited for.
StatusAfter(H, links, i) ==
  H[links[i][1]].status - Cardinality({j \in 1 .. i : links[j][1] = links[i][1]})
Wakes(H, links, i) == StatusAfter(H, links, i) <= StatusActive

\* Faulty variant: the deleted header keeps its reference to the result.
HandOverLeaks(H, h, r, n) ==
  IF H[h].ref = n THEN [AddRef(H, r, n) EXCEPT ![h] = DeadHeader]
  ELSE AddRef(AddRef(H, r, n), h, -n)

\* h gives n references to itself away for n references to its result r, and
\* is deleted, with the reference it had to r, if these were its last.
HandOver(H, h, r, n) ==
  IF H[h].ref = n THEN [AddRef(H, r, n - 1) EXCEPT ![h] = DeadHeader]
  ELSE AddRef(AddRef(H, r, n), h, -n)

\* enter_ready and entered_ready_with_sucs: h takes result r, whose reference
\* the caller provides.  Every successor's link moves to r with a reference of
\* its own, and a successor whose last link resolves joins the active queue.
\* Returns the new heap and queue.
EnterReady(H, q, h, r) ==
  LET links   == H[h].sucs
      hits(d) == Cardinality({j \in DOMAIN links : links[j][1] = d})
      woken   == PickAt(links, {i \in DOMAIN links : Wakes(H, links, i)})
      resolved(d) ==
        [H[d] EXCEPT
           !.status = @ - hits(d),
           !.deps   = [k \in DOMAIN @ |->
                         IF \E j \in DOMAIN links : links[j] = <<d, k>>
                         THEN [dep |-> r, linked |-> FALSE] ELSE @[k]]]
      H1 == [[d \in Headers |-> IF hits(d) > 0 THEN resolved(d) ELSE H[d]]
               EXCEPT ![h].status = StatusReady, ![h].result = r,
                      ![h].body = "none", ![h].deps = <<>>, ![h].sucs = <<>>]
  IN  [heap  |-> IF r = h THEN H1 ELSE HandOver(H1, h, r, Len(links)),
       queue |-> q \o [i \in DOMAIN woken |-> woken[i][1]]]

\* Faulty variant: the proxies of a header that becomes a proxy are left where they were.
NoBypass(H, h) == <<>>

\* The links of the successors of h that proxy h.
Bypass(H, h) ==
  PickAt(H[h].sucs, {i \in DOMAIN H[h].sucs : H[H[h].sucs[i][1]].status = StatusProxying})

\* h stands for b, which is not ready, from now on and takes a reference to
\* it; the successors that proxy h are moved past h, onto the list of b.
ProxyOnto(H, h, b) ==
  LET movers   == Bypass(H, h)
      stay     == {i \in DOMAIN H[h].sucs : \A j \in DOMAIN movers : movers[j] # H[h].sucs[i]}
      link     == <<[dep |-> b, linked |-> TRUE]>>
      H1 == [d \in Headers |-> IF \E i \in DOMAIN movers : movers[i][1] = d
                               THEN [H[d] EXCEPT !.deps = link] ELSE H[d]]
      H2 == [H1 EXCEPT ![h].status = StatusProxying, ![h].body = "proxy",
                       ![h].deps = link, ![h].sucs = PickAt(@, stay),
                       ![b].sucs = << <<h, 1>> >> \o Lists!Reverse(movers) \o @]
  IN  AddRef(AddRef(H2, b, Len(movers)), h, - Len(movers))

\* enter_proxying: h stands for p from now on, or for what p proxies, or takes
\* its result at once.  The branches that steal the body of p and that delete
\* h are not taken: both are not ready, so each carries a reference of its own
\* (ReferencesExact).
EnterProxying(H, q, h, p) ==
  LET b  == IF Proxying(H, p) THEN Proxied(H, p) ELSE p
      H1 == IF Proxying(H, p) THEN DropForProxied(H, p) ELSE H
  IN  IF Ready(H1, b)
      THEN EnterReady(DropForResult(AddRef(H1, h, -1), b), q, h, H1[b].result)
      ELSE [heap |-> ProxyOnto(H1, h, b), queue |-> q]

---------------------------------------------------------------------------
(* User code                                                               *)

\* Nothing is draining, or the caller is inside a callback.
UserTurn == active = <<>> \/ running # Nil

\* User code can use a future or promise on h (not the one that a make_header
\* further up the stack has still to return).
Holds(h) == user[h] > (IF h = returning THEN 1 ELSE 0)

\* Room for n more headers, beside the results of the when_alls under way.
Room(n) ==
  Cardinality(IsFree(hdr)) - (MaxHeaders - size.headers)
    >= n + Cardinality({h \in Headers : hdr[h].body = "all"})

Init ==
  /\ size \in Sizes
  /\ hdr = [h \in Headers |-> IF h = Always THEN ResultHeader(Always, -1) ELSE FreeHeader]
  /\ active = <<>> /\ running = Nil /\ returning = Nil
  /\ user = [h \in Headers |-> 0]
  /\ origin = [h \in Headers |-> h]
  /\ args = [h \in Headers |-> <<>>]

\* promise<T...>(): a new promise.
NewPromise ==
  /\ UserTurn /\ Room(1) /\ NewHeader(hdr) <= MaxRoots
  /\ LET h == NewHeader(hdr)
     IN  hdr' = [hdr EXCEPT ![h] = PromiseHeader(h)] /\ user' = [user EXCEPT ![h] = 1]
  /\ UNCHANGED <<active, running, returning, origin, args>>

\* make_future(value): a new ready result.
MakeFuture ==
  /\ UserTurn /\ Room(1) /\ NewHeader(hdr) <= MaxRoots
  /\ LET h == NewHeader(hdr)
     IN  hdr' = [hdr EXCEPT ![h] = ResultHeader(h, 1)] /\ user' = [user EXCEPT ![h] = 1]
  /\ UNCHANGED <<active, running, returning, origin, args>>

\* Copying a future or promise, promise::get_future.
CopyFuture(h) ==
  /\ UserTurn /\ Holds(h) /\ user[h] < size.refs
  /\ hdr' = AddRef(hdr, h, 1)
  /\ user' = [user EXCEPT ![h] = @ + 1]
  /\ UNCHANGED <<active, running, returning, origin, args>>

\* ~future_impl_shref.
DropFuture(h) ==
  /\ UserTurn /\ Holds(h)
  /\ hdr' = Drop(hdr, h)
  /\ user' = [user EXCEPT ![h] = @ - 1]
  /\ UNCHANGED <<active, running, returning, origin, args>>

\* promise::require_anonymous.
RequireAnonymous(p) ==
  /\ UserTurn /\ Holds(p) /\ hdr[p].kind = "promise"
  /\ hdr[p].countdown \in 1 .. size.countdown - 1
  /\ hdr' = [hdr EXCEPT ![p].countdown = @ + 1]
  /\ UNCHANGED <<active, running, returning, user, origin, args>>

\* promise::fulfill_anonymous(n), fulfill_result and finalize (n = 1):
\* the last decrement makes the promise ready, and its own result.
Fulfill(p, n) ==
  /\ UserTurn /\ Holds(p) /\ hdr[p].kind = "promise"
  /\ n <= hdr[p].countdown
  /\ LET H == [hdr EXCEPT ![p].countdown = @ - n]
         E == EnterReady(H, active, p, p)
     IN  IF n = hdr[p].countdown
         THEN hdr' = E.heap /\ active' = E.queue
         ELSE hdr' = H /\ UNCHANGED active
  /\ UNCHANGED <<running, returning, user, origin, args>>

\* Futures fs, copied or moved from user code, as arguments.
TakeArgs(fs, move) ==
  LET uses(x) == Cardinality({k \in DOMAIN fs : fs[k] = x})
  IN  IF move THEN hdr ELSE [x \in Headers |-> AddRef(hdr, x, uses(x))[x]]

\* A dependent with the given body on arguments fs: make_header, and
\* steal_header of a when_all.
MakeDependent(body, fs, move) ==
  /\ UserTurn /\ Room(IF body = "all" THEN 2 ELSE 1)
  /\ \A k \in DOMAIN fs : Holds(fs[k])
  /\ move => Len(fs) = 1
  /\ LET h == NewHeader(hdr)
         H == LinkAll([TakeArgs(fs, move) EXCEPT ![h] = DependentHeader(body)], h, fs)
         starts == H[h].status = StatusActive
     IN  /\ hdr' = H
         /\ active' = IF starts THEN Append(active, h) ELSE active
         /\ returning' = IF starts /\ running = Nil THEN h ELSE returning
         /\ user' = [x \in Headers |-> IF x = h THEN 1
                                       ELSE IF move /\ x = fs[1] THEN user[x] - 1
                                       ELSE user[x]]
         /\ args' = [args EXCEPT ![h] = fs]
  /\ UNCHANGED <<running, origin>>

\* future::then, on a future or on a when_all (two arguments or more).
Then(fs, move) == MakeDependent("then", fs, move)

\* A when_all turned into a future of its own: its values come from several
\* arguments, or more than the representative's readiness is open.
WhenAll(fs) == MakeDependent("all", fs, FALSE)

\* A when_all whose other arguments are ready and carry no value is its
\* representative: the header is stolen and no dependent is made.
Stealable(fs, rep) == \A k \in DOMAIN fs : k = rep \/ Ready(hdr, fs[k])

WhenAllSteal(fs, rep) ==
  /\ UserTurn /\ \A k \in DOMAIN fs : Holds(fs[k])
  /\ Stealable(fs, rep)
  /\ user[fs[rep]] < size.refs
  /\ hdr' = AddRef(hdr, fs[rep], 1)
  /\ user' = [user EXCEPT ![fs[rep]] = @ + 1]
  /\ UNCHANGED <<active, running, returning, origin, args>>

---------------------------------------------------------------------------
(* Draining the active queue                                               *)

\* Whatever stood for h stands for what r stands for.
StandFor(h, r) == [x \in Headers |-> IF origin[x] = h THEN origin[r] ELSE origin[x]]

Popped(h) == running = Nil /\ active # <<>> /\ h = Head(active)

\* The make_header that started this drain, if any, returns when it ends.
Settled(q) == IF q = <<>> THEN Nil ELSE returning

\* future_body_proxy::leave_active.
LeaveActiveProxy(h) ==
  /\ Popped(h) /\ hdr[h].body = "proxy"
  /\ LET E == EnterReady(AddRef(hdr, h, -1), Tail(active), h, Proxied(hdr, h))
     IN  IF hdr[h].ref = 1
         THEN /\ hdr' = [DropDeps(hdr, h) EXCEPT ![h] = DeadHeader]
              /\ active' = Tail(active)
         ELSE hdr' = E.heap /\ active' = E.queue
  /\ returning' = Settled(active')
  /\ UNCHANGED <<running, user, origin, args>>

\* future_body_identity::leave_active: the values of the arguments are copied
\* to a result header of its own.
LeaveActiveAll(h) ==
  /\ Popped(h) /\ hdr[h].body = "all"
  /\ LET r == NewHeader(hdr)
         H == [DropDeps(AddRef(hdr, h, -1), h) EXCEPT ![r] = ResultHeader(r, 1)]
         E == EnterReady(H, Tail(active), h, r)
     IN  IF hdr[h].ref = 1
         THEN /\ hdr' = [DropDeps(hdr, h) EXCEPT ![h] = DeadHeader]
              /\ active' = Tail(active) /\ UNCHANGED origin
         ELSE /\ hdr' = E.heap /\ active' = E.queue
              /\ origin' = StandFor(h, r)
  /\ returning' = Settled(active')
  /\ args' = [args EXCEPT ![h] = <<>>]
  /\ UNCHANGED <<running, user>>

\* future_body_then::leave_active up to the call of the callback.
CallbackBegin(h) ==
  /\ Popped(h) /\ hdr[h].body = "then"
  /\ running' = h
  /\ active' = Tail(active)
  /\ UNCHANGED <<hdr, returning, user, origin, args>>

\* What a header waits for, directly.
WaitsOn(h) ==
  {hdr[h].deps[k].dep : k \in {j \in DOMAIN hdr[h].deps : hdr[h].deps[j].linked}}

\* The headers on which h waits, transitively, and h.
Upstream(h) ==
  LET up[n \in 0 .. MaxHeaders] ==
        IF n = 0 THEN {h} ELSE up[n-1] \cup UNION {WaitsOn(x) : x \in up[n-1]}
  IN  up[MaxHeaders]

\* The callback returns the future r, copied or moved, or no value, which is
\* the_always (apply_futured_as_future).  leave_active destroys
\* the body and its arguments, and then leave_active_into_proxy lets the
\* header die if nobody watches it, and stand for r otherwise.  A callback
\* that returned a future that waits for its own header could never be ready:
\* user code does not do that.
CallbackReturn(r, move) ==
  /\ running # Nil
  /\ IF r = Always THEN ~move ELSE Holds(r)
  /\ running \notin Upstream(r)
  /\ LET h  == running
         H0 == IF move THEN hdr ELSE AddRef(hdr, r, 1)
         H1 == [DropDeps(H0, h) EXCEPT ![h].body = "none", ![h].deps = <<>>]
         E  == EnterProxying(H1, active, h, r)
     IN  /\ user' = IF move THEN [user EXCEPT ![r] = @ - 1] ELSE user
         /\ IF hdr[h].ref = 1
            THEN /\ hdr' = Drop([H1 EXCEPT ![h] = DeadHeader], r)
                 /\ UNCHANGED <<active, origin>>
            ELSE /\ hdr' = E.heap /\ active' = E.queue
                 /\ origin' = StandFor(h, r)
  /\ running' = Nil
  /\ returning' = Settled(active')
  /\ args' = [args EXCEPT ![running] = <<>>]

ArgLists ==
  UNION {[1 .. n -> {h \in Headers : Holds(h)}] : n \in 1 .. size.args}

Step ==
  \/ NewPromise
  \/ MakeFuture
  \/ \E h \in Headers :
       \/ CopyFuture(h) \/ DropFuture(h) \/ RequireAnonymous(h)
       \/ \E n \in 1 .. size.countdown : Fulfill(h, n)
       \/ LeaveActiveProxy(h) \/ LeaveActiveAll(h) \/ CallbackBegin(h)
       \/ \E move \in BOOLEAN : CallbackReturn(h, move)
  \/ \E fs \in ArgLists :
       \/ \E move \in BOOLEAN : Then(fs, move)
       \/ WhenAll(fs) \/ \E rep \in DOMAIN fs : WhenAllSteal(fs, rep)

Next == Step /\ UNCHANGED size

Spec == Init /\ [][Next]_vars

---------------------------------------------------------------------------
(* Properties                                                              *)

\* The links of the bodies in a heap; those to h, and those of them that are open.
Links(H)        == {l \in Headers \X (1 .. MaxArgs) : l[2] \in DOMAIN H[l[1]].deps}
LinkAt(H, l)    == H[l[1]].deps[l[2]]
LinksTo(H, h)   == {l \in Links(H) : LinkAt(H, l).dep = h}
OpenTo(H, h)    == {l \in LinksTo(H, h) : LinkAt(H, l).linked}
OpenOf(H, h)    == {k \in DOMAIN H[h].deps : H[h].deps[k].linked}
ResultFor(H, h) == {d \in Headers \ {h} : H[d].result = h}
Unready(H, h)   == H[h].kind = "dependent" /\ ~ Ready(H, h)
Due(H) == {h \in Headers : Unready(H, h) /\ H[h].status \in {StatusActive, StatusProxyingActive}}

HeaderType ==
  [kind : {"free", "dead", "promise", "result", "dependent"}, ref : Nat \cup {-1},
   status : -3 .. MaxArgs, sucs : Seq(Headers \X (1 .. MaxArgs)), result : Headers \cup {Nil},
   body : {"none", "then", "all", "proxy"}, deps : Seq([dep : Headers, linked : BOOLEAN]),
   countdown : 0 .. MaxCountdown]

\* Every header, reference and queue entry has the shape of its declaration
\* in core.hpp.
TypeOK ==
  /\ size \in Sizes
  /\ hdr \in [Headers -> HeaderType]
  /\ \A h \in Headers : hdr[h].ref = -1 <=> h = Always
  /\ user \in [Headers -> Nat] /\ origin \in [Headers -> Headers]
  /\ args \in [Headers -> Seq(Headers)]
  /\ active \in Seq(Headers)
  /\ running \in Headers \cup {Nil} /\ returning \in Headers \cup {Nil}

\* The reference count of a header is the number of its holders: user futures
\* and promises, dependency links, ready dependents whose result it is, and
\* itself while it is a dependent that is not ready.  Nothing refers to a
\* deleted header and no header without holder survives, although a count is
\* moved in bulk when lists are handed over (core.cpp 82-161, 163-262).
ReferencesExact ==
  \A h \in Headers \ {Always} :
    /\ hdr[h].ref = user[h] + Cardinality(LinksTo(hdr, h)) + Cardinality(ResultFor(hdr, h))
                    + (IF Unready(hdr, h) THEN 1 ELSE 0)
    /\ Allocated(hdr, h) <=> hdr[h].ref > 0

\* The links of a body that are still open are exactly the entries of the
\* successor lists, once each and in the list of the header they wait for; a
\* dependent counts its open links in status_; the ready headers have no
\* successors.
LinksExact ==
  \A h \in Headers :
    /\ Lists!IsInjective(hdr[h].sucs)
    /\ Lists!ToSet(hdr[h].sucs) = OpenTo(hdr, h)
    /\ Ready(hdr, h) => hdr[h].sucs = <<>>
    /\ Unready(hdr, h) =>
         IF hdr[h].body = "proxy"
         THEN /\ Len(hdr[h].deps) = 1
              /\ hdr[h].status = IF hdr[h].deps[1].linked THEN StatusProxying
                                                          ELSE StatusProxyingActive
         ELSE hdr[h].status = Cardinality(OpenOf(hdr, h))

\* A header is in the active queue exactly when it is due: once, until its
\* leave_active is called, so that no dependent is forgotten, run twice or
\* deleted while it is queued.
QueueExact ==
  /\ Lists!IsInjective(active)
  /\ Lists!ToSet(active) = Due(hdr) \ {running}

\* The graph of headers is whole after every step of user code, callbacks and
\* draining: reference counts, links and successor lists, and the active queue
\* agree, so no header is freed while something refers to it and none is lost.
GraphExact == TypeOK /\ ReferencesExact /\ LinksExact /\ QueueExact

\* No header proxies a header that proxies: chains of callbacks that return
\* futures are flattened to length one in whatever order they are linked.
ProxiesFlat ==
  \A h \in Headers : Unready(hdr, h) /\ Proxying(hdr, h) => ~ Proxying(hdr, Proxied(hdr, h))

\* A ready future holds the result of the promise or callback it stands for,
\* and a body that is due sees the results of the futures it was built on,
\* however many proxies were bypassed and headers replaced in between.
ValuesFaithful ==
  \A h \in Headers : hdr[h].kind = "dependent" =>
    /\ Ready(hdr, h) => hdr[h].result = origin[h]
    /\ hdr[h].body \in {"then", "all"} /\ hdr[h].status = StatusActive =>
         \A k \in DOMAIN args[h] :
           LET d == hdr[h].deps[k].dep
           IN  d = origin[args[h][k]] /\ Ready(hdr, d) /\ hdr[d].result = d

\* When nothing is draining, a dependent that is not ready waits, through
\* others, for a promise that is not fulfilled: no wake-up is lost.
NoLostWakeup ==
  active = <<>> /\ running = Nil =>
    \A h \in Headers : Unready(hdr, h) =>
      \E p \in Upstream(h) : hdr[p].kind = "promise" /\ hdr[p].countdown > 0

\* What callbacks and ready futures deliver is right, and delivered: results
\* reach them unchanged by proxying, and no wake-up is lost on the way.
ValuesDelivered == ValuesFaithful /\ NoLostWakeup

---------------------------------------------------------------------------
(* The inductive invariant behind GraphExact and ProxiesFlat.  The heap    *)
(* between the steps of an operation is described with it, too: X[h] is    *)
(* the number of references to h held outside the heap, in user futures or *)
(* in the local variables of the operation, and z is a dependent whose     *)
(* body is destroyed and which has yet to enter a state, or Nil.           *)

IsResult(H, r) == Ready(H, r) /\ H[r].result = r

\* An argument that no link waits for is a result, and a proxy proxies no proxy.
BodyOK(H, h) ==
  /\ Len(H[h].deps) <= MaxArgs
  /\ \A k \in DOMAIN H[h].deps : H[h].deps[k].linked \/ IsResult(H, H[h].deps[k].dep)
  /\ \/ H[h].body \in {"then", "all"} /\ H[h].status = Cardinality(OpenOf(H, h))
     \/ /\ H[h].body = "proxy" /\ Len(H[h].deps) = 1
        /\ IF H[h].deps[1].linked
           THEN H[h].status = StatusProxying /\ ~ Proxying(H, Proxied(H, h))
           ELSE H[h].status = StatusProxyingActive

Bodiless(H, h) == H[h].body = "none" /\ H[h].deps = <<>>

\* What the fields of a header know of each other, and of its result.
HeaderOK(H, h, z) ==
  /\ H[h].kind = "free" => H[h] = FreeHeader
  /\ H[h].kind = "dead" => H[h] = DeadHeader
  /\ H[h].kind = "promise" =>
       /\ H[h].result = h /\ Bodiless(H, h)
       /\ H[h].status = StatusActive + 1 \/ (Ready(H, h) /\ H[h].countdown = 0)
  /\ H[h].kind = "result" => IsResult(H, h) /\ Bodiless(H, h)
  /\ H[h].kind = "dependent" /\ Ready(H, h) =>
       /\ H[h].result \in Headers \ {h} /\ IsResult(H, H[h].result) /\ Bodiless(H, h)
  /\ Unready(H, h) =>
       /\ H[h].result = Nil
       /\ IF h = z THEN Bodiless(H, h) /\ H[h].status \in {StatusActive, StatusProxyingActive}
          ELSE BodyOK(H, h)

SuccessorsOK(H, h) ==
  /\ Lists!IsInjective(H[h].sucs) /\ Lists!ToSet(H[h].sucs) = OpenTo(H, h)
  /\ Ready(H, h) => H[h].sucs = <<>>

\* A dependent that is not ready carries a reference to itself; z lost it.
Own(H, h, z) == IF Unready(H, h) /\ h # z THEN 1 ELSE 0

CountOK(H, X, z, h) ==
  /\ H[h].ref \in Nat
  /\ H[h].ref = X[h] + Cardinality(LinksTo(H, h)) + Cardinality(ResultFor(H, h)) + Own(H, h, z)
  /\ Allocated(H, h) <=> H[h].ref > 0

HeapOK(H, X, z) ==
  /\ H \in [Headers -> HeaderType] /\ H[Always] = ResultHeader(Always, -1)
  /\ \A h \in Headers : HeaderOK(H, h, z)
  /\ \A h \in Headers : SuccessorsOK(H, h)
  /\ \A h \in Headers \ {Always} : CountOK(H, X, z, h)

\* Every when_all under way will find a header for its result.
Alls(H) == {h \in Headers : H[h].body = "all"}
RoomKept ==
  Cardinality(IsFree(hdr)) >= MaxHeaders - size.headers + Cardinality(Alls(hdr))

RunningOK ==
  running # Nil =>
    Unready(hdr, running) /\ hdr[running].body = "then" /\ hdr[running].status = StatusActive

FutureInv == TypeOK /\ HeapOK(hdr, user, Nil) /\ QueueExact /\ RunningOK /\ RoomKept

(* What ValuesDelivered needs beside it: a header and the one it waits for *)
(* stand for the same result, and nothing waits for itself.                *)

\* O and A are the histories origin and args.
ValueOK(H, O, A, h) ==
  /\ H[h].kind \in {"free", "promise", "result"} \/ H[h].body \in {"then", "all"} => O[h] = h
  /\ H[h].kind = "dependent" /\ H[h].body = "none" => H[h].result = O[h]
  /\ H[h].body = "proxy" => O[Proxied(H, h)] = O[h]
  /\ H[h].body \in {"then", "all"} =>
       /\ Len(A[h]) = Len(H[h].deps)
       /\ \A k \in DOMAIN H[h].deps : O[A[h][k]] = O[H[h].deps[k].dep]
  /\ H[h].kind = "promise" => Ready(H, h) \/ H[h].countdown > 0

ValuesOK(H, O, A) == \A h \in Headers : ValueOK(H, O, A, h)

\* Among any headers there is one that waits for none of them.
WaitsInto(H, x, S) == \E k \in DOMAIN H[x].deps : H[x].deps[k].linked /\ H[x].deps[k].dep \in S
Acyclic(H) == \A S \in (SUBSET Headers) \ {{}} : \E x \in S : ~ WaitsInto(H, x, S)

ValuesInv == FutureInv /\ ValuesOK(hdr, origin, args) /\ Acyclic(hdr)

=============================================================================
