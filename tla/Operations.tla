------------------------------ MODULE Operations ------------------------------
(***************************************************************************)
(* Operations in flight side by side: rput, rget, noncontiguous transfers, *)
(* atomics, copy, rpc and rpc_ff, with any requests for completion.        *)
(***************************************************************************)
EXTENDS Rput, Rpc, Transfers

CONSTANT Plans   \* Plans[o]: the calls operation o may be

ASSUME PlansAssumption ==
  \A o \in Ops : \A p \in Plans[o] :
    p.vals \in BOOLEAN /\ p.cxs \in Seq(Requests) /\ Len(p.cxs) <= MaxCx

vars == <<plan, st, rp, chain, rc>>

Init == /\ CxInit /\ RpInit /\ ChainInit /\ RcInit

\* The user calls an operation; its assertions hold of the call.  copy settles first
\* where its ends are.
CopyKinds == {"copy_to", "copy_from", "copy"}
Settled(p) == CASE p.kind = "copy_to"   -> CopyToPointer([p EXCEPT !.kind = "copy"])
                [] p.kind = "copy_from" -> CopyFromPointer([p EXCEPT !.kind = "copy"])
                [] p.kind = "copy"      -> CopyBetween(p)
                [] OTHER                -> p
Accepts(p) ==
  CASE p.kind = "rput"           -> IF p.byVal THEN AcceptsRputValue(p) ELSE AcceptsRput(p)
    [] p.kind = "rget"           -> AcceptsRget(p)
    [] p.kind = "rput_irregular" -> AcceptsRputIrregular(p)
    [] p.kind = "rget_irregular" -> AcceptsRgetIrregular(p)
    [] p.kind = "rput_regular"   -> AcceptsRputRegular(p)
    [] p.kind = "rget_regular"   -> AcceptsRgetRegular(p)
    [] p.kind = "rput_strided"   -> AcceptsRputStrided(p)
    [] p.kind = "rget_strided"   -> AcceptsRgetStrided(p)
    [] p.kind = "atomic"         -> AcceptsAtomic(p)
    [] p.kind \in CopyKinds      -> AcceptsCopy(p)
    [] p.kind = "rpc"            -> AcceptsRpc(p)
    [] p.kind = "rpc_ff"         -> AcceptsRpcFf(p)
Call(o) ==
  /\ plan[o] = NoPlan
  /\ \E p \in Plans[o] : Accepts(p) /\ plan' = [plan EXCEPT ![o] = Settled(p)]
  /\ UNCHANGED <<st, rp, chain, rc>>

VisPuts == {"rput_irregular", "rput_regular", "rput_strided"}
VisGets == {"rget_irregular", "rget_regular", "rget_strided"}
Chains(o) == CASE plan[o].kind = "rget"   -> RgetChains(o)
               [] plan[o].kind \in VisPuts -> {VisPutChain(o)}
               [] plan[o].kind \in VisGets -> {VisGetChain(o)}
               [] plan[o].kind = "atomic" -> {AtomicNow(o), AtomicLater(o)}
               [] plan[o].kind \in {"copy", "copy_get", "copy_3rd"} -> {CopyChain(o)}
               [] OTHER                   -> {}

\* A link of a chain runs.
Run(o, c) == /\ st' = FoldLeft(LAMBDA s, e : Do(s, o, e), st, Head(c).do)
             /\ chain' = [chain EXCEPT ![o] = Tail(c)]
             /\ UNCHANGED plan
Initiate(o) == st.live[o] = "none" /\ \E c \in Chains(o) : Run(o, c)
Continue(o) == chain[o] # <<>> /\ Run(o, chain[o])

\* Every message, callback and inbox has been worked off.
Quiet ==
  /\ \A o \in Ops : /\ plan[o] # NoPlan /\ chain[o] = <<>>
                    /\ rp[o].cb = "none" /\ rp[o].reply = "none"
                    /\ rc[o].call \in {"none", "returned", "thrown"} /\ rc[o].msg \in {"none", "done"}
                    /\ st.am[o] \in {"none", "ran"}
                    /\ plan[o].kind \notin {"rpc", "rpc_ff"} =>
                         st.live[o] # "none" /\ (plan[o].kind = "rput" => "operation" \in st.fact[o])
  /\ \A k \in Keys : st.queued[k] + st.relay[k] + st.posted[k] = 0

Stop == Quiet /\ UNCHANGED vars

Next ==
  \/ \E o \in Ops : \/ Call(o)
                    \/ RputNext(o) /\ UNCHANGED <<chain, rc>>
                    \/ (Initiate(o) \/ Continue(o)) /\ UNCHANGED <<rp, rc>>
                    \/ RpcNext(o) /\ UNCHANGED <<rp, chain>>
                    \/ (Hand(o) \/ RunRemote(o)) /\ UNCHANGED <<rp, chain, rc>>
  \/ \E k \in Keys : (Fulfill(k) \/ RunLpc(k) \/ RunRelay(k)) /\ UNCHANGED <<rp, chain, rc>>
  \/ Stop

\* Ranks poll, devices finish, threads call progress: whatever can go on does.
Spec == Init /\ [][Next]_vars /\ WF_vars(Next)

-----------------------------------------------------------------------------
\* The values the variables may take; a counter below zero is a value given back twice.
TypeOK ==
  /\ st \in State
  /\ rp \in [Ops -> rpFields] /\ \A o \in Ops : rp[o].out \in Nat
  /\ rc \in [Ops -> rcFields]

\* Nothing is used after it was freed: not the object that holds the completions, which
\* its last callback deletes; not a dormant lpc, which may run and delete itself as soon
\* as awaken has handed it over; not a bounce buffer.  None is freed twice, and the rpc
\* of remote_cx is not handed on twice.
NoMisuse == ~st.misuse

\* completion.hpp's contract for a cx_state: exactly one call to operator(), cancel or
\* to_lpc_dormant before the state is destroyed.
OneCallEach ==
  /\ \A k \in Keys : st.calls[k] <= 1
  /\ \A o \in Ops : st.live[o] = "dead" => \A k \in Here(o) : st.calls[k] = 1

\* A promise of the user's counts exactly the notifications that are still to come: an
\* operation that completes at once adds none, one that throws takes its own back.
DepsExact ==
  st.deps = Size({k \in Keys :
    /\ k \in Asked(k[1]) /\ R(k).act = "promise" /\ k \notin st.elided
    /\ \/ k \in st.dormant \/ st.queued[k] > 0
       \/ /\ st.live[k[1]] = "live" /\ st.calls[k] = 0
          /\ Values(k) \/ rp[k[1]].cb # "wait"})

\* discharge() returns when undischarged_n_ is zero: the persona is held back exactly as
\* long as it has to post an lpc to another persona or to hand on a remote completion.
\* (A put-like copy out of a device does not count the message its copy engine's
\* callback sends, copy.hpp:662.)
HandsOn(o) == \E i \in DOMAIN chain[o] :
                /\ chain[o][i].by \in {"handle", "device", "persona"}
                /\ \E j \in DOMAIN chain[o][i].do : chain[o][i].do[j] \in {"ship", "during"}
DischargeExact ==
  st.undis = Size({k \in Keys : /\ k \in Here(k[1]) /\ R(k).act = "lpc"
                                /\ st.live[k[1]] = "live" /\ st.calls[k] = 0})
             + Size({o \in Ops : Remote(o) /\ HandsOn(o)})

\* A call that asked for a synchronous event has it when it returns; the value of an
\* rput by value has been read.
SyncHonest ==
  \A o \in Puts : st.live[o] # "none" /\ rp[o].cb # "wait" =>
    /\ plan[o].byVal => "source" \in st.fact[o]
    /\ \A ev \in Events : IsEventSync(o, ev) => ev \in st.fact[o]

\* When everything is quiet, every object, bounce buffer, dormant lpc and dependency is
\* gone.  (An rput to another node with remote and without operation completion keeps
\* its object: rput.hpp:312-361 has no one to delete it.)
KeepsObject(o) == o \in Puts /\ ~plan[o].local /\ WantRemote(o) /\ ~WantOp(o)
Reclaimed ==
  Quiet => /\ \A o \in Ops : st.bufs[o] = {} /\ (st.live[o] = "live" => KeepsObject(o))
           /\ st.dormant = {} /\ st.deps = 0 /\ st.undis = 0

\* Objects, dormant lpcs and bounce buffers of operations live exactly as long as they
\* are needed, whichever of call, callback, reply and acknowledgment comes last.
MemoryExact == TypeOK /\ NoMisuse /\ Reclaimed

\* Completion states are used as completion.hpp demands, and a call returns no earlier
\* than the synchronous events it was asked for.
CallsExact == OneCallEach /\ SyncHonest

\* Both counters that users wait on, the dependencies of a promise and what discharge()
\* waits for, agree with what is still to come, through throws and cancellations too.
CountersExact == DepsExact /\ DischargeExact

\* Each request is answered at most once, and only after its event has happened.
Promise == INSTANCE CompletionPromise WITH
  Requests <- Keys, told <- st.hits, fact <- st.fact,
  due <- [k \in Keys |-> IF k \in Asked(k[1]) THEN R(k).ev ELSE "none"]
KeepsPromise == Promise!Spec

\* Every request is answered in the end, unless the call threw.
Answered(o) == rc[o].call = "thrown" \/
                 \A k \in Asked(o) : R(k).act \in {"buffered", "blocking"} \/ st.hits[k] = 1
AllAnswered == <>[](\A o \in Ops : plan[o] # NoPlan /\ Answered(o))
===============================================================================
