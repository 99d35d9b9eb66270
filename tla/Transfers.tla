------------------------------- MODULE Transfers -------------------------------
(***************************************************************************)
(* rget, the noncontiguous puts and gets, remote atomics and copy: each is *)
(* a chain of continuations.  A link of the chain names who runs it (the   *)
(* caller, a GASNet handle, a device's event, a message to a persona) and  *)
(* what it does, in the order of the code; the next link runs when the     *)
(* thing it waits for is done, at some later time.                         *)
(***************************************************************************)
EXTENDS Completions, SequencesExt

VARIABLE chain   \* chain[o]: the links of the operation that have not run yet

ChainInit == chain = [o \in Ops |-> <<>>]

\* A link, what it does and by whom it is run: the call itself, the initiator's own
\* progress (a GASNet handle or a device's event), an active message to its persona,
\* or another rank.
Link(by, do) == [by |-> by, do |-> do]
When(c, do)  == IF c THEN do ELSE <<>>

\* A call of the chain, as a function of the initiator's state.  "arrives" is the
\* network or the copy engine: the destination holds the data.
Do(s, o, e) ==
  CASE e = "construct" -> Construct(s, o)
    [] e = "return"    -> Return(s, o, "none")
    [] e = "returnOp"  -> Return(s, o, "operation")
    [] e = "source"    -> Fire(s, o, "source")
    [] e = "operation" -> Fire(s, o, "operation")
    [] e = "delete"    -> Delete(s, o)
    [] e = "read"      -> Happen(s, o, "source")
    [] e = "arrives"   -> Happen(s, o, "operation")
    [] e = "ship"      -> Ship(s, o)
    [] e = "during"    -> During(s, o)
    [] e = "send"      -> s
    [] e = "inc"       -> [s EXCEPT !.undis = @ + 1]
    [] e = "dec"       -> [s EXCEPT !.undis = @ - 1]
    [] e \in {"allocS", "allocD"} -> [s EXCEPT !.bufs[o] = @ \cup {IF e = "allocS" THEN "s" ELSE "d"}]
    [] e \in {"useS", "freeS"} -> [s EXCEPT !.misuse = @ \/ "s" \notin s.bufs[o],
                                            !.bufs[o] = IF e = "freeS" THEN @ \ {"s"} ELSE @]
    [] e \in {"useD", "freeD"} -> [s EXCEPT !.misuse = @ \/ "d" \notin s.bufs[o],
                                            !.bufs[o] = IF e = "freeD" THEN @ \ {"d"} ELSE @]

-----------------------------------------------------------------------------
\* rget, by value or into a buffer.  The initiator sends the remote completion once
\* the data is here; until then it is counted, or a thread could stop before it has
\* sent it.  The get may be done when rma_get_nb returns: no callback is registered.
AcceptsRget(p) == Names(p, "operation") /\ ~Names(p, "source")

Counted(o)    == When(Remote(o), <<"inc">>)
SendRemote(o) == When(Remote(o), <<"ship", "dec">>)
GetDone(o)    == SendRemote(o) \o <<"operation", "delete">>
RgetLocal(o)  == <<Link("call", <<"arrives", "construct", "returnOp">> \o When(Remote(o), <<"ship">>)
                                  \o <<"operation", "delete">>)>>
RgetNow(o)    == <<Link("call", <<"construct">> \o Counted(o) \o <<"arrives", "returnOp">> \o GetDone(o))>>
RgetLater(o)  == <<Link("call", <<"construct">> \o Counted(o) \o <<"return">>),
                   Link("handle", <<"arrives">> \o GetDone(o))>>
RgetChains(o) == IF plan[o].local THEN {RgetLocal(o)} ELSE {RgetNow(o), RgetLater(o)}

-----------------------------------------------------------------------------
\* Noncontiguous transfers.  A run is <<rank, length>>; those of the remote side are
\* all on the rank of the first.
Total(runs)    == FoldLeft(LAMBDA n, r : n + r[2], 0, runs)
SameRank(runs) == \A i \in DOMAIN runs : runs[i][1] = runs[1][1]
EqualRuns(runs) == \A i \in DOMAIN runs : runs[i][2] = runs[1][2]

AcceptsPut(p) == Names(p, "operation") \/ Names(p, "remote")
AcceptsGet(p) == AcceptsPut(p) /\ ~Names(p, "source")

AcceptsRputIrregular(p) == AcceptsPut(p) /\ SameRank(p.there) /\ Total(p.here) = Total(p.there)
AcceptsRgetIrregular(p) == AcceptsGet(p) /\ SameRank(p.there) /\ Total(p.here) = Total(p.there)
AcceptsRputRegular(p)   == /\ AcceptsPut(p) /\ SameRank(p.there) /\ Total(p.here) = Total(p.there)
                           /\ EqualRuns(p.here) /\ EqualRuns(p.there)
AcceptsRgetRegular(p)   == /\ AcceptsGet(p) /\ SameRank(p.there) /\ Total(p.here) = Total(p.there)
                           /\ EqualRuns(p.here) /\ EqualRuns(p.there)
AcceptsRputStrided(p)   == AcceptsPut(p) /\ p.there # <<>>
AcceptsRgetStrided(p)   == AcceptsGet(p) /\ p.there # <<>>

\* rma_{put,get}_{irreg,reg,strided}_nb: the source's callback, if the user wants one and
\* it is not synchronous, is registered first and registers the operation's; that one
\* sends the remote completion, which was serialized at the call.
PutSourceCb(o) == When(HasEvent(o, "source") /\ ~IsEventSync(o, "source"),
                       <<Link("handle", <<"read", "source">>)>>)
OperationCb(o) == <<Link("handle", <<"arrives">> \o GetDone(o))>>
RmaNb(o)       == PutSourceCb(o) \o OperationCb(o)
VisPutChain(o) == <<Link("call", <<"construct">> \o Counted(o) \o <<"return">>)>> \o RmaNb(o)
VisGetChain(o) == <<Link("call", <<"construct">> \o Counted(o) \o <<"return">>)>> \o RmaNb(o)

-----------------------------------------------------------------------------
\* Remote atomics: GASNet may complete the operation at once.  The callback of an
\* operation with a value is on the heap from the start, as its result is inside it;
\* the other is moved there when it has to wait.
AcceptsAtomic(p) == Names(p, "operation") /\ ~Names(p, "source") /\ ~Names(p, "remote")
AtomicDone       == <<"arrives", "operation", "delete">>
AtomicNow(o)     == <<Link("call", <<"construct", "arrives", "returnOp", "operation", "delete">>)>>
AtomicLater(o)   == <<Link("call", <<"construct", "return">>), Link("handle", AtomicDone)>>

-----------------------------------------------------------------------------
\* copy (copy.hpp, copy.cpp): a transfer between host and device memory of any two
\* ranks.  plan[o] has the heaps and ranks of source and destination (hs, rs, hd, rd),
\* whether GASNet handles the kinds natively (mk) and whether the two devices are of
\* different kinds (dual).  A rank is this one, one that shares its memory, or another.
\* Memory that GASNet or a peer cannot reach is staged in bounce buffers "s", "d".

\* copy_traits.
CopyWantOp(o)      == HasEvent(o, "operation")
CopyWantSource(o)  == HasEvent(o, "source")
CopyWantInitevt(o) == CopyWantOp(o) \/ CopyWantSource(o)

Near(r) == r \in {"me", "near"}

\* rma_copy_local: memory of the host is copied at once and the continuation runs in
\* the call; a device's engine runs it later.  GASNet runs the others from a handle.
RmaCopyLocal(c, dev, do) ==
  IF dev THEN Append(c, Link("device", do)) ELSE [c EXCEPT ![Len(c)].do = @ \o do]
RmaCopyRemote(do)        == <<Link("handle", do)>>
RmaCopyGet(do)           == <<Link("target", do)>>

\* The end of a copy that completes where it was initiated.
Completed(o) == <<"source", "operation", "delete">> \o When(Remote(o), <<"dec", "during">>)

\* copy_3rdparty: the destination's rank fetches the data, runs the remote
\* completion and sends the initiator's events back.
Copy3rdParty(o) ==
  <<Link("call", <<"construct", "return">> \o When(~CopyWantInitevt(o), <<"delete">>)),
    Link("target", <<"arrives", "during">>)>>
    \o When(CopyWantInitevt(o), <<Link("persona", <<"source", "operation", "delete">>)>>)

\* copy_as_rget: from host memory of a rank to this one.
CopyAsRget(o) ==
  IF plan[o].local
  THEN <<Link("call", <<"arrives", "construct", "return", "source", "operation", "during", "delete">>)>>
  ELSE <<Link("call", <<"construct", "return">> \o When(Remote(o), <<"inc">>)),
         Link("handle", <<"arrives">> \o Completed(o))>>

\* copy_general, both ends on this rank.  Devices of two kinds copy through the host.
CopyLoopback(o) ==
  LET called == <<"construct", "return">> \o When(Remote(o), <<"inc">>) IN
    IF plan[o].dual
    THEN <<Link("call", called \o <<"allocS">>),
           Link("device", <<"read", "useS">>),
           Link("device", <<"arrives", "useS", "freeS">> \o Completed(o))>>
    ELSE <<Link("call", called), Link("device", <<"arrives">> \o Completed(o))>>

\* Faulty variant: the destination never acknowledges.
CopyPutAsGetUnacked(o) ==
  LET bounce == plan[o].hs = "private" IN
    <<Link("call", <<"construct", "return">> \o When(bounce, <<"allocS", "read", "source">>) \o <<"delete">>),
      Link("target", When(bounce, <<"useS">>) \o <<"arrives", "during">>)>>
      \o When(bounce, <<Link("restricted", <<"freeS">>)>>)

\* copy_general, a put with remote but no operation completion and native kinds: the
\* destination gets the data, so that it knows first.  Private memory is copied to a
\* buffer it can reach.
CopyPutAsGet(o) ==
  LET bounce   == plan[o].hs = "private"
      must_ack == ~bounce /\ CopyWantSource(o)
  IN <<Link("call", <<"construct", "return">> \o When(bounce, <<"allocS", "read", "source">>)
                      \o When(~must_ack, <<"delete">>)),
       Link("target", When(bounce, <<"useS">>)),
       Link("target", When(bounce, <<"useS">>) \o <<"arrives", "during">>)>>
       \o When(must_ack, <<Link("persona", <<"source", "operation", "delete">>)>>)
       \o When(~must_ack /\ bounce, <<Link("restricted", <<"freeS">>)>>)

\* copy_general, any other transfer with native kinds.
CopyNative(o) ==
  <<Link("call", <<"construct", "return">> \o When(Remote(o), <<"inc">>))>>
    \o RmaCopyRemote(<<"arrives", "source", "operation", "delete">>
                       \o When(Remote(o), <<"dec", IF plan[o].rd = "me" THEN "during" ELSE "ship">>))

\* copy_general, reference kinds, to this rank: the source's rank puts the data, out
\* of a bounce buffer unless it is in its host segment, and into one likewise.
CopyGetLike(o) ==
  LET bounce_s == plan[o].hs # "host"
      bounce_d == plan[o].hd # "host"
      ended    == When(Remote(o), <<"dec", "during">>) \o <<"operation", "delete">>
  IN <<Link("call", <<"construct", "return">> \o When(bounce_d, <<"allocD">>) \o When(Remote(o), <<"inc">>))>>
       \o When(bounce_s, <<Link("target", <<"allocS">>)>>)
       \o <<Link("target", When(bounce_s, <<"useS">>)),
            Link("target", <<"read">> \o When(bounce_d, <<"useD">>) \o When(~bounce_d, <<"arrives">>)
                             \o When(bounce_s, <<"useS", "freeS">>)),
            Link("persona", <<"source">> \o When(~bounce_d, ended))>>
       \o When(bounce_d, <<Link("device", <<"useD", "arrives", "freeD">> \o ended)>>)

\* Whether the initiator is left awaiting an event.
MustAck(o) == CopyWantOp(o) \/ (CopyWantSource(o) /\ plan[o].hs = "host")

\* The acknowledgment frees the source's bounce buffer, or tells the source event if
\* there was none; without an acknowledgment a message of its own frees the buffer.
PutLikeAck(o) ==
  <<Link("persona", <<IF plan[o].hs # "host" THEN "freeS" ELSE "source", "operation", "delete">>)>>
PutLikeEnd(o) ==
  When(MustAck(o), PutLikeAck(o))
    \o When(~MustAck(o) /\ plan[o].hs # "host", <<Link("restricted", <<"freeS">>)>>)

\* copy_general, reference kinds, from this rank: the destination's rank gets the
\* data.  A bounce buffer is filled by a copy engine, or at once from private memory;
\* the source event is told when it is full, and the call deletes the completions if
\* nobody is to be acknowledged.
CopyPutLike(o) ==
  LET bounce_s == plan[o].hs # "host"
      bounce_d == plan[o].hd # "host"
      filled   == <<"read">> \o When(CopyWantSource(o), <<"source">>) \o <<"send">>
      called   == <<Link("call", <<"construct", "return">> \o When(bounce_s, <<"allocS">>))>>
      started  == IF bounce_s THEN RmaCopyLocal(called, plan[o].hs = "dev", filled) ELSE called
  IN [started EXCEPT ![1].do = @ \o When(~MustAck(o), <<"delete">>)]
       \o RmaCopyGet(When(bounce_d, <<"allocD">>) \o When(bounce_s, <<"useS">>))
       \o RmaCopyGet(When(bounce_s, <<"useS">>) \o When(bounce_d, <<"useD">>))
       \o RmaCopyGet(<<"arrives">> \o When(bounce_d, <<"useD", "freeD">>) \o <<"during">>)
       \o PutLikeEnd(o)

-----------------------------------------------------------------------------
CopyGeneral(o) ==
  LET p == plan[o] IN
    IF p.rs # "me" /\ p.rd # "me"                         THEN Copy3rdParty(o)
    ELSE IF p.rs = p.rd                                   THEN CopyLoopback(o)
    ELSE IF p.mk /\ p.rs = "me" /\ Remote(o) /\ ~CopyWantOp(o) THEN CopyPutAsGet(o)
    ELSE IF p.mk                                          THEN CopyNative(o)
    ELSE IF p.rd = "me"                                   THEN CopyGetLike(o)
    ELSE                                                       CopyPutLike(o)

CopyChain(o) == CASE plan[o].kind = "copy_get" -> CopyAsRget(o)
                  [] plan[o].kind = "copy_3rd" -> Copy3rdParty(o)
                  [] plan[o].kind = "copy"     -> CopyGeneral(o)

-----------------------------------------------------------------------------
\* The entry points of copy settle where the ends are.  A private pointer may point
\* into a segment, this rank's ("own") or that of a rank nearby ("mate").

\* copy_as_rput: module Rput takes over.
CopyAsRput(p) == [p EXCEPT !.kind = "rput", !.local = Near(p.rd)]

\* A destination in this rank's segment need not be staged.
CopyToPointer(p) ==
  IF p.hs = "host" THEN [p EXCEPT !.kind = "copy_get", !.local = Near(p.rs)]
  ELSE [p EXCEPT !.hd = IF p.hd = "own" /\ p.rs # "me" THEN "host" ELSE "private"]

\* A source in this rank's segment need not be staged either; one in a segment nearby
\* makes that rank the source, if GASNet handles the destination's kind.
CopyFromPointer(p) ==
  IF p.hd = "host" THEN CopyAsRput(p)
  ELSE IF p.rd # "me" /\ p.hs = "own" THEN [p EXCEPT !.hs = "host"]
  ELSE IF p.rd # "me" /\ p.hs = "mate" /\ p.mk THEN [p EXCEPT !.hs = "host", !.rs = "near"]
  ELSE [p EXCEPT !.hs = "private"]

\* Host to host: a source in reach is put, a destination in reach is got, unless its
\* owner has to run a remote completion.
CopyBetween(p) ==
  IF "dev" \in {p.hs, p.hd} THEN p
  ELSE IF Near(p.rs) THEN CopyAsRput(p)
  ELSE IF p.rd = "me" \/ (Near(p.rd) /\ ~Names(p, "remote")) THEN [p EXCEPT !.kind = "copy_get"]
  ELSE [p EXCEPT !.kind = "copy_3rd"]

AcceptsCopy(p) == Names(p, "operation") \/ Names(p, "remote")
===============================================================================
