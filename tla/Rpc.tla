---------------------------------- MODULE Rpc ----------------------------------
(***************************************************************************)
(* rpc and rpc_ff (rpc.hpp), and the dormant lpcs that wait for the reply  *)
(* (lpc_dormant.hpp).  The reply's handler is restricted: any thread that  *)
(* polls may run it, so it awakens the completions while the thread that   *)
(* made the call is still inside it, and the personas that own them run    *)
(* them while the handler is still in the middle of the list.              *)
(***************************************************************************)
EXTENDS Completions

VARIABLE rc   \* rc[o]: where the call and its message are

\* call: the caller's thread; msg: the message; p, next: the handler's place in the
\* list (indices of requests, 0 for null) and whether `next' has been read.
rcFields == [call : {"none", "prepared", "injected", "returned", "thrown"},
             msg  : {"none", "sent", "running", "reply", "awakening", "done"},
             p    : 0 .. MaxCx, next : 0 .. MaxCx, read : BOOLEAN]

RcInit == rc = [o \in Ops |-> [call |-> "none", msg |-> "none", p |-> 0, next |-> 0, read |-> FALSE]]

\* The list is built in the order of the requests.
FirstOf(K)      == IF K = {} THEN 0 ELSE CHOOSE i \in {k[2] : k \in K} : \A k \in K : i <= k[2]
Following(o, i) == FirstOf({k \in For(o, "operation") : k[2] > i})

\* to_lpc_dormant<operation>: an lpc no longer holds the persona back.
ToDormant(s, o) ==
  LET K == For(o, "operation") IN
    [s EXCEPT !.calls = Bump(@, K), !.dormant = @ \cup K, !.undis = @ - Size(As(K, "lpc"))]

\* Faulty variant: the dormant lpcs are deleted without their cancellation.
CancelDormantSilently(s, o) == [s EXCEPT !.dormant = {k \in @ : k[1] # o}]

\* cancel_and_delete: promises get their dependency back.
CancelDormant(s, o) ==
  LET K == {k \in s.dormant : k[1] = o} IN
    [s EXCEPT !.dormant = @ \ K, !.deps = @ - Size(As(K, "promise"))]

\* The overloads of rpc and rpc_ff, on the world or a team, with or without completions.
AcceptsRpc(p)   == Names(p, "operation") /\ ~Names(p, "remote")
AcceptsRpcFf(p) == ~Names(p, "operation") /\ ~Names(p, "remote")

-----------------------------------------------------------------------------
\* rpc_ff sends first, so that a throw finds nothing to undo.
RpcFfThrow(o) ==
  /\ plan[o].kind = "rpc_ff" /\ plan[o].immediate /\ rc[o].call = "none"
  /\ rc' = [rc EXCEPT ![o].call = "thrown"]
  /\ UNCHANGED cxVars
RpcFf(o) ==
  /\ plan[o].kind = "rpc_ff" /\ rc[o].call = "none"
  /\ st' = LET made == Return(Construct(Happen(st, o, "source"), o), o, "none")
           IN Delete(Fire(made, o, "source"), o)
  /\ rc' = [rc EXCEPT ![o].call = "returned", ![o].msg = "sent"]
  /\ UNCHANGED plan

\* rpc: everything that waits for the reply is in place before the message leaves.
RpcPrepare(o) ==
  /\ plan[o].kind = "rpc" /\ rc[o].call = "none"
  /\ st' = ToDormant(Return(Construct(st, o), o, "none"), o)
  /\ rc' = [rc EXCEPT ![o].call = "prepared"]
  /\ UNCHANGED plan
RpcThrow(o) ==
  /\ rc[o].call = "prepared" /\ plan[o].immediate
  /\ st' = Delete(Cancel(CancelDormant(st, o), o, "source"), o)
  /\ rc' = [rc EXCEPT ![o].call = "thrown"]
  /\ UNCHANGED plan
RpcInject(o) ==
  /\ rc[o].call = "prepared"
  /\ st' = Happen(st, o, "source")
  /\ rc' = [rc EXCEPT ![o].call = "injected", ![o].msg = "sent"]
  /\ UNCHANGED plan
RpcReturn(o) ==
  /\ rc[o].call = "injected"
  /\ st' = Delete(Fire(st, o, "source"), o)
  /\ rc' = [rc EXCEPT ![o].call = "returned"]
  /\ UNCHANGED plan

-----------------------------------------------------------------------------
\* The target runs the function, whose future may become ready much later; then
\* rpc_recipient_after sends the reply.
RpcRun(o) ==
  /\ rc[o].msg = "sent"
  /\ rc' = [rc EXCEPT ![o].msg = IF plan[o].kind = "rpc" THEN "running" ELSE "done"]
  /\ UNCHANGED cxVars
RpcReply(o) ==
  /\ rc[o].msg = "running"
  /\ st' = Happen(st, o, "operation")
  /\ rc' = [rc EXCEPT ![o].msg = "reply"]
  /\ UNCHANGED plan

\* The handler begins at the head of the list.
AwakenBegin(o) ==
  /\ rc[o].msg = "reply"
  /\ rc' = [rc EXCEPT ![o].msg = "awakening", ![o].p = Following(o, 0), ![o].read = FALSE]
  /\ UNCHANGED cxVars

\* A turn of awaken's loop: the link is read, then the node is given away.  A future's
\* promise is queued with its persona and the node deleted; an lpc is its own node.
ReadNext(o, k) ==
  /\ st' = [st EXCEPT !.misuse = @ \/ k \notin st.dormant]
  /\ rc' = [rc EXCEPT ![o].next = Following(o, k[2]), ![o].read = TRUE]
GiveAway(s, k) ==
  CASE R(k).act = "future"  -> [s EXCEPT !.queued[k] = @ + 1, !.dormant = @ \ {k}]
    [] R(k).act = "promise" -> [s EXCEPT !.relay[k] = @ + 1]
    [] R(k).act = "lpc"     -> [s EXCEPT !.posted[k] = @ + 1]
\* Faulty variant: the link is read after the node was given away.
AwakenTurnLate(o) ==
  /\ rc[o].msg = "awakening" /\ rc[o].p # 0
  /\ LET k == <<o, rc[o].p>> IN
       \/ /\ ~rc[o].read
          /\ st' = GiveAway(st, k)
          /\ rc' = [rc EXCEPT ![o].read = TRUE]
       \/ /\ rc[o].read
          /\ st' = [st EXCEPT !.misuse = @ \/ k \notin st.dormant]
          /\ rc' = [rc EXCEPT ![o].p = Following(o, k[2]), ![o].read = FALSE]
  /\ UNCHANGED plan
AwakenTurn(o) ==
  /\ rc[o].msg = "awakening" /\ rc[o].p # 0
  /\ LET k == <<o, rc[o].p>> IN
       \/ ~rc[o].read /\ ReadNext(o, k)
       \/ /\ rc[o].read
          /\ st' = GiveAway(st, k)
          /\ rc' = [rc EXCEPT ![o].p = rc[o].next, ![o].read = FALSE]
  /\ UNCHANGED plan
\* The handler returns.
AwakenEnd(o) ==
  /\ rc[o].msg = "awakening" /\ rc[o].p = 0
  /\ rc' = [rc EXCEPT ![o].msg = "done", ![o].next = 0]
  /\ UNCHANGED cxVars

RpcNext(o) == \/ RpcFfThrow(o) \/ RpcFf(o) \/ RpcPrepare(o) \/ RpcThrow(o) \/ RpcInject(o)
              \/ RpcReturn(o) \/ RpcRun(o) \/ RpcReply(o)
              \/ AwakenBegin(o) \/ AwakenTurn(o) \/ AwakenEnd(o)
===============================================================================
