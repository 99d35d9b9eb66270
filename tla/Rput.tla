--------------------------------- MODULE Rput ---------------------------------
(***************************************************************************)
(* rput (rput.hpp, rput.cpp).  A put to a peer that shares memory is a     *)
(* copy.  A put with remote completion goes by rma_put_then_am_master,     *)
(* whose reply and whose source event come in either order and are counted *)
(* by `outstanding'; any other is one GASNet put with a callback for its   *)
(* source event, followed by one for the operation event.  The callbacks   *)
(* and the reply run in the initiator's own progress.                      *)
(***************************************************************************)
EXTENDS Completions

VARIABLE rp   \* rp[o]: the rput_obj's callback in the queue, its counter, its reply

rpFields == [cb : {"none", "src", "op", "wait"}, out : -1 .. 2, reply : {"none", "sent", "here"}]

RpInit == rp = [o \in Ops |-> [cb |-> "none", out |-> 0, reply |-> "none"]]

Puts == {o \in Ops : plan[o].kind = "rput"}

\* What the two rputs assert of their completions: assert_sane, and no source
\* completion for a value.
AcceptsRput(p)      == Names(p, "operation") \/ Names(p, "remote")
AcceptsRputValue(p) == AcceptsRput(p) /\ ~Names(p, "source")

\* rput_traits.  A value is on the caller's stack, so its source is synchronous.
WantOp(o)     == HasEvent(o, "operation")
OpIsSync(o)   == IsEventSync(o, "operation")
WantSrc(o)    == plan[o].byVal \/ HasEvent(o, "source")
SrcIsSync(o)  == plan[o].byVal \/ IsEventSync(o, "source")
WantRemote(o) == HasEvent(o, "remote")

\* rma_put_sync, totally ordered.
Sync == [src_ignore |-> -1, src_cb |-> 0, src_into_op_cb |-> 1, src_now |-> 2, op_now |-> 3]

\* The least synchrony injection is asked for.
SyncLb(o) ==
  CASE OpIsSync(o)                             -> "op_now"
    [] ~OpIsSync(o) /\ SrcIsSync(o)            -> "src_now"
    [] ~OpIsSync(o) /\ ~SrcIsSync(o) /\ WantSrc(o) -> "src_cb"
    [] OTHER -> IF WantRemote(o) THEN "src_ignore" ELSE "src_into_op_cb"

\* What injection may return: it tests the events once.  rma_put_then_am_master
\* never learns of the operation event.
Achieved(o) ==
  {SyncLb(o)} \cup (IF SyncLb(o) = "src_cb" THEN {"src_now"} ELSE {})
              \cup (IF WantRemote(o) THEN {} ELSE {"op_now"})

\* The object counts source and reply when both sides have to hear of the put.
Counting(o)    == WantRemote(o) /\ WantOp(o) /\ ~OpIsSync(o)
Outstanding(o) == IF ~Counting(o) THEN 0 ELSE IF WantSrc(o) THEN 2 ELSE 1

\* src_hook and reply_hook: the last of the two ends the operation.
Hook(s, o, out) == IF out = 0 THEN Delete(Fire(s, o, "operation"), o) ELSE s

-----------------------------------------------------------------------------
\* The destination shares memory with the initiator: copy, tell, return.
RputLocal(o) ==
  /\ o \in Puts /\ plan[o].local /\ st.live[o] = "none"
  /\ LET made == Return(Construct(Happen(st, o, "operation"), o), o, "operation")
         told == Ship(Fire(made, o, "source"), o)
     IN st' = Delete(Fire(told, o, "operation"), o)
  /\ UNCHANGED <<plan, rp>>

\* rput_post_inject: what is already known is told now, the first callback of
\* what is not is registered.
PostInject(o, s, sync) ==
  LET srcNow  == Sync[sync] >= Sync["src_now"]
      opNow   == Sync[sync] >= Sync["op_now"]
      out     == Outstanding(o) - (IF srcNow /\ WantSrc(o) /\ Counting(o) THEN 1 ELSE 0)
      fired   == IF ~srcNow THEN s
                 ELSE IF WantSrc(o) /\ Counting(o) THEN Hook(Fire(s, o, "source"), o, out)
                 ELSE Fire(s, o, "source")
  IN /\ st' = IF opNow THEN Delete(Fire(fired, o, "operation"), o) ELSE fired
     /\ rp' = [rp EXCEPT ![o].out = out, ![o].reply = "none",
                         ![o].cb  = CASE opNow -> "none"
                                      [] ~srcNow /\ WantSrc(o) -> "src"
                                      [] ~opNow /\ (srcNow \/ ~WantSrc(o)) ->
                                           IF WantRemote(o) THEN "none" ELSE "op"]

\* The put is injected; `sync' is what the backend achieved meanwhile.
RputInject(o) ==
  /\ o \in Puts /\ ~plan[o].local /\ st.live[o] = "none"
  /\ ~(WantRemote(o) /\ OpIsSync(o))
  /\ \E sync \in Achieved(o) :
       LET done == IF sync = "op_now" THEN "operation"
                   ELSE IF sync = "src_now" THEN "source" ELSE "none"
           made == Construct(Happen(st, o, done), o)
       IN PostInject(o, Return(made, o, IF done = "source" /\ plan[o].byVal THEN "none" ELSE done), sync)
  /\ UNCHANGED plan

\* operation_cx::as_blocking with remote completion: inject spins in internal
\* progress until the reply has come, then post_inject finds everything done.
RputBlock(o) ==
  /\ o \in Puts /\ ~plan[o].local /\ st.live[o] = "none"
  /\ WantRemote(o) /\ OpIsSync(o)
  /\ st' = Construct(Happen(st, o, "source"), o)
  /\ rp' = [rp EXCEPT ![o].cb = "wait"]
  /\ UNCHANGED plan

RputUnblock(o) ==
  /\ rp[o].cb = "wait" /\ rp[o].reply = "here"
  /\ PostInject(o, Return(st, o, "operation"), "op_now")
  /\ UNCHANGED plan

-----------------------------------------------------------------------------
\* Faulty variant: the source callback does not register the operation callback.
RputSrcCbLast(o) ==
  /\ rp[o].cb = "src" /\ "source" \in st.fact[o]
  /\ LET out == rp[o].out - (IF Counting(o) THEN 1 ELSE 0)
         s   == Fire(st, o, "source")
     IN /\ st' = IF Counting(o) THEN Hook(s, o, out) ELSE s
        /\ rp' = [rp EXCEPT ![o].out = out, ![o].cb = "none"]
  /\ UNCHANGED plan

\* The callbacks that handle_cb_queue runs when GASNet's event is done.
RputSrcCb(o) ==
  /\ rp[o].cb = "src" /\ "source" \in st.fact[o]
  /\ LET out == rp[o].out - (IF Counting(o) THEN 1 ELSE 0)
         s   == Fire(st, o, "source")
     IN /\ st' = IF Counting(o) THEN Hook(s, o, out) ELSE s
        /\ rp' = [rp EXCEPT ![o].out = out, ![o].cb = IF WantRemote(o) THEN "none" ELSE "op"]
  /\ UNCHANGED plan

RputOpCb(o) ==
  /\ rp[o].cb = "op" /\ "operation" \in st.fact[o]
  /\ st' = Delete(Fire(st, o, "operation"), o)
  /\ rp' = [rp EXCEPT ![o].cb = "none"]
  /\ UNCHANGED plan

\* The reply's lpc in the initiator's persona.
RputReply(o) ==
  /\ rp[o].reply = "here" /\ Counting(o)
  /\ st' = Hook(st, o, rp[o].out - 1)
  /\ rp' = [rp EXCEPT ![o].out = @ - 1, ![o].reply = "none"]
  /\ UNCHANGED plan

\* The network: the source has been read; the bytes have landed and, with remote
\* completion, the command arrives behind them and is answered (PutThenAm).
InFlight(o) == o \in Puts /\ ~plan[o].local /\ st.live[o] # "none" /\ "operation" \notin st.fact[o]
NetSource(o) ==
  /\ InFlight(o) /\ "source" \notin st.fact[o]
  /\ st' = Happen(st, o, "source")
  /\ UNCHANGED <<plan, rp>>
NetLand(o) ==
  /\ InFlight(o) /\ "source" \in st.fact[o]
  /\ st' = Ship(Happen(st, o, "operation"), o)
  /\ rp' = [rp EXCEPT ![o].reply = IF WantRemote(o) /\ WantOp(o) THEN "sent" ELSE "none"]
  /\ UNCHANGED plan
NetReply(o) ==
  /\ rp[o].reply = "sent" /\ st.am[o] # "sent"
  /\ rp' = [rp EXCEPT ![o].reply = "here"]
  /\ UNCHANGED cxVars

RputNext(o) == \/ RputLocal(o) \/ RputInject(o) \/ RputBlock(o) \/ RputUnblock(o)
               \/ RputSrcCb(o) \/ RputOpCb(o) \/ RputReply(o)
               \/ NetSource(o) \/ NetLand(o) \/ NetReply(o)
===============================================================================
