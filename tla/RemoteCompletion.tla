--------------------------- MODULE RemoteCompletion ---------------------------
(***************************************************************************)
(* What a put with remote completion promises (rput with remote_cx::as_rpc *)
(* and the other users of rma_put_then_am_master): the bytes of the put    *)
(* are in place before the rpc becomes visible to the target's master      *)
(* persona, the rpc runs at most once, and the initiator hears of remote   *)
(* completion at most once and not before the rpc has been handed over.    *)
(***************************************************************************)
CONSTANTS Ops,       \* the puts
          Replying   \* those whose initiator asked for a reply

VARIABLES landed,    \* puts whose bytes are all at the destination
          handed,    \* puts whose rpc the master persona has been given
          run,       \* per put: how often the master persona has run its rpc
          told       \* per put: how often its initiator has been told

vars == <<landed, handed, run, told>>

Init == landed = {} /\ handed = {} /\ run = [o \in Ops |-> 0] /\ told = [o \in Ops |-> 0]

Land(o) == /\ o \in Ops \ landed
           /\ landed' = landed \cup {o}
           /\ UNCHANGED <<handed, run, told>>

Hand(o) == /\ o \in landed \ handed
           /\ handed' = handed \cup {o}
           /\ UNCHANGED <<landed, run, told>>

Run(o) == /\ o \in handed /\ run[o] = 0
          /\ run' = [run EXCEPT ![o] = 1]
          /\ UNCHANGED <<landed, handed, told>>

Tell(o) == /\ o \in Replying \cap handed /\ told[o] = 0
           /\ told' = [told EXCEPT ![o] = 1]
           /\ UNCHANGED <<landed, handed, run>>

Next == \E o \in Ops : Land(o) \/ Hand(o) \/ Run(o) \/ Tell(o)

Spec == Init /\ [][Next]_vars
===============================================================================
