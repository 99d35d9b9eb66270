--------------------------- MODULE CompletionPromise ---------------------------
(***************************************************************************)
(* What the completions of an operation promise the user: a request is     *)
(* answered at most once, and not before the event it names has happened.  *)
(***************************************************************************)
EXTENDS Naturals

CONSTANTS Ops, Requests

VARIABLES due,    \* due[k]: the event request k waits for, "none" before it is made
          fact,   \* fact[o]: the events of operation o that have happened
          told    \* told[k]: how often the user was told of request k

vars == <<due, fact, told>>

Init == /\ fact = [o \in Ops |-> {}]
        /\ told = [k \in Requests |-> 0]

Advance == /\ \A o \in Ops : fact[o] \subseteq fact'[o]
           /\ \A k \in Requests :
                \/ told'[k] = told[k]
                \/ told[k] = 0 /\ told'[k] = 1 /\ due[k] \in fact'[k[1]]
           /\ \A k \in Requests : due'[k] = due[k] \/ due[k] = "none"

Spec == Init /\ [][Advance]_vars
===============================================================================
