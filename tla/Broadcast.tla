------------------------------- MODULE Broadcast -------------------------------
(***************************************************************************)
(* What bcast_am_master promises the collectives built on it: every rank   *)
(* of the team but the one that broadcasts runs the rpc, once.             *)
(***************************************************************************)
EXTENDS Naturals

CONSTANTS Ranks, Root

VARIABLE ran      \* per rank: how often it has run the rpc

Init == ran = [r \in Ranks |-> 0]

Run(r) == /\ r # Root /\ ran[r] = 0
          /\ ran' = [ran EXCEPT ![r] = 1]

Next == \E r \in Ranks : Run(r)

Spec == Init /\ [][Next]_ran
===============================================================================
