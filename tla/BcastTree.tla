------------------------------- MODULE BcastTree -------------------------------
(***************************************************************************)
(* How bcast_am_master_{eager,rdzv} split the ranks of a team of n.  A rank *)
(* answers for the interval of ranks from itself up to rank_d_ub, counted  *)
(* past n where it wraps around.  It repeatedly sends the upper piece of   *)
(* what is left to the first rank of that piece, until only it remains:    *)
(* the eager protocol keeps 15/16 of the interval each time, which makes a *)
(* wide tree, the rendezvous protocol halves it.                           *)
(***************************************************************************)
EXTENDS Integers

Eager == [num |-> 15, den |-> 16]
Rdzv  == [num |-> 1,  den |-> 2]

\* How much of an interval of d ranks its first rank keeps when it sends a piece of it.
Kept(split, d) == (split.num * d) \div split.den

\* rank_d_mid
Mid(split, me, ub) == me + Kept(split, ub - me)

\* Sub-interval bounds, the lower one in 0 .. n-1.
Piece(n, mid, ub) ==
  LET translate == IF n <= mid THEN n ELSE 0
  IN  [lb |-> mid - translate, ub |-> ub - translate]

\* The number of messages the loop sends: pieces to cut off an interval of d ranks.
Pieces(split) ==
  LET count[d \in Nat] == IF Kept(split, d) = 0 THEN 0 ELSE 1 + count[Kept(split, d)]
  IN  count
Messages(split, me, ub) == Pieces(split)[ub - me]

\* Rank q of n lies in the interval from rank lb up to ub, which may go past n.
Covers(n, lb, ub, q) == (lb <= q /\ q < ub) \/ q + n < ub
===============================================================================
