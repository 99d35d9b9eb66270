---------------------------- MODULE BcastAmProofs ----------------------------
(***************************************************************************)
(* AmInv is an inductive invariant of BcastAm, for any team, root, nodes   *)
(* and split: no rank is told twice or forgotten, and the memory that is   *)
(* shared is freed once, when the last reference to it is gone.            *)
(***************************************************************************)
EXTENDS BcastAm, FiniteSetTheorems, TLAPS

-----------------------------------------------------------------------------
(* Intervals                                                               *)

\* What is kept of an interval of d ranks is a part of it, and nothing only of one rank.
LEMMA KeptBounds ==
  ASSUME NEW split, split.num \in Nat, split.den \in Nat,
         split.num < split.den, split.den <= 2 * split.num, NEW d \in Nat \ {0}
  PROVE  /\ Kept(split, d) \in 0 .. d - 1
         /\ Kept(split, d) = 0 => d = 1
<1> DEFINE a == split.num
           b == split.den
           k == (a * d) \div b
<1>1. a \in Nat /\ b \in Nat /\ b > 0 /\ a < b /\ b <= 2 * a
  OBVIOUS
<1>2. k \in Int /\ b * k <= a * d /\ a * d < b * k + b
  BY <1>1
<1>3. a * d < b * d /\ b * d <= 2 * (a * d) /\ a * d >= 0
  BY <1>1
<1> HIDE DEF a, b, k
<1>4. k >= 0
  BY <1>1, <1>2, <1>3
<1>5. k < d
  BY <1>1, <1>2, <1>3
<1>6. k = 0 => d = 1
  <2> SUFFICES ASSUME k = 0, d > 1 PROVE FALSE
    OBVIOUS
  <2>1. a * d < b
    BY <1>1, <1>2
  <2>2. b * d < 2 * b
    BY <1>1, <1>3, <2>1
  <2> QED
    BY <1>1, <2>2
<1> QED
  BY <1>4, <1>5, <1>6, <1>2 DEF Kept, k, a, b

\* A set of natural numbers has a least element: induction, in a form without predicates.
LEMMA LeastNat ==
  ASSUME NEW S \in SUBSET Nat, S # {}
  PROVE  \E n \in S : \A k \in S : n <= k
<1> DEFINE R == OpToRel(<, Nat)
<1>1. IsWellFoundedOn(R, Nat)
  BY NatLessThanWellFounded
<1> HIDE DEF R
<1>2. PICK n \in S : \A k \in S : <<k, n>> \notin R
  BY <1>1, WFMin
<1>3. ASSUME NEW k \in S
      PROVE  n <= k
  <2>1. <<k, n>> \notin R
    BY <1>2
  <2>2. k \in Nat /\ n \in Nat
    BY <1>2
  <2>3. ~(k < n)
    BY <2>1, <2>2 DEF R, OpToRel
  <2>4. QED
    BY <2>2, <2>3
<1>4. QED
  BY <1>2, <1>3

Halving(d) == Kept(Rdzv, d)

LEMMA HalvingBounds ==
  /\ Halving(0) = 0
  /\ \A d \in Nat \ {0} : Halving(d) \in 0 .. d - 1 /\ (Halving(d) = 0 => d = 1)
<1>1. Halving(0) = 0
  BY DEF Halving, Kept, Rdzv
<1>2. ASSUME NEW d \in Nat \ {0}
      PROVE  Halving(d) \in 0 .. d - 1 /\ (Halving(d) = 0 => d = 1)
  <2>1. Rdzv.num = 1 /\ Rdzv.den = 2
    BY DEF Rdzv
  <2>2. QED
    BY <2>1, KeptBounds DEF Halving
<1>3. QED
  BY <1>1, <1>2

\* The count of messages up to intervals of n ranks, as functions on 0 .. n.
Counts(n) ==
  {g \in [0 .. n -> Nat] :
     \A d \in 0 .. n : g[d] = IF Halving(d) = 0 THEN 0 ELSE 1 + g[Halving(d)]}

LEMMA CountsExist == \A n \in Nat : Counts(n) # {}
<1> DEFINE Bad == {n \in Nat : Counts(n) = {}}
<1> SUFFICES ASSUME Bad # {}
             PROVE  FALSE
  OBVIOUS
<1>1. PICK n \in Bad : \A k \in Bad : n <= k
  BY LeastNat
<1>2. n \in Nat /\ Counts(n) = {}
  BY <1>1
<1>3. CASE n = 0
  <2>1. [d \in 0 .. 0 |-> 0] \in Counts(0)
    BY HalvingBounds DEF Counts
  <2>2. QED
    BY <2>1, <1>2, <1>3
<1>4. CASE n # 0
  <2>1. n - 1 \in Nat /\ n - 1 \notin Bad
    BY <1>1, <1>2, <1>4
  <2>2. PICK h \in Counts(n - 1) : TRUE
    BY <2>1
  <2> DEFINE g == [d \in 0 .. n |-> IF d < n THEN h[d]
                                    ELSE IF Halving(n) = 0 THEN 0 ELSE 1 + h[Halving(n)]]
  <2>3. /\ h \in [0 .. n - 1 -> Nat]
        /\ \A d \in 0 .. n - 1 : h[d] = IF Halving(d) = 0 THEN 0 ELSE 1 + h[Halving(d)]
    BY <2>2 DEF Counts
  <2>4. \A d \in 0 .. n : Halving(d) \in 0 .. n - 1
    BY <1>2, <1>4, HalvingBounds
  <2>5. g \in [0 .. n -> Nat]
    <3>1. ASSUME NEW d \in 0 .. n, d < n
          PROVE  h[d] \in Nat
      BY <3>1, <2>3, <1>2
    <3>2. h[Halving(n)] \in Nat
      <4>1. Halving(n) \in 0 .. n - 1
        BY <2>4, <1>2
      <4>2. QED
        BY <4>1, <2>3
    <3>3. QED
      BY <3>1, <3>2
  <2>6. ASSUME NEW d \in 0 .. n
        PROVE  g[d] = IF Halving(d) = 0 THEN 0 ELSE 1 + g[Halving(d)]
    <3>1. g[Halving(d)] = h[Halving(d)]
      BY <2>4, <1>2
    <3>2. CASE d < n
      BY <3>1, <3>2, <2>3, <1>2
    <3>3. CASE d = n
      BY <3>1, <3>3, <1>2
    <3>4. QED
      BY <3>2, <3>3, <1>2
  <2>7. g \in Counts(n)
    BY <2>5, <2>6 DEF Counts
  <2>8. QED
    BY <2>7, <1>2
<1>5. QED
  BY <1>3, <1>4

LEMMA CountsAgree ==
  ASSUME NEW n \in Nat, NEW k \in Nat, NEW g \in Counts(n), NEW h \in Counts(k),
         NEW d \in Nat, d <= n, d <= k
  PROVE  g[d] = h[d]
<1> DEFINE Bad == {e \in Nat : e <= n /\ e <= k /\ g[e] # h[e]}
<1> SUFFICES ASSUME Bad # {}
             PROVE  FALSE
  OBVIOUS
<1>1. PICK e \in Bad : \A c \in Bad : e <= c
  BY LeastNat
<1>2. e \in Nat /\ e <= n /\ e <= k /\ g[e] # h[e]
  BY <1>1
<1>3. /\ g[e] = IF Halving(e) = 0 THEN 0 ELSE 1 + g[Halving(e)]
      /\ h[e] = IF Halving(e) = 0 THEN 0 ELSE 1 + h[Halving(e)]
  BY <1>2 DEF Counts
<1>4. Halving(e) # 0 /\ Halving(e) \in Nat /\ Halving(e) < e
  BY <1>2, <1>3, HalvingBounds
<1>5. Halving(e) \notin Bad
  BY <1>1, <1>2, <1>4
<1>6. g[Halving(e)] = h[Halving(e)]
  BY <1>5, <1>4, <1>2
<1>7. QED
  BY <1>2, <1>3, <1>6

\* The recursive definition of the number of messages defines it.
LEMMA PiecesUnfold ==
  /\ Pieces(Rdzv) \in [Nat -> Nat]
  /\ \A d \in Nat : Pieces(Rdzv)[d] = IF Halving(d) = 0 THEN 0 ELSE 1 + Pieces(Rdzv)[Halving(d)]
<1> DEFINE one(n) == CHOOSE g \in Counts(n) : TRUE
           f == [d \in Nat |-> one(d)[d]]
           c == CHOOSE h : h = [d \in Nat |-> IF Halving(d) = 0 THEN 0 ELSE 1 + h[Halving(d)]]
<1>1. \A n \in Nat : one(n) \in Counts(n)
  BY CountsExist
<1> HIDE DEF one
<1>2. f \in [Nat -> Nat]
  BY <1>1 DEF Counts
<1>3. ASSUME NEW d \in Nat
      PROVE  f[d] = IF Halving(d) = 0 THEN 0 ELSE 1 + f[Halving(d)]
  <2>1. one(d)[d] = IF Halving(d) = 0 THEN 0 ELSE 1 + one(d)[Halving(d)]
    BY <1>1 DEF Counts
  <2>2. Halving(d) \in Nat /\ Halving(d) <= d
    BY HalvingBounds
  <2>3. one(d)[Halving(d)] = one(Halving(d))[Halving(d)]
    BY <1>1, <2>2, CountsAgree
  <2>4. QED
    BY <2>1, <2>2, <2>3
<1>4. f = [d \in Nat |-> IF Halving(d) = 0 THEN 0 ELSE 1 + f[Halving(d)]]
  BY <1>2, <1>3
<1> HIDE DEF f
<1>5. c = [d \in Nat |-> IF Halving(d) = 0 THEN 0 ELSE 1 + c[Halving(d)]]
  BY <1>4
<1>6. Pieces(Rdzv) = c
  BY DEF Pieces, Halving
<1> HIDE DEF c
<1>7. \A n \in Nat : \A d \in 0 .. n : c[d] \in Nat
  <2> DEFINE Bad == {n \in Nat : c[n] \notin Nat}
  <2> SUFFICES ASSUME Bad # {}
               PROVE  FALSE
    OBVIOUS
  <2>1. PICK n \in Bad : \A k \in Bad : n <= k
    BY LeastNat
  <2>2. n \in Nat /\ c[n] = IF Halving(n) = 0 THEN 0 ELSE 1 + c[Halving(n)]
    BY <2>1, <1>5
  <2>3. Halving(n) # 0 /\ Halving(n) \in Nat /\ Halving(n) < n
    BY <2>1, <2>2, HalvingBounds
  <2>4. Halving(n) \notin Bad
    BY <2>1, <2>2, <2>3
  <2>5. QED
    BY <2>1, <2>2, <2>3, <2>4
<1>8. QED
  BY <1>5, <1>6, <1>7

\* The loop sends at most one message for each rank of its interval.
LEMMA PiecesBound == \A d \in Nat : Pieces(Rdzv)[d] \in 0 .. d
<1> DEFINE Bad == {d \in Nat : Pieces(Rdzv)[d] \notin 0 .. d}
<1> SUFFICES ASSUME Bad # {}
             PROVE  FALSE
  OBVIOUS
<1>1. PICK d \in Bad : \A k \in Bad : d <= k
  BY LeastNat
<1>2. d \in Nat /\ Pieces(Rdzv)[d] \notin 0 .. d
  BY <1>1
<1>3. Pieces(Rdzv)[d] = IF Halving(d) = 0 THEN 0 ELSE 1 + Pieces(Rdzv)[Halving(d)]
  BY <1>2, PiecesUnfold
<1>4. Halving(d) # 0 /\ Halving(d) \in Nat /\ Halving(d) < d
  BY <1>2, <1>3, HalvingBounds
<1>5. Halving(d) \notin Bad
  BY <1>1, <1>2, <1>4
<1>6. Pieces(Rdzv)[Halving(d)] \in 0 .. Halving(d)
  BY <1>4, <1>5
<1>7. QED
  BY <1>2, <1>3, <1>4, <1>6

\* Rank r of n keeps its interval up to mid instead of u, or that is all it has; the piece
\* p it cuts off starts at another rank, and is disjoint from the rest.
CutOK(n, r, u, mid, p) ==
  /\ mid \in 0 .. 2 * n
  /\ mid = r => \A q \in 0 .. n - 1 : Covers(n, r, u, q) <=> q = r
  /\ mid # r =>
       /\ r < mid /\ mid < u /\ mid <= r + n
       /\ p.lb \in 0 .. n - 1 /\ p.lb # r
       /\ p.ub \in 0 .. 2 * n /\ p.lb < p.ub /\ p.ub <= p.lb + n
       /\ \A q \in 0 .. n - 1 :
            /\ Covers(n, r, u, q) <=> Covers(n, r, mid, q) \/ Covers(n, p.lb, p.ub, q)
            /\ ~(Covers(n, r, mid, q) /\ Covers(n, p.lb, p.ub, q))

LEMMA Cut ==
  ASSUME NEW split, split.num \in Nat, split.den \in Nat,
         split.num < split.den, split.den <= 2 * split.num,
         NEW n \in Nat \ {0}, NEW r \in 0 .. n - 1, NEW u \in Int, r < u, u <= r + n
  PROVE  CutOK(n, r, u, Mid(split, r, u), Piece(n, Mid(split, r, u), u))
<1> DEFINE mid == Mid(split, r, u)
           p   == Piece(n, mid, u)
<1>1. u - r \in Nat \ {0}
  OBVIOUS
<1>2. mid \in r .. u - 1 /\ (mid = r => u = r + 1)
  BY <1>1, KeptBounds DEF Mid
<1> HIDE DEF mid
<1>3. p.lb = (IF n <= mid THEN mid - n ELSE mid) /\ p.ub = (IF n <= mid THEN u - n ELSE u)
  BY <1>2 DEF Piece
<1> HIDE DEF p
<1>4. mid \in 0 .. 2 * n
  BY <1>2
<1>5. mid = r => \A q \in 0 .. n - 1 : Covers(n, r, u, q) <=> q = r
  BY <1>2 DEF Covers
<1>6. ASSUME mid # r
      PROVE  /\ r < mid /\ mid < u /\ mid <= r + n
             /\ p.lb \in 0 .. n - 1 /\ p.lb # r
             /\ p.ub \in 0 .. 2 * n /\ p.lb < p.ub /\ p.ub <= p.lb + n
  BY <1>2, <1>3, <1>6
<1>7. ASSUME mid # r, NEW q \in 0 .. n - 1
      PROVE  /\ Covers(n, r, u, q) <=> Covers(n, r, mid, q) \/ Covers(n, p.lb, p.ub, q)
             /\ ~(Covers(n, r, mid, q) /\ Covers(n, p.lb, p.ub, q))
  BY <1>2, <1>3, <1>6, <1>7 DEF Covers
<1>8. QED
  BY <1>4, <1>5, <1>6, <1>7 DEF mid, p, CutOK

-----------------------------------------------------------------------------
(* The eager protocol                                                      *)

LEMMA TeamOK == N \in Nat \ {0} /\ Root \in Ranks /\ Ranks = 0 .. N - 1
BY BcastRdzvAssumption DEF Ranks

LEMMA EagerCut ==
  ASSUME NEW r \in Ranks, NEW u \in Int, r < u, u <= r + N
  PROVE  CutOK(N, r, u, Mid(Split, r, u), Piece(N, Mid(Split, r, u), u))
<1>1. /\ Split.num \in Nat /\ Split.den \in Nat
      /\ Split.num < Split.den /\ Split.den <= 2 * Split.num
  BY BcastAmAssumption
<1>2. QED
  BY <1>1, TeamOK, Cut

LEMMA SameTree ==
  /\ Direct!Ranks = Ranks
  /\ \A split, a, b : Direct!Mid(split, a, b) = Mid(split, a, b)
  /\ \A n, a, b : Direct!Piece(n, a, b) = Piece(n, a, b)
  /\ \A n, a, b, q : Direct!Covers(n, a, b, q) <=> Covers(n, a, b, q)
BY DEF Direct!Ranks, Ranks, Direct!Mid, Mid, Direct!Kept, Kept, Direct!Piece, Piece,
       Direct!Covers, Covers

LEMMA EagerInitially == Direct!Init => Direct!EagerInv
<1> SUFFICES ASSUME Direct!Init
             PROVE  Direct!EagerInv
  OBVIOUS
<1> USE BcastRdzvAssumption, SameTree DEF Direct!Init, Ranks, Direct!WholeTeam
<1>1. Direct!TypeOK
  BY DEF Direct!TypeOK
<1>2. Direct!IntervalsOK
  BY DEF Direct!IntervalsOK, Direct!Forwarding
<1>3. Direct!ToldOnce
  <2>1. ASSUME NEW r \in Ranks, NEW q \in Ranks, Direct!InHand(r, q)
        PROVE  r = Root
    BY <2>1 DEF Direct!InHand, Direct!Forwarding
  <2>2. \A q \in Ranks \ {Root} : Direct!Fresh(q)
    BY DEF Direct!Fresh
  <2>3. QED
    BY <2>1, <2>2 DEF Direct!ToldOnce
<1>4. Direct!NobodyForgotten
  <2>1. \A q \in Ranks : Direct!InHand(Root, q)
    BY DEF Direct!InHand, Direct!Forwarding, Covers
  <2>2. QED
    BY <2>1 DEF Direct!NobodyForgotten
<1>5. Direct!RootOK
  BY DEF Direct!RootOK
<1>6. \A r \in Ranks \ {Root} : Direct!Fresh(r)
  BY DEF Direct!Fresh
<1>7. QED
  BY <1>1, <1>2, <1>3, <1>4, <1>5, <1>6 DEF Direct!EagerInv

\* An interval of a message, or in a rank's hand, includes its first rank.
LEMMA EagerCoversSelf ==
  ASSUME Direct!EagerInv
  PROVE  /\ \A p \in eNet : p.lb \in Ranks /\ Direct!InMessage(p, p.lb)
         /\ \A r \in Ranks : Direct!Forwarding(r) => Direct!InHand(r, r)
BY BcastRdzvAssumption, SameTree
   DEF Direct!EagerInv, Direct!TypeOK, Direct!IntervalsOK, Direct!InMessage, Direct!InHand,
       Covers, Ranks

LEMMA EagerReceive ==
  ASSUME Direct!EagerInv, NEW p \in eNet, Direct!Receive(p)
  PROVE  Direct!EagerInv'
<1> DEFINE k == p.lb
<1> USE SameTree
<1>1. k \in Ranks /\ Direct!InMessage(p, k) /\ Direct!Fresh(k)
  BY EagerCoversSelf DEF Direct!EagerInv, Direct!ToldOnce
<1>2. k # Root
  BY <1>1 DEF Direct!EagerInv, Direct!RootOK, Direct!Fresh
<1>3. eNet' = eNet \ {p}
  BY DEF Direct!Receive
<1>4. Direct!TypeOK'
  BY <1>1 DEF Direct!EagerInv, Direct!TypeOK, Direct!Receive
<1>5. \A q \in Ranks : q # k =>
        /\ Direct!Fresh(q)' = Direct!Fresh(q)
        /\ Direct!Reached(q)' = Direct!Reached(q)
        /\ Direct!Forwarding(q)' = Direct!Forwarding(q)
        /\ eUb'[q] = eUb[q]
  BY <1>1 DEF Direct!EagerInv, Direct!TypeOK, Direct!Receive, Direct!Fresh, Direct!Reached,
              Direct!Users, Direct!Forwarding
<1>6. Direct!Forwarding(k)' /\ eUb'[k] = p.ub
  BY <1>1 DEF Direct!EagerInv, Direct!TypeOK, Direct!Receive, Direct!Forwarding
<1>7. Direct!IntervalsOK'
  BY <1>1, <1>3, <1>5, <1>6 DEF Direct!EagerInv, Direct!IntervalsOK
<1>8. \A q \in Ranks : /\ Direct!InHand(k, q)' <=> Direct!InMessage(p, q)
                       /\ \A r \in Ranks \ {k} : Direct!InHand(r, q)' <=> Direct!InHand(r, q)
                       /\ ~Direct!InHand(k, q)
  BY <1>1, <1>5, <1>6 DEF Direct!InHand, Direct!InMessage, Direct!Fresh, Direct!Forwarding
<1>9. ~Direct!Fresh(k)'
  BY <1>6 DEF Direct!Fresh, Direct!Forwarding
<1>10. \A x, q : Direct!InMessage(x, q)' <=> Direct!InMessage(x, q)
  BY DEF Direct!InMessage
<1>11. Direct!ToldOnce /\ Direct!NobodyForgotten
  BY DEF Direct!EagerInv
<1>12. Direct!ToldOnce'
  BY <1>1, <1>3, <1>5, <1>8, <1>10, <1>11 DEF Direct!ToldOnce
<1>13. Direct!NobodyForgotten'
  BY <1>1, <1>3, <1>5, <1>8, <1>9, <1>10, <1>11 DEF Direct!NobodyForgotten
<1>14. Direct!RootOK'
  BY <1>1, <1>2 DEF Direct!EagerInv, Direct!TypeOK, Direct!RootOK, Direct!Receive
<1>15. Direct!Reached(k)'
  BY <1>1 DEF Direct!EagerInv, Direct!TypeOK, Direct!Receive, Direct!Fresh, Direct!Reached,
              Direct!Users, Direct!Forwarding
<1>16. QED
  BY <1>4, <1>5, <1>7, <1>12, <1>13, <1>14, <1>15 DEF Direct!EagerInv

\* A step that reaches no rank and moves no interval keeps the tree.
LEMMA EagerTreeStays ==
  ASSUME Direct!EagerInv, eNet' = eNet, eUb' = eUb,
         \A q \in Ranks : /\ Direct!Fresh(q)' <=> Direct!Fresh(q)
                          /\ Direct!Forwarding(q)' <=> Direct!Forwarding(q)
  PROVE  Direct!IntervalsOK' /\ Direct!ToldOnce' /\ Direct!NobodyForgotten'
<1> USE SameTree
<1>1. Direct!IntervalsOK /\ Direct!ToldOnce /\ Direct!NobodyForgotten
  BY DEF Direct!EagerInv
<1>2. \A x, q : Direct!InMessage(x, q)' <=> Direct!InMessage(x, q)
  BY DEF Direct!InMessage
<1>3. \A r, q \in Ranks : Direct!InHand(r, q)' <=> Direct!InHand(r, q)
  BY DEF Direct!InHand
<1>4. Direct!IntervalsOK'
  BY <1>1 DEF Direct!IntervalsOK
<1>5. Direct!ToldOnce'
  BY <1>1, <1>2, <1>3 DEF Direct!ToldOnce
<1>6. Direct!NobodyForgotten'
  BY <1>1, <1>2, <1>3 DEF Direct!NobodyForgotten
<1>7. QED
  BY <1>4, <1>5, <1>6

LEMMA EagerEnqueueRpc ==
  ASSUME Direct!EagerInv, NEW r \in Ranks, Direct!EnqueueRpc(r)
  PROVE  Direct!EagerInv'
<1> USE SameTree DEF Direct!EagerInv, Direct!TypeOK, Direct!EnqueueRpc
<1>1. r # Root /\ ~Direct!Fresh(r) /\ Direct!Reached(r)
  BY DEF Direct!RootOK, Direct!Fresh
<1>2. Direct!TypeOK' /\ Direct!RootOK'
  BY <1>1 DEF Direct!RootOK
<1>3. Direct!Reached(r)' /\ ~Direct!Fresh(r)' /\ (Direct!Forwarding(r)' <=> Direct!Forwarding(r))
  BY <1>1 DEF Direct!Reached, Direct!Fresh, Direct!Users, Direct!Forwarding
<1>4. \A q \in Ranks : q # r =>
        /\ Direct!Fresh(q)' <=> Direct!Fresh(q)
        /\ Direct!Reached(q)' <=> Direct!Reached(q)
        /\ Direct!Forwarding(q)' <=> Direct!Forwarding(q)
  BY DEF Direct!Reached, Direct!Fresh, Direct!Users, Direct!Forwarding
<1>5. Direct!IntervalsOK' /\ Direct!ToldOnce' /\ Direct!NobodyForgotten'
  <2>1. eNet' = eNet /\ eUb' = eUb
    OBVIOUS
  <2>2. QED
    BY <1>1, <1>3, <1>4, <2>1, EagerTreeStays
<1>6. QED
  BY <1>2, <1>3, <1>4, <1>5

LEMMA EagerBeginForward ==
  ASSUME Direct!EagerInv, NEW r \in Ranks, Direct!BeginForward(r)
  PROVE  Direct!EagerInv'
<1> USE SameTree DEF Direct!EagerInv, Direct!TypeOK, Direct!BeginForward
<1>1. r # Root /\ ~Direct!Fresh(r) /\ Direct!Reached(r)
  BY DEF Direct!RootOK, Direct!Fresh
<1>2. Direct!TypeOK' /\ Direct!RootOK'
  BY <1>1 DEF Direct!RootOK
<1>3. Direct!Reached(r)' /\ ~Direct!Fresh(r)' /\ (Direct!Forwarding(r)' <=> Direct!Forwarding(r))
  BY <1>1 DEF Direct!Reached, Direct!Fresh, Direct!Users, Direct!Forwarding
<1>4. \A q \in Ranks : q # r =>
        /\ Direct!Fresh(q)' <=> Direct!Fresh(q)
        /\ Direct!Reached(q)' <=> Direct!Reached(q)
        /\ Direct!Forwarding(q)' <=> Direct!Forwarding(q)
  BY DEF Direct!Reached, Direct!Fresh, Direct!Users, Direct!Forwarding
<1>5. Direct!IntervalsOK' /\ Direct!ToldOnce' /\ Direct!NobodyForgotten'
  <2>1. eNet' = eNet /\ eUb' = eUb
    OBVIOUS
  <2>2. QED
    BY <1>1, <1>3, <1>4, <2>1, EagerTreeStays
<1>6. QED
  BY <1>2, <1>3, <1>4, <1>5

LEMMA EagerExecute ==
  ASSUME Direct!EagerInv, NEW r \in Ranks, Direct!Execute(r)
  PROVE  Direct!EagerInv'
<1> USE SameTree DEF Direct!EagerInv, Direct!TypeOK, Direct!Execute, Direct!DropRef
<1>1. r # Root /\ ~Direct!Fresh(r) /\ Direct!Reached(r)
  BY DEF Direct!RootOK, Direct!Fresh
<1>2. Direct!TypeOK' /\ Direct!RootOK'
  BY <1>1 DEF Direct!RootOK, Direct!Reached, Direct!Users
<1>3. Direct!Reached(r)' /\ ~Direct!Fresh(r)' /\ (Direct!Forwarding(r)' <=> Direct!Forwarding(r))
  BY <1>1 DEF Direct!Reached, Direct!Fresh, Direct!Users, Direct!Forwarding
<1>4. \A q \in Ranks : q # r =>
        /\ Direct!Fresh(q)' <=> Direct!Fresh(q)
        /\ Direct!Reached(q)' <=> Direct!Reached(q)
        /\ Direct!Forwarding(q)' <=> Direct!Forwarding(q)
  BY DEF Direct!Reached, Direct!Fresh, Direct!Users, Direct!Forwarding
<1>5. Direct!IntervalsOK' /\ Direct!ToldOnce' /\ Direct!NobodyForgotten'
  <2>1. eNet' = eNet /\ eUb' = eUb
    OBVIOUS
  <2>2. QED
    BY <1>1, <1>3, <1>4, <2>1, EagerTreeStays
<1>6. QED
  BY <1>2, <1>3, <1>4, <1>5

LEMMA EagerSendPiece ==
  ASSUME Direct!EagerInv, NEW r \in Ranks, Direct!SendPiece(r)
  PROVE  Direct!EagerInv'
<1> DEFINE mid == Mid(Split, r, eUb[r])
           p   == Piece(N, mid, eUb[r])
<1> USE SameTree
<1>1. /\ eForward[r] = "running" /\ mid # r /\ Direct!Forwarding(r)
      /\ eNet' = eNet \cup {p}
      /\ eUb' = [eUb EXCEPT ![r] = mid]
      /\ UNCHANGED <<eHandler, eForward, eRpc, eRefs, eBlock, ran>>
  BY DEF Direct!SendPiece, Direct!Forwarding
<1>2. eUb[r] \in Int /\ r < eUb[r] /\ eUb[r] <= r + N /\ eUb \in [Ranks -> 0 .. 2 * N]
  BY <1>1 DEF Direct!EagerInv, Direct!TypeOK, Direct!IntervalsOK
<1>3. /\ mid \in 0 .. 2 * N
      /\ r < mid /\ mid < eUb[r] /\ mid <= r + N
      /\ p.lb \in Ranks /\ p.lb # r
      /\ p.ub \in 0 .. 2 * N /\ p.lb < p.ub /\ p.ub <= p.lb + N
      /\ \A q \in Ranks :
           /\ Covers(N, r, eUb[r], q) <=> Covers(N, r, mid, q) \/ Covers(N, p.lb, p.ub, q)
           /\ ~(Covers(N, r, mid, q) /\ Covers(N, p.lb, p.ub, q))
  <2>1. CutOK(N, r, eUb[r], mid, p)
    BY <1>2, EagerCut
  <2> HIDE DEF p, mid
  <2>2. QED
    BY <1>1, <2>1, TeamOK DEF CutOK
<1>4. p = [lb |-> p.lb, ub |-> p.ub]
  BY DEF Piece
<1> HIDE DEF p, mid
<1>5. Direct!TypeOK'
  BY <1>1, <1>2, <1>3, <1>4 DEF Direct!EagerInv, Direct!TypeOK
<1>6. eUb'[r] = mid /\ \A q \in Ranks \ {r} : eUb'[q] = eUb[q]
  BY <1>1, <1>2
<1>7. \A q \in Ranks : /\ Direct!Fresh(q)' <=> Direct!Fresh(q)
                       /\ Direct!Reached(q)' <=> Direct!Reached(q)
                       /\ Direct!Forwarding(q)' <=> Direct!Forwarding(q)
  BY <1>1 DEF Direct!Reached, Direct!Fresh, Direct!Users, Direct!Forwarding
<1>8. Direct!IntervalsOK'
  BY <1>1, <1>3, <1>6, <1>7 DEF Direct!EagerInv, Direct!IntervalsOK
<1>9. \A x, q : Direct!InMessage(x, q)' <=> Direct!InMessage(x, q)
  BY DEF Direct!InMessage
<1>10. \A q \in Ranks : /\ Direct!InHand(r, q) <=> Direct!InHand(r, q)' \/ Direct!InMessage(p, q)
                        /\ ~(Direct!InHand(r, q)' /\ Direct!InMessage(p, q))
  BY <1>1, <1>3, <1>6, <1>7 DEF Direct!InHand, Direct!InMessage
<1>11. \A q \in Ranks, s \in Ranks \ {r} : Direct!InHand(s, q)' <=> Direct!InHand(s, q)
  BY <1>6, <1>7 DEF Direct!InHand
<1>12. ~Direct!InMessage(p, r)
  <2>1. Covers(N, r, mid, r)
    BY <1>3, BcastRdzvAssumption DEF Covers, Ranks
  <2>2. QED
    BY <1>3, <2>1 DEF Direct!InMessage
<1>13. Direct!ToldOnce /\ Direct!NobodyForgotten
  BY DEF Direct!EagerInv
<1>14. Direct!ToldOnce'
  BY <1>1, <1>7, <1>9, <1>10, <1>11, <1>12, <1>13 DEF Direct!ToldOnce
<1>15. Direct!NobodyForgotten'
  BY <1>1, <1>7, <1>9, <1>10, <1>11, <1>13 DEF Direct!NobodyForgotten
<1>16. Direct!RootOK'
  BY <1>1 DEF Direct!EagerInv, Direct!RootOK
<1>17. QED
  BY <1>5, <1>7, <1>8, <1>14, <1>15, <1>16 DEF Direct!EagerInv

LEMMA EagerEndForward ==
  ASSUME Direct!EagerInv, NEW r \in Ranks, Direct!EndForward(r)
  PROVE  Direct!EagerInv'
<1> USE SameTree
<1>1. /\ eForward[r] = "running" /\ Mid(Split, r, eUb[r]) = r /\ Direct!Forwarding(r)
      /\ eForward' = [eForward EXCEPT ![r] = "done"]
      /\ Direct!DropUnlessRoot(r)
      /\ UNCHANGED <<eNet, eHandler, eRpc, eUb, ran>>
  BY DEF Direct!EndForward, Direct!Forwarding
<1>2. eUb[r] \in Int /\ r < eUb[r] /\ eUb[r] <= r + N
  BY <1>1 DEF Direct!EagerInv, Direct!TypeOK, Direct!IntervalsOK
<1>3. \A q \in Ranks : Direct!InHand(r, q) <=> q = r
  <2>1. \A q \in Ranks : Covers(N, r, eUb[r], q) <=> q = r
    BY <1>1, <1>2, EagerCut, TeamOK DEF CutOK
  <2>2. QED
    BY <1>1, <2>1 DEF Direct!InHand
<1>4. ~Direct!Fresh(r) /\ ~Direct!Fresh(r)' /\ ~Direct!Forwarding(r)'
  BY <1>1 DEF Direct!EagerInv, Direct!TypeOK, Direct!Fresh, Direct!Forwarding
<1>5. \A q \in Ranks : q # r =>
        /\ Direct!Fresh(q)' <=> Direct!Fresh(q)
        /\ Direct!Reached(q)' <=> Direct!Reached(q)
        /\ Direct!Forwarding(q)' <=> Direct!Forwarding(q)
  BY <1>1 DEF Direct!EagerInv, Direct!TypeOK, Direct!Reached, Direct!Fresh, Direct!Users,
              Direct!Forwarding, Direct!DropUnlessRoot, Direct!DropRef
<1>6. r # Root => Direct!Reached(r)
  BY <1>4 DEF Direct!EagerInv
<1>7. r # Root => Direct!Reached(r)'
  BY <1>1, <1>6 DEF Direct!EagerInv, Direct!TypeOK, Direct!Reached, Direct!Users,
                    Direct!Forwarding, Direct!DropUnlessRoot, Direct!DropRef
<1>8. Direct!TypeOK'
  BY <1>1, <1>6 DEF Direct!EagerInv, Direct!TypeOK, Direct!Reached, Direct!Users,
                    Direct!DropUnlessRoot, Direct!DropRef
<1>9. Direct!RootOK'
  BY <1>1 DEF Direct!EagerInv, Direct!TypeOK, Direct!RootOK
<1>10. \A x, q : Direct!InMessage(x, q)' <=> Direct!InMessage(x, q)
  BY DEF Direct!InMessage
<1>11. \A q \in Ranks : /\ ~Direct!InHand(r, q)'
                        /\ \A s \in Ranks \ {r} : Direct!InHand(s, q)' <=> Direct!InHand(s, q)
  BY <1>1, <1>4, <1>5 DEF Direct!InHand
<1>12. Direct!IntervalsOK'
  BY <1>1, <1>4, <1>5 DEF Direct!EagerInv, Direct!IntervalsOK
<1>13. Direct!ToldOnce /\ Direct!NobodyForgotten
  BY DEF Direct!EagerInv
<1>14. Direct!ToldOnce'
  BY <1>1, <1>4, <1>5, <1>10, <1>11, <1>13 DEF Direct!ToldOnce
<1>15. Direct!NobodyForgotten'
  BY <1>1, <1>3, <1>4, <1>5, <1>10, <1>11, <1>13 DEF Direct!NobodyForgotten
<1>16. QED
  BY <1>5, <1>7, <1>8, <1>9, <1>12, <1>14, <1>15 DEF Direct!EagerInv

LEMMA EagerStep ==
  ASSUME Direct!EagerInv, [Direct!Next]_<<eagerVars, ran>>
  PROVE  Direct!EagerInv'
<1>1. CASE Direct!Next
  <2>1. ASSUME NEW p \in eNet, Direct!Receive(p) PROVE Direct!EagerInv'
    BY <2>1, EagerReceive
  <2>2. ASSUME NEW r \in Ranks, Direct!Step(r) PROVE Direct!EagerInv'
    BY <2>2, EagerEnqueueRpc, EagerBeginForward, EagerSendPiece, EagerEndForward, EagerExecute
       DEF Direct!Step
  <2>3. CASE Direct!Stop
    <3>1. UNCHANGED <<eagerVars, ran>>
      BY <2>3 DEF Direct!Stop, Direct!vars, eagerVars
    <3>2. QED
      BY <3>1, SameTree DEF eagerVars, Direct!EagerInv, Direct!TypeOK, Direct!IntervalsOK,
         Direct!ToldOnce, Direct!NobodyForgotten, Direct!RootOK, Direct!Fresh, Direct!Reached,
         Direct!Users, Direct!Forwarding, Direct!InHand, Direct!InMessage
  <2>4. QED
    BY <1>1, <2>1, <2>2, <2>3, SameTree DEF Direct!Next
<1>2. CASE UNCHANGED <<eagerVars, ran>>
  BY <1>2, SameTree DEF eagerVars, Direct!EagerInv, Direct!TypeOK, Direct!IntervalsOK,
     Direct!ToldOnce, Direct!NobodyForgotten, Direct!RootOK, Direct!Fresh, Direct!Reached,
     Direct!Users, Direct!Forwarding, Direct!InHand, Direct!InMessage
<1>3. QED
  BY <1>1, <1>2

\* What the invariant of the eager protocol says of the blocks, and of the end.
LEMMA EagerMeans ==
  ASSUME Direct!EagerInv
  PROVE  /\ Direct!BlockLife
         /\ Direct!Terminated => \A r \in Ranks \ {Root} : ran[r] = 1
<1> USE SameTree
<1>1. ASSUME NEW r \in Ranks \ {Root}
      PROVE  LET used == \/ eHandler[r] = "deferred" \/ eForward[r] \in {"queued", "running"}
                         \/ eRpc[r] = "queued"
             IN  (used => eBlock[r] = "live") /\ (~used => eBlock[r] # "live")
  BY DEF Direct!EagerInv, Direct!TypeOK, Direct!Fresh, Direct!Reached, Direct!Users,
         Direct!Forwarding
<1>2. ASSUME Direct!Terminated, NEW r \in Ranks \ {Root}
      PROVE  ran[r] = 1
  <2>1. \A q \in Ranks : ~Direct!Fresh(q)
    BY <1>2 DEF Direct!EagerInv, Direct!NobodyForgotten, Direct!InHand, Direct!Forwarding,
                Direct!Terminated
  <2>2. Direct!Reached(r)
    BY <2>1 DEF Direct!EagerInv
  <2>3. QED
    BY <1>2, <2>2 DEF Direct!EagerInv, Direct!TypeOK, Direct!Reached, Direct!Terminated
<1>3. QED
  BY <1>1, <1>2 DEF Direct!BlockLife

-----------------------------------------------------------------------------
(* The rendezvous protocol                                                 *)

LEMMA RdzvCut ==
  ASSUME NEW r \in Ranks, NEW u \in Int, r < u, u <= r + N
  PROVE  CutOK(N, r, u, Mid(Rdzv, r, u), Piece(N, Mid(Rdzv, r, u), u))
<1>1. Rdzv.num = 1 /\ Rdzv.den = 2
  BY DEF Rdzv
<1>2. QED
  BY <1>1, TeamOK, Cut

LEMMA RdzvInitially == Init => RdzvInv
<1> SUFFICES ASSUME Init
             PROVE  RdzvInv
  OBVIOUS
<1> USE TeamOK DEF Init, WholeTeam, Zero
<1>1. TypeOK /\ twice = {}
  BY DEF TypeOK, NoRank
<1>2. IntervalsOK
  BY DEF IntervalsOK, Forwarding
<1>3. ToldOnce
  <2>1. ASSUME NEW r \in Ranks, NEW q \in Ranks, InHand(r, q)
        PROVE  r = Root
    BY <2>1 DEF InHand, Forwarding
  <2>2. \A q \in Ranks \ {Root} : Fresh(q)
    BY DEF Fresh
  <2>3. QED
    BY <2>1, <2>2 DEF ToldOnce
<1>4. NobodyForgotten
  <2>1. \A q \in Ranks : InHand(Root, q)
    BY DEF InHand, Forwarding, Covers
  <2>2. QED
    BY <2>1 DEF NobodyForgotten
<1>5. RootOK
  BY DEF RootOK
<1>6. \A r \in Ranks \ {Root} : Fresh(r)
  BY DEF Fresh
<1>7. OnlySharedKnown
  BY DEF OnlySharedKnown, NoRank
<1>8. ASSUME NEW o \in Ranks
      PROVE  refs[o] = References(o) /\ BufferOK(o)
  <2>1. InNet(o) = {} /\ Readers(o) = {}
    BY DEF InNet, Readers
  <2>2. Copiers(o) = {} /\ Promised(o) = {}
    BY DEF Copiers, Promised, NoRank
  <2>3. refs[o] = References(o)
    BY <2>1, <2>2, FS_EmptySet DEF References
  <2>4. QED
    BY <2>3 DEF BufferOK, Filling
<1>9. QED
  BY <1>1, <1>2, <1>3, <1>4, <1>5, <1>6, <1>7, <1>8, FS_EmptySet DEF RdzvInv, CountsExact

\* Whoever a rank, a message or a notice refers to shares its buffer.
LEMMA RdzvKnown ==
  ASSUME RdzvInv
  PROVE  /\ \A p \in net : p.owner \in Ranks /\ Sharing(p.owner)
         /\ \A r \in Ranks : owner[r] \in Ranks /\ owner[r] # r => Sharing(owner[r])
         /\ \A r \in Ranks : src[r] \in Ranks => Sharing(src[r]) /\ src[r] # r
         /\ \A o \in Ranks : drops[o] > 0 \/ frees[o] > 0 => Sharing(o)
<1>1. \A p \in net : p.owner \in Ranks /\ Sharing(p.owner)
  BY DEF RdzvInv, TypeOK, OnlySharedKnown
<1>2. \A r \in Ranks : owner[r] \in Ranks /\ owner[r] # r => Sharing(owner[r])
  BY DEF RdzvInv, OnlySharedKnown
<1>3. \A r \in Ranks : src[r] \in Ranks => src[r] # r
  BY TeamOK DEF RdzvInv, RootOK, Fresh, Reached, NoRank
<1>4. \A r \in Ranks : src[r] \in Ranks => Sharing(src[r])
  BY <1>3 DEF RdzvInv, OnlySharedKnown
<1>5. \A o \in Ranks : drops[o] > 0 \/ frees[o] > 0 => Sharing(o)
  BY DEF RdzvInv, OnlySharedKnown
<1>6. QED
  BY <1>1, <1>2, <1>3, <1>4, <1>5

\* Who holds references to a buffer can be counted.
LEMMA RdzvCountable ==
  ASSUME RdzvInv, NEW o \in Ranks
  PROVE  /\ IsFiniteSet(InNet(o)) /\ Cardinality(InNet(o)) \in Nat
         /\ IsFiniteSet(Readers(o)) /\ Cardinality(Readers(o)) \in Nat
         /\ IsFiniteSet(Copiers(o)) /\ Cardinality(Copiers(o)) \in Nat
         /\ IsFiniteSet(Promised(o)) /\ Cardinality(Promised(o)) \in Nat
<1>1. IsFiniteSet(Ranks) /\ IsFiniteSet(1 .. N)
  BY TeamOK, FS_Interval
<1>2. IsFiniteSet(Ranks \X (1 .. N))
  BY <1>1, FS_Product
<1>3. InNet(o) \subseteq net /\ Readers(o) \subseteq Ranks /\ Copiers(o) \subseteq Ranks
  BY DEF RdzvInv, TypeOK, InNet, Readers, Copiers
<1>4. Promised(o) \subseteq Ranks \X (1 .. N)
  BY DEF Promised
<1>5. IsFiniteSet(net)
  BY DEF RdzvInv
<1>6. QED
  BY <1>1, <1>2, <1>3, <1>4, <1>5, FS_Subset, FS_CardinalityType

\* A step that reaches no rank and moves no interval keeps the tree.
LEMMA RdzvTreeStays ==
  ASSUME RdzvInv, net' = net,
         \A q \in Ranks : /\ Fresh(q)' <=> Fresh(q)
                          /\ Forwarding(q)' => Forwarding(q)
                          /\ Forwarding(q) /\ ~Forwarding(q)' => Mid(Rdzv, q, ub[q]) = q
                          /\ ub'[q] = ub[q]
  PROVE  IntervalsOK' /\ ToldOnce' /\ NobodyForgotten'
<1>1. IntervalsOK /\ ToldOnce /\ NobodyForgotten
  BY DEF RdzvInv
<1>2. \A x, q : InMessage(x, q)' <=> InMessage(x, q)
  BY DEF InMessage
<1>3. \A r, q \in Ranks : InHand(r, q)' => InHand(r, q)
  BY DEF InHand
<1>4. ASSUME NEW r \in Ranks, NEW q \in Ranks, InHand(r, q), ~InHand(r, q)'
      PROVE  q = r /\ ~Fresh(q)
  <2>1. Forwarding(r) /\ ~Forwarding(r)' /\ Covers(N, r, ub[r], q)
    BY <1>4 DEF InHand
  <2>2. ub[r] \in Int /\ r < ub[r] /\ ub[r] <= r + N
    BY <2>1, <1>1 DEF RdzvInv, TypeOK, IntervalsOK
  <2>3. q = r
    BY <2>1, <2>2, RdzvCut, TeamOK DEF CutOK
  <2>4. QED
    BY <2>1, <2>3 DEF Fresh, Forwarding
<1>5. IntervalsOK'
  BY <1>1 DEF IntervalsOK
<1>6. ToldOnce'
  BY <1>1, <1>2, <1>3 DEF ToldOnce
<1>7. NobodyForgotten'
  BY <1>1, <1>2, <1>4 DEF NobodyForgotten
<1>8. QED
  BY <1>5, <1>6, <1>7

LEMMA RdzvLoadRefs ==
  ASSUME RdzvInv, NEW r \in Ranks, LoadRefs(r)
  PROVE  RdzvInv'
<1> USE DEF LoadRefs, KeepBuffers
<1>1. TypeOK /\ TypeOK' /\ twice' = {} /\ IsFiniteSet(net)'
  BY DEF RdzvInv, TypeOK
<1>2. \A q \in Ranks : /\ Fresh(q)' <=> Fresh(q)
                       /\ Reached(q) => Reached(q)'
                       /\ Forwarding(q)' <=> Forwarding(q)
                       /\ Sharing(q)' <=> Sharing(q)
                       /\ Filling(q)' <=> Filling(q)
  BY <1>1 DEF TypeOK, Fresh, Reached, Forwarding, Sharing, Filling
<1>3. IntervalsOK' /\ ToldOnce' /\ NobodyForgotten'
  BY <1>2, RdzvTreeStays
<1>4. RootOK'
  BY <1>1 DEF RdzvInv, TypeOK, RootOK
<1>5. OnlySharedKnown'
  BY <1>2 DEF RdzvInv, OnlySharedKnown
<1>6. ASSUME NEW o \in Ranks
      PROVE  (refs[o] = References(o) /\ BufferOK(o))'
  <2>1. refs[o] = References(o) /\ BufferOK(o)
    BY DEF RdzvInv, CountsExact
  <2>2. InNet(o)' = InNet(o) /\ Readers(o)' = Readers(o) /\ Copiers(o)' = Copiers(o)
    BY <1>1 DEF TypeOK, InNet, Readers, Copiers
  <2>3. Promised(o)' = Promised(o)
    BY <1>1 DEF TypeOK, Promised, Count
  <2>4. References(o)' = References(o)
    BY <2>2, <2>3 DEF References
  <2>5. BufferOK(o)'
    BY <1>1, <1>2, <2>1 DEF TypeOK, BufferOK
  <2>6. QED
    BY <2>1, <2>4, <2>5
<1>7. QED
  BY <1>1, <1>2, <1>3, <1>4, <1>5, <1>6 DEF RdzvInv, CountsExact

\* What the number of messages to send is, and how one turn of the loop changes it.
LEMMA RdzvCount ==
  ASSUME RdzvInv, NEW r \in Ranks, Forwarding(r)
  PROVE  LET mid == Mid(Rdzv, r, ub[r])
         IN  /\ Count(r) \in Nat /\ Count(r) <= N
             /\ Count(r) = 0 <=> mid = r
             /\ mid # r => /\ Count(r) = 1 + Messages(Rdzv, r, mid)
                           /\ Messages(Rdzv, r, mid) \in Nat
<1> DEFINE mid == Mid(Rdzv, r, ub[r])
           d   == ub[r] - r
<1>1. ub[r] \in Int /\ r \in Int /\ d \in 1 .. N
  <2>1. ub[r] \in 0 .. 2 * N /\ r < ub[r] /\ ub[r] <= r + N
    BY DEF RdzvInv, TypeOK, IntervalsOK
  <2>2. N \in Nat /\ r \in 0 .. N - 1
    BY TeamOK
  <2>3. QED
    BY <2>1, <2>2
<1>2. mid = r + Halving(d) /\ Halving(d) \in Nat /\ mid - r = Halving(d)
  BY <1>1, HalvingBounds, TeamOK DEF Mid, Halving
<1>3. Count(r) = Pieces(Rdzv)[d] /\ Messages(Rdzv, r, mid) = Pieces(Rdzv)[Halving(d)]
  BY <1>2 DEF Count, Messages
<1>4. Pieces(Rdzv)[d] \in 0 .. d /\ Pieces(Rdzv)[Halving(d)] \in Nat
  BY <1>1, <1>2, PiecesBound, PiecesUnfold
<1>5. Pieces(Rdzv)[d] = IF Halving(d) = 0 THEN 0 ELSE 1 + Pieces(Rdzv)[Halving(d)]
  BY <1>1, PiecesUnfold
<1> HIDE DEF mid, d
<1>6. QED
  BY <1>1, <1>2, <1>3, <1>4, <1>5, TeamOK DEF mid, d

LEMMA PairsCount ==
  ASSUME NEW r, NEW c \in Nat
  PROVE  IsFiniteSet({r} \X (1 .. c)) /\ Cardinality({r} \X (1 .. c)) = c
<1>1. IsFiniteSet({r}) /\ Cardinality({r}) = 1
  BY FS_Singleton
<1>2. IsFiniteSet(1 .. c) /\ Cardinality(1 .. c) = c
  BY FS_Interval
<1>3. /\ IsFiniteSet({r} \X (1 .. c))
      /\ Cardinality({r} \X (1 .. c)) = Cardinality({r}) * Cardinality(1 .. c)
  BY <1>1, <1>2, FS_Product, Zenon
<1>4. Cardinality({r} \X (1 .. c)) = 1 * c
  BY <1>1, <1>2, <1>3, Zenon
<1>5. QED
  BY <1>3, <1>4

\* Rank r promises its messages: one reference to its owner's buffer for each.
LEMMA RdzvPromise ==
  ASSUME RdzvInv, NEW r \in Ranks, pc[r] \in {"count", "store"},
         owner' = owner, ub' = ub,
         pc' = [pc EXCEPT ![r] = IF Count(r) = 0 THEN AfterForward(r) ELSE "send"],
         NEW o \in Ranks
  PROVE  Cardinality(Promised(o)')
           = Cardinality(Promised(o)) + (IF o = owner[r] THEN Count(r) ELSE 0)
<1> DEFINE new == {r} \X (1 .. Count(r))
<1>1. Count(r) \in Nat /\ Count(r) <= N
  BY RdzvCount DEF Forwarding
<1>2. \A q : Count(q)' = Count(q)
  BY DEF Count
<1>3. TypeOK /\ AfterForward(r) # "send"
  BY DEF RdzvInv, AfterForward
<1>4. CASE o # owner[r]
  <2>1. Promised(o)' = Promised(o)
    BY <1>2, <1>3, <1>4 DEF Promised, TypeOK
  <2>2. QED
    BY <1>4, <2>1, RdzvCountable
<1>5. CASE o = owner[r]
  <2>1. ASSUME NEW q \in Ranks, NEW k \in 1 .. N
        PROVE  (pc'[q] = "send" /\ k <= Count(q)) <=>
               (pc[q] = "send" /\ k <= Count(q)) \/ (q = r /\ k <= Count(r))
    <3>1. q # r => pc'[q] = pc[q]
      BY <1>3 DEF TypeOK
    <3>2. pc'[r] = (IF Count(r) = 0 THEN AfterForward(r) ELSE "send") /\ pc[r] # "send"
      BY <1>3 DEF TypeOK
    <3>3. k \in Nat /\ k > 0
      OBVIOUS
    <3>4. QED
      BY <1>1, <1>3, <3>1, <3>2, <3>3
  <2>2. Promised(o)' = Promised(o) \cup new
    BY <1>1, <1>2, <1>5, <2>1, TeamOK DEF Promised
  <2>3. Promised(o) \cap new = {}
    BY DEF Promised
  <2>4. QED
    <3>1. IsFiniteSet(new) /\ Cardinality(new) = Count(r)
      BY <1>1, PairsCount
    <3>2. IsFiniteSet(Promised(o)) /\ Cardinality(Promised(o)) \in Nat
      BY RdzvCountable
    <3> HIDE DEF new
    <3>3. Cardinality(Promised(o) \cup new)
            = Cardinality(Promised(o)) + Cardinality(new) - Cardinality(Promised(o) \cap new)
      BY <3>1, <3>2, FS_Union
    <3>4. Cardinality(Promised(o) \cap new) = 0
      BY <2>3, FS_EmptySet
    <3>5. Cardinality(Promised(o)') = Cardinality(Promised(o) \cup new)
      BY <2>2
    <3>6. QED
      BY <1>1, <1>5, <3>1, <3>2, <3>3, <3>4, <3>5
<1>6. QED
  BY <1>4, <1>5

LEMMA RdzvStoreRefs ==
  ASSUME RdzvInv, NEW r \in Ranks, StoreRefs(r)
  PROVE  RdzvInv'
<1>1. /\ pc[r] = "store"
      /\ refs' = [refs EXCEPT ![r] = loaded[r] + Count(r)]
      /\ pc' = [pc EXCEPT ![r] = IF Count(r) = 0 THEN AfterForward(r) ELSE "send"]
      /\ UNCHANGED <<m, net, ub, owner, src, loaded, drops, frees, ran>>
  BY DEF StoreRefs
<1>2. TypeOK /\ owner[r] = r /\ loaded[r] = refs[r] /\ Forwarding(r) /\ ~Sharing(r)
  BY <1>1 DEF RdzvInv, RootOK, Fresh, Reached, CountsExact, BufferOK, Forwarding, Sharing
<1>3. Count(r) \in Nat /\ (Count(r) = 0 <=> Mid(Rdzv, r, ub[r]) = r)
  BY <1>2, RdzvCount
<1>4. frees[r] = 0
  BY <1>2 DEF RdzvInv, OnlySharedKnown
<1>5. buffer[r] = "live"
  <2>1. CASE r = Root
    BY <1>1, <2>1 DEF RdzvInv, CountsExact, BufferOK, Filling
  <2>2. CASE r # Root
    <3>1. r \in m
      BY <1>1, <2>2 DEF RdzvInv, Fresh, Reached
    <3>2. r \in Readers(r)
      BY <1>1, <1>2, <3>1 DEF Readers
    <3>3. References(r) > 0
      BY <3>2, RdzvCountable, FS_EmptySet DEF References, RdzvInv, TypeOK
    <3>4. QED
      BY <3>3 DEF RdzvInv, CountsExact, BufferOK
  <2>3. QED
    BY <2>1, <2>2
<1>6. twice' = {} /\ buffer' = IF Count(r) = 0 /\ loaded[r] = 0
                               THEN [buffer EXCEPT ![r] = "freed"] ELSE buffer
  BY <1>5 DEF StoreRefs, Deallocate, KeepBuffers, RdzvInv
<1>7. AfterForward(r) = IF r = Root THEN "home" ELSE "enqueue"
  BY <1>1, TeamOK DEF RdzvInv, RootOK, Fresh, Reached, AfterForward
<1>8. TypeOK' /\ IsFiniteSet(net)'
  BY <1>1, <1>2, <1>3, <1>6, <1>7 DEF RdzvInv, TypeOK
<1>9. RootOK'
  BY <1>1, <1>2, <1>7 DEF RdzvInv, TypeOK, RootOK
<1>10. \A q \in Ranks : q # r => /\ Fresh(q)' <=> Fresh(q)
                                 /\ Reached(q)' <=> Reached(q)
                                 /\ Forwarding(q)' <=> Forwarding(q)
                                 /\ Sharing(q)' <=> Sharing(q)
                                 /\ Filling(q)' <=> Filling(q)
                                 /\ BufferOK(q)' <=> BufferOK(q)
  BY <1>1, <1>2, <1>6 DEF TypeOK, Fresh, Reached, Forwarding, Sharing, Filling, BufferOK
<1>11. /\ ~Fresh(r) /\ ~Fresh(r)'
       /\ Sharing(r)'
       /\ Forwarding(r)' <=> Count(r) # 0
       /\ r # Root => Reached(r)'
  BY <1>1, <1>2, <1>7 DEF RdzvInv, TypeOK, Fresh, Reached, Forwarding, Sharing
<1>12. IntervalsOK' /\ ToldOnce' /\ NobodyForgotten'
  BY <1>1, <1>2, <1>3, <1>10, <1>11, RdzvTreeStays
<1>13. OnlySharedKnown'
  BY <1>1, <1>10, <1>11 DEF RdzvInv, OnlySharedKnown
<1>14. BufferOK(r)'
  BY <1>1, <1>2, <1>3, <1>4, <1>5, <1>6, <1>7 DEF TypeOK, BufferOK, Filling
<1>15. ASSUME NEW o \in Ranks
       PROVE  (refs[o] = References(o))'
  <2>1. refs[o] = References(o)
    BY DEF RdzvInv, CountsExact
  <2>2. InNet(o)' = InNet(o)
    BY <1>1 DEF InNet
  <2>3. Readers(o)' = Readers(o)
    BY <1>1, <1>2, <1>7 DEF Readers, TypeOK
  <2>4. Copiers(o)' = Copiers(o)
    <3>1. r = Root => src[r] # o
      BY TeamOK DEF RdzvInv, RootOK, NoRank
    <3>2. QED
      BY <1>1, <1>2, <1>7, <3>1 DEF Copiers, TypeOK
  <2>5. Cardinality(Promised(o)')
          = Cardinality(Promised(o)) + (IF o = owner[r] THEN Count(r) ELSE 0)
    BY <1>1, RdzvPromise
  <2>6. References(o)' = References(o) + (IF o = r THEN Count(r) ELSE 0)
    BY <1>1, <1>2, <1>3, <2>2, <2>3, <2>4, <2>5, RdzvCountable DEF References, TypeOK
  <2>7. refs'[o] = refs[o] + (IF o = r THEN Count(r) ELSE 0)
    BY <1>1, <1>2, <1>3 DEF TypeOK
  <2>8. QED
    BY <2>1, <2>6, <2>7
<1>16. QED
  BY <1>6, <1>8, <1>9, <1>10, <1>11, <1>12, <1>13, <1>14, <1>15 DEF RdzvInv, CountsExact

LEMMA RdzvAddRefs ==
  ASSUME RdzvInv, NEW r \in Ranks, AddRefs(r)
  PROVE  RdzvInv'
<1>1. /\ pc[r] = "count" /\ owner[r] # r
      /\ refs' = [refs EXCEPT ![owner[r]] = @ + Count(r)]
      /\ pc' = [pc EXCEPT ![r] = IF Count(r) = 0 THEN AfterForward(r) ELSE "send"]
      /\ UNCHANGED <<m, net, ub, owner, src, loaded, drops, frees, ran, buffer, twice>>
  BY DEF AddRefs, KeepBuffers
<1>2. TypeOK /\ Forwarding(r) /\ r # Root /\ ~Fresh(r) /\ Reached(r)
  BY <1>1 DEF RdzvInv, RootOK, Fresh, Forwarding
<1>3. owner[r] \in Ranks /\ r \in m /\ src[r] = NoRank /\ Sharing(owner[r])
  BY <1>1, <1>2, RdzvKnown DEF Reached
<1>4. Count(r) \in Nat /\ (Count(r) = 0 <=> Mid(Rdzv, r, ub[r]) = r)
  BY <1>2, RdzvCount
<1>5. refs[owner[r]] > 0
  <2>1. r \in Readers(owner[r])
    BY <1>1, <1>3 DEF Readers
  <2>2. References(owner[r]) > 0
    <3>1. Cardinality(Readers(owner[r])) > 0
      BY <1>3, <2>1, RdzvCountable, FS_EmptySet
    <3>2. QED
      BY <1>2, <1>3, <3>1, RdzvCountable DEF References, TypeOK
  <2>3. QED
    BY <1>3, <2>2 DEF RdzvInv, CountsExact
<1>6. AfterForward(r) = "enqueue"
  BY <1>3 DEF AfterForward
<1>7. TypeOK' /\ IsFiniteSet(net)' /\ twice' = {}
  BY <1>1, <1>2, <1>3, <1>4, <1>6 DEF RdzvInv, TypeOK
<1>8. RootOK'
  BY <1>1, <1>2 DEF RdzvInv, TypeOK, RootOK
<1>9. \A q \in Ranks : q # r => /\ Fresh(q)' <=> Fresh(q)
                                /\ Reached(q)' <=> Reached(q)
                                /\ Forwarding(q)' <=> Forwarding(q)
                                /\ Sharing(q)' <=> Sharing(q)
                                /\ Filling(q)' <=> Filling(q)
  BY <1>1, <1>2, <1>3 DEF TypeOK, Fresh, Reached, Forwarding, Sharing, Filling
<1>10. /\ ~Fresh(r)'
       /\ Sharing(r)' <=> Sharing(r)
       /\ Filling(r)' <=> Filling(r)
       /\ Forwarding(r)' <=> Count(r) # 0
       /\ Reached(r)'
  BY <1>1, <1>2, <1>6 DEF TypeOK, Fresh, Reached, Forwarding, Sharing, Filling
<1>11. IntervalsOK' /\ ToldOnce' /\ NobodyForgotten'
  BY <1>1, <1>2, <1>4, <1>9, <1>10, RdzvTreeStays
<1>12. OnlySharedKnown'
  BY <1>1, <1>9, <1>10 DEF RdzvInv, OnlySharedKnown
<1>13. ASSUME NEW o \in Ranks
       PROVE  BufferOK(o)'
  <2>1. BufferOK(o)
    BY DEF RdzvInv, CountsExact
  <2>2. pc'[o] = "store" => pc[o] = "store" /\ o # owner[r]
    BY <1>1, <1>2, <1>3, <1>6 DEF TypeOK, Sharing
  <2>3. Filling(o)' <=> Filling(o)
    BY <1>9, <1>10
  <2>4. o # owner[r] => refs'[o] = refs[o]
    BY <1>1, <1>2, <1>3 DEF TypeOK
  <2>5. o = owner[r] => refs[o] > 0 /\ refs'[o] > 0 /\ frees[o] = 0
    BY <1>1, <1>2, <1>3, <1>4, <1>5, <2>1 DEF TypeOK, BufferOK
  <2>6. QED
    BY <1>1, <2>1, <2>2, <2>3, <2>4, <2>5 DEF BufferOK
<1>14. ASSUME NEW o \in Ranks
       PROVE  (refs[o] = References(o))'
  <2>1. refs[o] = References(o)
    BY DEF RdzvInv, CountsExact
  <2>2. InNet(o)' = InNet(o)
    BY <1>1 DEF InNet
  <2>3. Readers(o)' = Readers(o)
    BY <1>1, <1>2, <1>6 DEF Readers, TypeOK
  <2>4. Copiers(o)' = Copiers(o)
    <3>1. src[r] # o
      BY <1>3, TeamOK DEF NoRank
    <3>2. QED
      BY <1>1, <1>2, <3>1 DEF Copiers, TypeOK
  <2>5. Cardinality(Promised(o)')
          = Cardinality(Promised(o)) + (IF o = owner[r] THEN Count(r) ELSE 0)
    BY <1>1, RdzvPromise
  <2>6. References(o)' = References(o) + (IF o = owner[r] THEN Count(r) ELSE 0)
    BY <1>1, <1>2, <1>4, <2>2, <2>3, <2>4, <2>5, RdzvCountable DEF References, TypeOK
  <2>7. refs'[o] = refs[o] + (IF o = owner[r] THEN Count(r) ELSE 0)
    BY <1>1, <1>2, <1>3, <1>4 DEF TypeOK
  <2>8. QED
    BY <2>1, <2>6, <2>7
<1>15. QED
  BY <1>2, <1>7, <1>8, <1>9, <1>10, <1>11, <1>12, <1>13, <1>14 DEF RdzvInv, CountsExact

\* An interval of a message, or in a rank's hand, includes its first rank.
LEMMA RdzvCoversSelf ==
  ASSUME RdzvInv
  PROVE  /\ \A p \in net : p.to \in Ranks /\ InMessage(p, p.to)
         /\ \A r \in Ranks : Forwarding(r) => InHand(r, r)
<1>1. ASSUME NEW a \in Ranks, NEW b \in Int, a < b
      PROVE  Covers(N, a, b, a)
  BY <1>1, TeamOK DEF Covers
<1>2. ASSUME NEW p \in net
      PROVE  p.to \in Ranks /\ p.ub \in Int /\ p.to < p.ub
  BY DEF RdzvInv, TypeOK, IntervalsOK
<1>3. ASSUME NEW r \in Ranks, Forwarding(r)
      PROVE  ub[r] \in Int /\ r < ub[r]
  BY <1>3 DEF RdzvInv, TypeOK, IntervalsOK
<1>4. QED
  BY <1>1, <1>2, <1>3 DEF InMessage, InHand

\* A rank that takes part reads a buffer of some rank.
LEMMA RdzvOwned ==
  ASSUME RdzvInv, NEW r \in Ranks, pc[r] # "idle"
  PROVE  owner[r] \in Ranks /\ (r = Root \/ Reached(r))
BY TeamOK DEF RdzvInv, RootOK, Fresh, Reached

LEMMA RdzvSend ==
  ASSUME RdzvInv, NEW r \in Ranks, Send(r)
  PROVE  RdzvInv'
<1> DEFINE mid == Mid(Rdzv, r, ub[r])
           sub == Piece(N, mid, ub[r])
           p   == [to |-> sub.lb, ub |-> sub.ub, from |-> r, owner |-> owner[r]]
           w   == owner[r]
<1>1. /\ pc[r] = "send" /\ mid # r
      /\ net' = net \cup {p}
      /\ ub' = [ub EXCEPT ![r] = mid]
      /\ UNCHANGED <<m, pc, owner, src, loaded, refs, drops, frees, ran, buffer, twice>>
  BY DEF Send, KeepBuffers
<1>2. TypeOK /\ Forwarding(r) /\ w \in Ranks
  BY <1>1, RdzvOwned DEF RdzvInv, Forwarding
<1>3. ub[r] \in Int /\ r < ub[r] /\ ub[r] <= r + N /\ ub \in [Ranks -> 0 .. 2 * N]
  BY <1>2 DEF RdzvInv, TypeOK, IntervalsOK
<1>4. /\ mid \in 0 .. 2 * N
      /\ r < mid /\ mid < ub[r] /\ mid <= r + N
      /\ sub.lb \in Ranks /\ sub.lb # r
      /\ sub.ub \in 0 .. 2 * N /\ sub.lb < sub.ub /\ sub.ub <= sub.lb + N
      /\ \A q \in Ranks :
           /\ Covers(N, r, ub[r], q) <=> Covers(N, r, mid, q) \/ Covers(N, sub.lb, sub.ub, q)
           /\ ~(Covers(N, r, mid, q) /\ Covers(N, sub.lb, sub.ub, q))
  <2>1. CutOK(N, r, ub[r], mid, sub)
    BY <1>3, RdzvCut
  <2> HIDE DEF sub, mid
  <2>2. QED
    BY <1>1, <2>1, TeamOK DEF CutOK
<1>5. Count(r) \in Nat /\ Count(r) <= N /\ Count(r) # 0 /\ Messages(Rdzv, r, mid) = Count(r) - 1
  BY <1>1, <1>2, RdzvCount
<1> HIDE DEF sub, mid
<1>6. p.to = sub.lb /\ p.ub = sub.ub /\ p.owner = w
  OBVIOUS
<1>7. TypeOK'
  BY <1>1, <1>2, <1>3, <1>4 DEF TypeOK
<1> HIDE DEF p
<1>8. ub'[r] = mid /\ \A q \in Ranks \ {r} : ub'[q] = ub[q]
  BY <1>1, <1>3
<1>9. \A q \in Ranks : /\ Fresh(q)' <=> Fresh(q)
                       /\ Reached(q)' <=> Reached(q)
                       /\ Forwarding(q)' <=> Forwarding(q)
                       /\ Sharing(q)' <=> Sharing(q)
                       /\ BufferOK(q)' <=> BufferOK(q)
  BY <1>1 DEF Fresh, Reached, Forwarding, Sharing, BufferOK, Filling
<1>10. IntervalsOK'
  BY <1>1, <1>4, <1>6, <1>8, <1>9 DEF RdzvInv, IntervalsOK
<1>11. \A x, q : InMessage(x, q)' <=> InMessage(x, q)
  BY DEF InMessage
<1>12. \A q \in Ranks : /\ InHand(r, q) <=> InHand(r, q)' \/ InMessage(p, q)
                        /\ ~(InHand(r, q)' /\ InMessage(p, q))
  BY <1>2, <1>4, <1>6, <1>8, <1>9 DEF InHand, InMessage
<1>13. \A q \in Ranks, s \in Ranks \ {r} : InHand(s, q)' <=> InHand(s, q)
  BY <1>8, <1>9 DEF InHand
<1>14. ~InMessage(p, r) /\ InMessage(p, sub.lb)
  <2>1. Covers(N, r, mid, r)
    BY <1>4, TeamOK DEF Covers
  <2>2. Covers(N, sub.lb, sub.ub, sub.lb)
    BY <1>4, TeamOK DEF Covers
  <2>3. QED
    BY <1>4, <1>6, <2>1, <2>2 DEF InMessage
<1>15. ToldOnce /\ NobodyForgotten
  BY DEF RdzvInv
<1>16. p \notin net
  BY <1>4, <1>12, <1>14, <1>15 DEF ToldOnce
<1>17. ToldOnce'
  BY <1>1, <1>9, <1>11, <1>12, <1>13, <1>14, <1>15 DEF ToldOnce
<1>18. NobodyForgotten'
  BY <1>1, <1>9, <1>11, <1>12, <1>13, <1>15 DEF NobodyForgotten
<1>19. RootOK' /\ twice' = {} /\ IsFiniteSet(net)'
  BY <1>1, FS_AddElement DEF RdzvInv, RootOK
<1>20. OnlySharedKnown'
  <2>1. Sharing(w)
    BY <1>1, <1>2, RdzvKnown DEF Sharing
  <2>2. QED
    BY <1>1, <1>6, <1>9, <2>1 DEF RdzvInv, OnlySharedKnown
<1>21. ASSUME NEW o \in Ranks
       PROVE  References(o)' = References(o)
  <2>1. Readers(o)' = Readers(o) /\ Copiers(o)' = Copiers(o)
    BY <1>1 DEF Readers, Copiers
  <2>2. \A q \in Ranks : Count(q)' = IF q = r THEN Count(r) - 1 ELSE Count(q)
    BY <1>5, <1>8 DEF Count
  <2>3. CASE o # w
    <3>1. InNet(o)' = InNet(o)
      BY <1>1, <1>6, <2>3 DEF InNet
    <3>2. Promised(o)' = Promised(o)
      BY <1>1, <2>2, <2>3 DEF Promised
    <3>3. QED
      BY <1>1, <2>1, <3>1, <3>2 DEF References
  <2>4. CASE o = w
    <3>1. InNet(o)' = InNet(o) \cup {p} /\ p \notin InNet(o)
      BY <1>1, <1>6, <1>16, <2>4 DEF InNet
    <3>2. Cardinality(InNet(o)') = Cardinality(InNet(o)) + 1
      BY <3>1, RdzvCountable, FS_AddElement
    <3>3. <<r, Count(r)>> \in Promised(o)
      BY <1>1, <1>5, <2>4, TeamOK DEF Promised
    <3>4. ASSUME NEW q \in Ranks, NEW k \in 1 .. N
          PROVE  k <= Count(q)' /\ pc[q] = "send" <=>
                 k <= Count(q) /\ pc[q] = "send" /\ <<q, k>> # <<r, Count(r)>>
      BY <1>1, <1>5, <2>2
    <3>5. Promised(o)' = Promised(o) \ {<<r, Count(r)>>}
      BY <1>1, <2>4, <3>4 DEF Promised
    <3>6. Cardinality(Promised(o)') = Cardinality(Promised(o)) - 1
      BY <3>3, <3>5, RdzvCountable, FS_RemoveElement, ZenonT(60)
    <3>7. QED
      BY <1>1, <1>2, <2>1, <3>2, <3>6, RdzvCountable DEF References, TypeOK
  <2>5. QED
    BY <2>3, <2>4
<1>22. CountsExact'
  BY <1>1, <1>9, <1>21 DEF RdzvInv, CountsExact
<1>23. QED
  BY <1>7, <1>9, <1>10, <1>17, <1>18, <1>19, <1>20, <1>22 DEF RdzvInv

LEMMA RdzvSendEnd ==
  ASSUME RdzvInv, NEW r \in Ranks, SendEnd(r)
  PROVE  RdzvInv'
<1>1. /\ pc[r] = "send" /\ Mid(Rdzv, r, ub[r]) = r
      /\ pc' = [pc EXCEPT ![r] = AfterForward(r)]
      /\ UNCHANGED <<m, net, ub, owner, src, loaded, refs, drops, frees, ran, buffer, twice>>
  BY DEF SendEnd, KeepBuffers
<1>2. TypeOK /\ Forwarding(r) /\ owner[r] \in Ranks /\ (r = Root \/ Reached(r))
  BY <1>1, RdzvOwned DEF RdzvInv, Forwarding
<1>3. Count(r) \in Nat /\ Count(r) = 0
  BY <1>1, <1>2, RdzvCount
<1>4. AfterForward(r) = IF r = Root THEN "home" ELSE "enqueue"
  BY <1>1, <1>2, TeamOK DEF RdzvInv, RootOK, Reached, AfterForward
<1>5. TypeOK' /\ twice' = {} /\ IsFiniteSet(net)'
  BY <1>1, <1>2, <1>4 DEF RdzvInv, TypeOK
<1>6. \A q \in Ranks : /\ Fresh(q)' <=> Fresh(q)
                       /\ Reached(q) /\ q # Root => Reached(q)'
                       /\ Forwarding(q)' <=> Forwarding(q) /\ q # r
                       /\ Sharing(q)' <=> Sharing(q)
                       /\ BufferOK(q)' <=> BufferOK(q)
  BY <1>1, <1>2, <1>4 DEF TypeOK, Fresh, Reached, Forwarding, Sharing, BufferOK, Filling
<1>7. IntervalsOK' /\ ToldOnce' /\ NobodyForgotten'
  BY <1>1, <1>6, RdzvTreeStays
<1>8. RootOK'
  BY <1>1, <1>2, <1>4 DEF RdzvInv, TypeOK, RootOK
<1>9. OnlySharedKnown'
  BY <1>1, <1>6 DEF RdzvInv, OnlySharedKnown
<1>10. ASSUME NEW o \in Ranks
       PROVE  References(o)' = References(o)
  <2>1. InNet(o)' = InNet(o) /\ Readers(o)' = Readers(o)
    BY <1>1, <1>2, <1>4 DEF TypeOK, InNet, Readers
  <2>2. Copiers(o)' = Copiers(o)
    <3>1. r = Root => src[r] # o
      BY TeamOK DEF RdzvInv, RootOK, NoRank
    <3>2. QED
      BY <1>1, <1>2, <1>4, <3>1 DEF Copiers, TypeOK
  <2>3. Promised(o)' = Promised(o)
    <3>1. \A q \in Ranks, k \in 1 .. N : k <= Count(q) /\ pc'[q] = "send" <=>
                                         k <= Count(q) /\ pc[q] = "send"
      BY <1>1, <1>2, <1>3, <1>4 DEF TypeOK
    <3>2. \A q : Count(q)' = Count(q)
      BY <1>1 DEF Count
    <3>3. QED
      BY <1>1, <3>1, <3>2 DEF Promised
  <2>4. QED
    BY <1>1, <2>1, <2>2, <2>3 DEF References
<1>11. CountsExact'
  BY <1>1, <1>6, <1>10 DEF RdzvInv, CountsExact
<1>12. QED
  BY <1>5, <1>6, <1>7, <1>8, <1>9, <1>11 DEF RdzvInv

\* What a message's arrival at rank k does to the tree, whichever way the rank reads it.
LEMMA RdzvArrival ==
  ASSUME RdzvInv, NEW p \in net, NEW k, k = p.to, TypeOK',
         net' = net \ {p},
         ub' = [ub EXCEPT ![k] = p.ub],
         Forwarding(k)', ~Fresh(k)',
         \A q \in Ranks \ {k} : /\ Fresh(q)' <=> Fresh(q)
                                /\ Forwarding(q)' <=> Forwarding(q)
  PROVE  IntervalsOK' /\ ToldOnce' /\ NobodyForgotten'
<1>1. TypeOK /\ IntervalsOK /\ ToldOnce /\ NobodyForgotten
  BY DEF RdzvInv
<1>2. k \in Ranks /\ InMessage(p, k) /\ Fresh(k)
  BY <1>1, RdzvCoversSelf DEF ToldOnce
<1>3. ub'[k] = p.ub /\ \A q \in Ranks \ {k} : ub'[q] = ub[q]
  BY <1>1, <1>2 DEF TypeOK
<1>4. IntervalsOK'
  BY <1>1, <1>2, <1>3 DEF IntervalsOK
<1>5. \A q \in Ranks : /\ InHand(k, q)' <=> InMessage(p, q)
                       /\ \A r \in Ranks \ {k} : InHand(r, q)' <=> InHand(r, q)
                       /\ ~InHand(k, q)
  BY <1>2, <1>3 DEF InHand, InMessage, Fresh, Forwarding
<1>6. \A x, q : InMessage(x, q)' <=> InMessage(x, q)
  BY DEF InMessage
<1>7. ToldOnce'
  BY <1>1, <1>2, <1>5, <1>6 DEF ToldOnce
<1>8. NobodyForgotten'
  BY <1>1, <1>2, <1>5, <1>6 DEF NobodyForgotten
<1>9. QED
  BY <1>4, <1>7, <1>8

\* A rank that a message is to reach has heard nothing, and the message is another's.
LEMMA RdzvAddressee ==
  ASSUME RdzvInv, NEW p \in net
  PROVE  /\ p.to \in Ranks /\ Fresh(p.to) /\ p.to # Root /\ ~Sharing(p.to)
         /\ p.owner \in Ranks /\ p.owner # p.to /\ Sharing(p.owner)
<1>1. p.to \in Ranks /\ Fresh(p.to)
  BY RdzvCoversSelf DEF RdzvInv, ToldOnce
<1>2. p.to # Root /\ ~Sharing(p.to)
  BY <1>1 DEF RdzvInv, RootOK, Fresh, Sharing
<1>3. p.owner \in Ranks /\ Sharing(p.owner)
  BY RdzvKnown
<1>4. QED
  BY <1>1, <1>2, <1>3

LEMMA RdzvReceiveLocal ==
  ASSUME RdzvInv, NEW p \in net, ReceiveLocal(p)
  PROVE  RdzvInv'
<1> DEFINE k == p.to
           w == p.owner
<1>1. /\ k \in Ranks /\ Fresh(k) /\ k # Root /\ ~Sharing(k)
      /\ w \in Ranks /\ w # k /\ Sharing(w)
  BY RdzvAddressee
<1>2. /\ net' = net \ {p}
      /\ m' = m \cup {k}
      /\ owner' = [owner EXCEPT ![k] = w]
      /\ ub' = [ub EXCEPT ![k] = p.ub]
      /\ pc' = [pc EXCEPT ![k] = "count"]
      /\ UNCHANGED <<src, loaded, refs, drops, frees, ran, buffer, twice>>
  BY DEF ReceiveLocal, KeepBuffers
<1>3. TypeOK /\ p.ub \in 0 .. 2 * N
  BY DEF RdzvInv, TypeOK
<1> HIDE DEF k, w
<1>4. TypeOK'
  BY <1>1, <1>2, <1>3 DEF TypeOK
<1>5. \A q \in Ranks \ {k} : /\ Fresh(q)' <=> Fresh(q)
                             /\ Reached(q)' <=> Reached(q)
                             /\ Forwarding(q)' <=> Forwarding(q)
                             /\ Sharing(q)' <=> Sharing(q)
                             /\ BufferOK(q)' <=> BufferOK(q)
  BY <1>1, <1>2, <1>3 DEF TypeOK, Fresh, Reached, Forwarding, Sharing, BufferOK, Filling
<1>6. ~Fresh(k)' /\ Forwarding(k)' /\ ~Sharing(k)' /\ BufferOK(k)'
  BY <1>1, <1>2, <1>3 DEF TypeOK, Fresh, Forwarding, Sharing, BufferOK, Filling
<1>7. Reached(k)'
  <2>1. NoRank # k
    BY <1>1, TeamOK DEF NoRank
  <2>2. QED
    BY <1>1, <1>2, <1>3, <2>1 DEF TypeOK, Fresh, Reached
<1>8. IntervalsOK' /\ ToldOnce' /\ NobodyForgotten'
  BY <1>2, <1>4, <1>5, <1>6, RdzvArrival DEF k
<1>9. RootOK' /\ twice' = {}
  BY <1>1, <1>2, <1>3 DEF RdzvInv, TypeOK, RootOK
<1>10. IsFiniteSet(net)'
  BY <1>2, FS_RemoveElement DEF RdzvInv
<1>11. OnlySharedKnown'
  <2>1. \A o \in Ranks : ~Sharing(o)' => ~Sharing(o) /\ o # w
    BY <1>1, <1>5, <1>6
  <2>2. \A r \in Ranks : owner'[r] = owner[r] \/ owner'[r] = w
    BY <1>2, <1>3 DEF TypeOK
  <2>3. QED
    BY <1>2, <2>1, <2>2 DEF RdzvInv, OnlySharedKnown
<1>12. ASSUME NEW o \in Ranks
       PROVE  References(o)' = References(o)
  <2>1. Copiers(o)' = Copiers(o)
    <3>1. src[k] # o
      BY <1>1, TeamOK DEF Fresh, NoRank
    <3>2. QED
      BY <1>1, <1>2, <1>3, <3>1 DEF TypeOK, Copiers
  <2>2. Promised(o)' = Promised(o)
    <3>1. \A q \in Ranks : q # k => /\ Count(q)' = Count(q)
                                    /\ pc'[q] = pc[q] /\ owner'[q] = owner[q]
      BY <1>1, <1>2, <1>3 DEF TypeOK, Count
    <3>2. pc[k] # "send" /\ pc'[k] # "send"
      BY <1>1, <1>2, <1>3 DEF TypeOK, Fresh
    <3>3. QED
      BY <3>1, <3>2 DEF Promised
  <2>3. CASE o # w
    <3>1. InNet(o)' = InNet(o) /\ Readers(o)' = Readers(o)
      BY <1>1, <1>2, <1>3, <2>3 DEF TypeOK, InNet, Readers, w, Fresh
    <3>2. QED
      BY <1>2, <2>1, <2>2, <3>1 DEF References
  <2>4. CASE o = w
    <3>1. InNet(o)' = InNet(o) \ {p} /\ p \in InNet(o)
      BY <1>2, <2>4 DEF InNet, w
    <3>2. Readers(o)' = Readers(o) \cup {k} /\ k \notin Readers(o)
      BY <1>1, <1>2, <1>3, <2>4 DEF TypeOK, Readers, Fresh
    <3>3. Cardinality(InNet(o)') = Cardinality(InNet(o)) - 1
      BY <3>1, RdzvCountable, FS_RemoveElement
    <3>4. Cardinality(Readers(o)') = Cardinality(Readers(o)) + 1
      BY <3>2, RdzvCountable, FS_AddElement
    <3>5. QED
      BY <1>2, <1>3, <2>1, <2>2, <3>3, <3>4, RdzvCountable DEF References, TypeOK
  <2>5. QED
    BY <2>3, <2>4
<1>13. CountsExact'
  BY <1>2, <1>5, <1>6, <1>12 DEF RdzvInv, CountsExact
<1>14. QED
  BY <1>4, <1>5, <1>7, <1>8, <1>9, <1>10, <1>11, <1>13 DEF RdzvInv

LEMMA RdzvReceiveRemote ==
  ASSUME RdzvInv, NEW p \in net, ReceiveRemote(p)
  PROVE  RdzvInv'
<1> DEFINE k == p.to
           w == p.owner
<1>1. /\ k \in Ranks /\ Fresh(k) /\ k # Root /\ ~Sharing(k)
      /\ w \in Ranks /\ w # k /\ Sharing(w)
  BY RdzvAddressee
<1>2. /\ net' = net \ {p}
      /\ m' = m \cup {k}
      /\ owner' = [owner EXCEPT ![k] = k]
      /\ src' = [src EXCEPT ![k] = w]
      /\ ub' = [ub EXCEPT ![k] = p.ub]
      /\ buffer' = [buffer EXCEPT ![k] = "live"]
      /\ pc' = [pc EXCEPT ![k] = "get"]
      /\ UNCHANGED <<loaded, refs, drops, frees, ran, twice>>
  BY DEF ReceiveRemote
<1>3. TypeOK /\ p.ub \in 0 .. 2 * N
  BY DEF RdzvInv, TypeOK
<1> HIDE DEF k, w
<1>4. TypeOK'
  BY <1>1, <1>2, <1>3 DEF TypeOK
<1>5. \A q \in Ranks \ {k} : /\ Fresh(q)' <=> Fresh(q)
                             /\ Reached(q)' <=> Reached(q)
                             /\ Forwarding(q)' <=> Forwarding(q)
                             /\ Sharing(q)' <=> Sharing(q)
                             /\ BufferOK(q)' <=> BufferOK(q)
  BY <1>1, <1>2, <1>3 DEF TypeOK, Fresh, Reached, Forwarding, Sharing, BufferOK, Filling
<1>6. ~Fresh(k)' /\ Forwarding(k)' /\ ~Sharing(k)' /\ BufferOK(k)'
  BY <1>1, <1>2, <1>3 DEF TypeOK, Fresh, Forwarding, Sharing, BufferOK, Filling
<1>7. Reached(k)'
  <2>1. NoRank # w
    BY <1>1, TeamOK DEF NoRank
  <2>2. QED
    BY <1>1, <1>2, <1>3, <2>1 DEF TypeOK, Fresh, Reached
<1>8. IntervalsOK' /\ ToldOnce' /\ NobodyForgotten'
  BY <1>2, <1>4, <1>5, <1>6, RdzvArrival DEF k
<1>9. RootOK' /\ twice' = {}
  BY <1>1, <1>2, <1>3 DEF RdzvInv, TypeOK, RootOK
<1>10. IsFiniteSet(net)'
  BY <1>2, FS_RemoveElement DEF RdzvInv
<1>11. OnlySharedKnown'
  <2>1. \A o \in Ranks : ~Sharing(o)' => ~Sharing(o) /\ o # w
    BY <1>1, <1>5, <1>6
  <2>2. \A r \in Ranks : /\ owner'[r] = owner[r] \/ owner'[r] = r
                         /\ src'[r] = src[r] \/ src'[r] = w
    BY <1>2, <1>3 DEF TypeOK
  <2>3. QED
    BY <1>2, <2>1, <2>2 DEF RdzvInv, OnlySharedKnown
<1>12. ASSUME NEW o \in Ranks
       PROVE  References(o)' = References(o)
  <2>1. Readers(o)' = Readers(o)
    BY <1>1, <1>2, <1>3 DEF TypeOK, Readers, Fresh
  <2>2. Promised(o)' = Promised(o)
    <3>1. \A q \in Ranks : q # k => /\ Count(q)' = Count(q)
                                    /\ pc'[q] = pc[q] /\ owner'[q] = owner[q]
      BY <1>1, <1>2, <1>3 DEF TypeOK, Count
    <3>2. pc[k] # "send" /\ pc'[k] # "send"
      BY <1>1, <1>2, <1>3 DEF TypeOK, Fresh
    <3>3. QED
      BY <3>1, <3>2 DEF Promised
  <2>3. src[k] # o
    BY <1>1, TeamOK DEF Fresh, NoRank
  <2>4. CASE o # w
    <3>1. InNet(o)' = InNet(o) /\ Copiers(o)' = Copiers(o)
      BY <1>1, <1>2, <1>3, <2>3, <2>4 DEF TypeOK, InNet, Copiers, w
    <3>2. QED
      BY <1>2, <2>1, <2>2, <3>1 DEF References
  <2>5. CASE o = w
    <3>1. InNet(o)' = InNet(o) \ {p} /\ p \in InNet(o)
      BY <1>2, <2>5 DEF InNet, w
    <3>2. Copiers(o)' = Copiers(o) \cup {k} /\ k \notin Copiers(o)
      BY <1>1, <1>2, <1>3, <2>3, <2>5 DEF TypeOK, Copiers
    <3>3. Cardinality(InNet(o)') = Cardinality(InNet(o)) - 1
      BY <3>1, RdzvCountable, FS_RemoveElement
    <3>4. Cardinality(Copiers(o)') = Cardinality(Copiers(o)) + 1
      BY <3>2, RdzvCountable, FS_AddElement
    <3>5. QED
      BY <1>2, <1>3, <2>1, <2>2, <3>3, <3>4, RdzvCountable DEF References, TypeOK
  <2>6. QED
    BY <2>4, <2>5
<1>13. CountsExact'
  BY <1>2, <1>5, <1>6, <1>12 DEF RdzvInv, CountsExact
<1>14. QED
  BY <1>4, <1>5, <1>7, <1>8, <1>9, <1>10, <1>11, <1>13 DEF RdzvInv

LEMMA RdzvGetDone ==
  ASSUME RdzvInv, NEW r \in Ranks, GetDone(r)
  PROVE  RdzvInv'
<1>1. /\ pc[r] = "get"
      /\ refs' = [refs EXCEPT ![r] = 1]
      /\ pc' = [pc EXCEPT ![r] = "count"]
      /\ UNCHANGED <<m, net, ub, owner, src, loaded, drops, frees, ran, buffer, twice>>
  BY DEF GetDone, KeepBuffers
<1>2. TypeOK /\ r # Root /\ Reached(r) /\ owner[r] = r /\ r \in m /\ ~Sharing(r)
  BY <1>1 DEF RdzvInv, RootOK, Fresh, Reached, Sharing
<1>3. refs[r] = 0 /\ frees[r] = 0
  <2>1. InNet(r) = {}
    BY <1>2 DEF RdzvInv, OnlySharedKnown, InNet
  <2>2. Readers(r) = {}
    BY <1>1, <1>2 DEF RdzvInv, TypeOK, OnlySharedKnown, Readers
  <2>3. Copiers(r) = {}
    BY <1>2 DEF RdzvInv, OnlySharedKnown, Copiers, Reached
  <2>4. Promised(r) = {}
    BY <1>1, <1>2 DEF RdzvInv, OnlySharedKnown, Promised
  <2>5. drops[r] = 0 /\ frees[r] = 0
    BY <1>2 DEF RdzvInv, OnlySharedKnown
  <2>6. References(r) = 0
    BY <2>1, <2>2, <2>3, <2>4, <2>5, FS_EmptySet DEF References
  <2>7. QED
    BY <2>5, <2>6 DEF RdzvInv, CountsExact
<1>4. TypeOK' /\ twice' = {} /\ IsFiniteSet(net)'
  BY <1>1, <1>2 DEF RdzvInv, TypeOK
<1>5. \A q \in Ranks : /\ Fresh(q)' <=> Fresh(q)
                       /\ Reached(q) => Reached(q)'
                       /\ Forwarding(q)' <=> Forwarding(q)
                       /\ Sharing(q)' <=> Sharing(q)
                       /\ q # r /\ BufferOK(q) => BufferOK(q)'
  BY <1>1, <1>2 DEF TypeOK, Fresh, Reached, Forwarding, Sharing, BufferOK, Filling
<1>6. BufferOK(r)'
  <2>1. buffer[r] = "live"
    BY <1>1 DEF RdzvInv, CountsExact, BufferOK, Filling
  <2>2. QED
    BY <1>1, <1>2, <1>3, <2>1 DEF TypeOK, BufferOK, Filling
<1>7. IntervalsOK' /\ ToldOnce' /\ NobodyForgotten'
  BY <1>1, <1>5, RdzvTreeStays
<1>8. RootOK'
  BY <1>1, <1>2 DEF RdzvInv, TypeOK, RootOK
<1>9. OnlySharedKnown'
  BY <1>1, <1>5 DEF RdzvInv, OnlySharedKnown
<1>10. ASSUME NEW o \in Ranks
       PROVE  (refs[o] = References(o))'
  <2>1. InNet(o)' = InNet(o) /\ Copiers(o)' = Copiers(o)
    BY <1>1, <1>2 DEF TypeOK, InNet, Copiers
  <2>2. Promised(o)' = Promised(o)
    <3>1. \A q : Count(q)' = Count(q)
      BY <1>1 DEF Count
    <3>2. QED
      BY <1>1, <1>2, <3>1 DEF TypeOK, Promised
  <2>3. refs[o] = References(o)
    BY DEF RdzvInv, CountsExact
  <2>4. CASE o # r
    <3>1. Readers(o)' = Readers(o)
      BY <1>1, <1>2, <2>4 DEF TypeOK, Readers
    <3>2. References(o)' = References(o)
      BY <1>1, <2>1, <2>2, <3>1 DEF References
    <3>3. QED
      BY <1>1, <1>2, <2>3, <2>4, <3>2 DEF TypeOK
  <2>5. CASE o = r
    <3>1. Readers(o)' = Readers(o) \cup {r} /\ r \notin Readers(o)
      BY <1>1, <1>2, <2>5 DEF TypeOK, Readers
    <3>2. Cardinality(Readers(o)') = Cardinality(Readers(o)) + 1
      BY <3>1, RdzvCountable, FS_AddElement
    <3>3. References(o)' = References(o) + 1
      BY <1>1, <1>2, <2>1, <2>2, <3>2, RdzvCountable DEF References, TypeOK
    <3>4. QED
      BY <1>1, <1>2, <1>3, <2>3, <2>5, <3>3 DEF TypeOK
  <2>6. QED
    BY <2>4, <2>5
<1>11. QED
  BY <1>4, <1>5, <1>6, <1>7, <1>8, <1>9, <1>10 DEF RdzvInv, CountsExact

LEMMA RdzvEnqueue ==
  ASSUME RdzvInv, NEW r \in Ranks, Enqueue(r)
  PROVE  RdzvInv'
<1> DEFINE w == src[r]
<1>1. /\ pc[r] = "enqueue"
      /\ pc' = [pc EXCEPT ![r] = "queued"]
      /\ drops' = IF w = NoRank THEN drops ELSE [drops EXCEPT ![w] = @ + 1]
      /\ UNCHANGED <<m, net, ub, owner, src, loaded, refs, frees, ran, buffer, twice>>
  BY DEF Enqueue, KeepBuffers
<1>2. TypeOK /\ r # Root /\ Reached(r)
  BY <1>1, RdzvOwned DEF RdzvInv, RootOK
<1>3. w # NoRank => w \in Ranks /\ Sharing(w) /\ pc[w] # "idle"
  BY <1>2, RdzvKnown DEF TypeOK, Sharing
<1>4. TypeOK' /\ twice' = {} /\ IsFiniteSet(net)'
  BY <1>1, <1>2, <1>3 DEF RdzvInv, TypeOK
<1>5. \A q \in Ranks : /\ Fresh(q)' <=> Fresh(q)
                       /\ Reached(q) => Reached(q)'
                       /\ Forwarding(q)' <=> Forwarding(q)
                       /\ Sharing(q)' <=> Sharing(q)
                       /\ BufferOK(q) => BufferOK(q)'
  BY <1>1, <1>2, <1>3 DEF TypeOK, Fresh, Reached, Forwarding, Sharing, BufferOK, Filling
<1>6. IntervalsOK' /\ ToldOnce' /\ NobodyForgotten'
  BY <1>1, <1>5, RdzvTreeStays
<1>7. RootOK'
  BY <1>1, <1>2 DEF RdzvInv, TypeOK, RootOK
<1>8. OnlySharedKnown'
  <2>1. \A o \in Ranks : ~Sharing(o) => drops'[o] = drops[o]
    BY <1>1, <1>2, <1>3 DEF TypeOK
  <2>2. QED
    BY <1>1, <1>5, <2>1 DEF RdzvInv, OnlySharedKnown
<1>9. ASSUME NEW o \in Ranks
      PROVE  References(o)' = References(o)
  <2>1. InNet(o)' = InNet(o) /\ Readers(o)' = Readers(o)
    BY <1>1, <1>2 DEF TypeOK, InNet, Readers
  <2>2. Promised(o)' = Promised(o)
    <3>1. \A q : Count(q)' = Count(q)
      BY <1>1 DEF Count
    <3>2. QED
      BY <1>1, <1>2, <3>1 DEF TypeOK, Promised
  <2>3. NoRank # o
    BY TeamOK DEF NoRank
  <2>4. CASE o # w
    <3>1. Copiers(o)' = Copiers(o)
      BY <1>1, <1>2, <2>4 DEF TypeOK, Copiers
    <3>2. drops'[o] = drops[o]
      BY <1>1, <1>2, <1>3, <2>4 DEF TypeOK
    <3>3. QED
      BY <2>1, <2>2, <3>1, <3>2 DEF References
  <2>5. CASE o = w
    <3>1. Copiers(o)' = Copiers(o) \ {r} /\ r \in Copiers(o)
      BY <1>1, <1>2, <2>5 DEF TypeOK, Copiers
    <3>2. Cardinality(Copiers(o)') = Cardinality(Copiers(o)) - 1
      BY <3>1, RdzvCountable, FS_RemoveElement
    <3>3. drops'[o] = drops[o] + 1
      BY <1>1, <1>2, <2>3, <2>5 DEF TypeOK
    <3>4. QED
      BY <1>2, <2>1, <2>2, <3>2, <3>3, RdzvCountable DEF References, TypeOK
  <2>6. QED
    BY <2>4, <2>5
<1>10. CountsExact'
  BY <1>1, <1>5, <1>9 DEF RdzvInv, CountsExact
<1>11. QED
  BY <1>4, <1>5, <1>6, <1>7, <1>8, <1>10 DEF RdzvInv

LEMMA RdzvExecute ==
  ASSUME RdzvInv, NEW r \in Ranks, Execute(r)
  PROVE  RdzvInv'
<1> DEFINE w == owner[r]
<1>1. /\ pc[r] = "queued"
      /\ pc' = [pc EXCEPT ![r] = "home"]
      /\ m' = m \ {r}
      /\ ran' = [ran EXCEPT ![r] = @ + 1]
      /\ refs' = [refs EXCEPT ![w] = @ - 1]
      /\ frees' = IF refs[w] = 1 /\ w # r THEN [frees EXCEPT ![w] = @ + 1] ELSE frees
      /\ UNCHANGED <<net, ub, owner, src, loaded, drops>>
  BY DEF Execute
<1>2. TypeOK /\ r # Root /\ Reached(r) /\ w \in Ranks /\ r \in m
  BY <1>1, RdzvOwned DEF RdzvInv, RootOK, Reached
<1>3. Sharing(w) /\ pc[w] # "idle"
  BY <1>1, <1>2, RdzvKnown DEF Sharing
<1>4. refs[w] \in Nat /\ refs[w] > 0
  <2>1. r \in Readers(w)
    BY <1>1, <1>2 DEF Readers
  <2>2. Cardinality(Readers(w)) > 0
    BY <1>2, <2>1, RdzvCountable, FS_EmptySet
  <2>3. References(w) > 0
    BY <1>2, <2>2, RdzvCountable DEF References, TypeOK
  <2>4. QED
    BY <1>2, <2>3 DEF RdzvInv, CountsExact, TypeOK
<1>5. BufferOK(w) /\ frees[w] = 0 /\ buffer[w] = "live" /\ ~Filling(w) /\ pc[w] # "store"
  BY <1>2, <1>3, <1>4 DEF RdzvInv, TypeOK, CountsExact, BufferOK, Sharing, Filling
<1>6. twice' = {} /\ buffer' = IF refs[w] = 1 /\ w = r
                               THEN [buffer EXCEPT ![r] = "freed"] ELSE buffer
  BY <1>5 DEF Execute, Deallocate, KeepBuffers, RdzvInv
<1> HIDE DEF w
<1>7. TypeOK' /\ IsFiniteSet(net)'
  BY <1>1, <1>2, <1>4, <1>6 DEF RdzvInv, TypeOK
<1>8. \A q \in Ranks : /\ Fresh(q)' <=> Fresh(q)
                       /\ Reached(q) => Reached(q)'
                       /\ Forwarding(q)' <=> Forwarding(q)
                       /\ Sharing(q)' <=> Sharing(q)
                       /\ Filling(q)' <=> Filling(q)
  <2>1. Fresh(r)' <=> Fresh(r)
    BY <1>1, <1>2 DEF TypeOK, Fresh
  <2>2. \A q \in Ranks : q # r => (Fresh(q)' <=> Fresh(q))
    BY <1>1, <1>2, <1>3, <1>6 DEF TypeOK, Fresh
  <2>3. Reached(r)'
    BY <1>1, <1>2 DEF TypeOK, Reached
  <2>4. QED
    BY <1>1, <1>2, <2>1, <2>2, <2>3 DEF TypeOK, Reached, Forwarding, Sharing, Filling
<1>9. IntervalsOK' /\ ToldOnce' /\ NobodyForgotten'
  BY <1>1, <1>8, RdzvTreeStays
<1>10. RootOK'
  BY <1>1, <1>2 DEF RdzvInv, TypeOK, RootOK
<1>11. OnlySharedKnown'
  <2>1. \A o \in Ranks : ~Sharing(o) => frees'[o] = frees[o]
    BY <1>1, <1>2, <1>3 DEF TypeOK
  <2>2. QED
    BY <1>1, <1>8, <2>1 DEF RdzvInv, OnlySharedKnown
<1>12. ASSUME NEW o \in Ranks
       PROVE  BufferOK(o)'
  <2>1. CASE o # w
    <3>1. refs'[o] = refs[o] /\ frees'[o] = frees[o] /\ buffer'[o] = buffer[o]
      BY <1>1, <1>2, <1>6, <2>1 DEF TypeOK
    <3>2. pc'[o] = "store" => pc[o] = "store"
      BY <1>1, <1>2 DEF TypeOK
    <3>3. BufferOK(o)
      BY DEF RdzvInv, CountsExact
    <3>4. QED
      BY <1>1, <1>8, <3>1, <3>2, <3>3 DEF BufferOK
  <2>2. CASE o = w
    <3>1. refs'[o] = refs[o] - 1
      BY <1>1, <1>2, <2>2 DEF TypeOK
    <3>2. frees'[o] = IF refs[o] = 1 /\ o # r THEN 1 ELSE 0
      BY <1>1, <1>2, <1>5, <2>2 DEF TypeOK
    <3>3. buffer'[o] = IF refs[o] = 1 /\ o = r THEN "freed" ELSE "live"
      BY <1>5, <1>6, <1>2, <2>2 DEF TypeOK
    <3>4. pc'[o] # "store"
      BY <1>1, <1>2, <1>5, <2>2 DEF TypeOK
    <3>5. QED
      BY <1>4, <1>5, <1>8, <2>2, <3>1, <3>2, <3>3, <3>4 DEF BufferOK
  <2>3. QED
    BY <2>1, <2>2
<1>13. ASSUME NEW o \in Ranks
       PROVE  (refs[o] = References(o))'
  <2>1. InNet(o)' = InNet(o) /\ Copiers(o)' = Copiers(o)
    BY <1>1, <1>2 DEF TypeOK, InNet, Copiers
  <2>2. Promised(o)' = Promised(o)
    <3>1. \A q : Count(q)' = Count(q)
      BY <1>1 DEF Count
    <3>2. QED
      BY <1>1, <1>2, <3>1 DEF TypeOK, Promised
  <2>3. refs[o] = References(o)
    BY DEF RdzvInv, CountsExact
  <2>4. CASE o # w
    <3>1. Readers(o)' = Readers(o)
      BY <1>1, <1>2, <2>4 DEF TypeOK, Readers, w
    <3>2. References(o)' = References(o)
      BY <1>1, <2>1, <2>2, <3>1 DEF References
    <3>3. QED
      BY <1>1, <1>2, <2>3, <2>4, <3>2 DEF TypeOK
  <2>5. CASE o = w
    <3>1. Readers(o)' = Readers(o) \ {r} /\ r \in Readers(o)
      BY <1>1, <1>2, <2>5 DEF TypeOK, Readers, w
    <3>2. Cardinality(Readers(o)') = Cardinality(Readers(o)) - 1
      BY <3>1, RdzvCountable, FS_RemoveElement
    <3>3. References(o)' = References(o) - 1
      BY <1>1, <1>2, <2>1, <2>2, <3>2, RdzvCountable DEF References, TypeOK
    <3>4. QED
      BY <1>1, <1>2, <2>3, <2>5, <3>3 DEF TypeOK
  <2>6. QED
    BY <2>4, <2>5
<1>14. QED
  BY <1>6, <1>7, <1>8, <1>9, <1>10, <1>11, <1>12, <1>13 DEF RdzvInv, CountsExact

LEMMA RdzvHandleDrop ==
  ASSUME RdzvInv, NEW w \in Ranks, HandleDrop(w)
  PROVE  RdzvInv'
<1>1. /\ drops[w] > 0
      /\ drops' = [drops EXCEPT ![w] = @ - 1]
      /\ refs' = [refs EXCEPT ![w] = @ - 1]
      /\ UNCHANGED <<m, net, pc, ub, owner, src, loaded, frees, ran>>
  BY DEF HandleDrop
<1>2. TypeOK /\ Sharing(w) /\ pc[w] # "idle"
  BY <1>1, RdzvKnown DEF RdzvInv, Sharing
<1>3. refs[w] \in Nat /\ refs[w] > 0
  <2>1. References(w) > 0
    BY <1>1, <1>2, RdzvCountable DEF References, TypeOK
  <2>2. QED
    BY <1>2, <2>1 DEF RdzvInv, CountsExact, TypeOK
<1>4. frees[w] = 0 /\ buffer[w] = "live" /\ ~Filling(w) /\ pc[w] # "store"
  BY <1>2, <1>3 DEF RdzvInv, TypeOK, CountsExact, BufferOK, Sharing, Filling
<1>5. twice' = {} /\ buffer' = IF refs[w] = 1 THEN [buffer EXCEPT ![w] = "freed"] ELSE buffer
  BY <1>4 DEF HandleDrop, Deallocate, KeepBuffers, RdzvInv
<1>6. TypeOK' /\ IsFiniteSet(net)'
  BY <1>1, <1>2, <1>3, <1>5 DEF RdzvInv, TypeOK
<1>7. \A q \in Ranks : /\ Fresh(q)' <=> Fresh(q)
                       /\ Reached(q)' <=> Reached(q)
                       /\ Forwarding(q)' <=> Forwarding(q)
                       /\ Sharing(q)' <=> Sharing(q)
                       /\ Filling(q)' <=> Filling(q)
  BY <1>1, <1>2, <1>5 DEF TypeOK, Fresh, Reached, Forwarding, Sharing, Filling
<1>8. IntervalsOK' /\ ToldOnce' /\ NobodyForgotten'
  BY <1>1, <1>7, RdzvTreeStays
<1>9. RootOK'
  BY <1>1 DEF RdzvInv, RootOK
<1>10. OnlySharedKnown'
  <2>1. \A o \in Ranks : ~Sharing(o) => drops'[o] = drops[o]
    BY <1>1, <1>2 DEF TypeOK
  <2>2. QED
    BY <1>1, <1>7, <2>1 DEF RdzvInv, OnlySharedKnown
<1>11. ASSUME NEW o \in Ranks
       PROVE  BufferOK(o)'
  BY <1>1, <1>2, <1>3, <1>4, <1>5, <1>7 DEF RdzvInv, CountsExact, TypeOK, BufferOK
<1>12. ASSUME NEW o \in Ranks
       PROVE  (refs[o] = References(o))'
  <2>1. InNet(o)' = InNet(o) /\ Copiers(o)' = Copiers(o) /\ Readers(o)' = Readers(o)
    BY <1>1 DEF InNet, Copiers, Readers
  <2>2. Promised(o)' = Promised(o)
    BY <1>1 DEF Count, Promised
  <2>3. refs[o] = References(o)
    BY DEF RdzvInv, CountsExact
  <2>4. References(o)' = References(o) - (IF o = w THEN 1 ELSE 0)
    BY <1>1, <1>2, <2>1, <2>2, RdzvCountable DEF References, TypeOK
  <2>5. QED
    BY <1>1, <1>2, <2>3, <2>4 DEF TypeOK
<1>13. QED
  BY <1>5, <1>6, <1>7, <1>8, <1>9, <1>10, <1>11, <1>12 DEF RdzvInv, CountsExact

LEMMA RdzvHandleFree ==
  ASSUME RdzvInv, NEW w \in Ranks, HandleFree(w)
  PROVE  RdzvInv'
<1>1. /\ frees[w] > 0
      /\ frees' = [frees EXCEPT ![w] = @ - 1]
      /\ UNCHANGED <<m, net, pc, ub, owner, src, loaded, refs, drops, ran>>
  BY DEF HandleFree
<1>2. TypeOK /\ Sharing(w) /\ pc[w] # "idle"
  BY <1>1, RdzvKnown DEF RdzvInv, Sharing
<1>3. refs[w] = 0 /\ frees[w] = 1 /\ buffer[w] = "live" /\ ~Filling(w)
  BY <1>1, <1>2 DEF RdzvInv, TypeOK, CountsExact, BufferOK, Sharing, Filling
<1>4. twice' = {} /\ buffer' = [buffer EXCEPT ![w] = "freed"]
  BY <1>3 DEF HandleFree, Deallocate, RdzvInv
<1>5. TypeOK' /\ IsFiniteSet(net)'
  BY <1>1, <1>2, <1>3, <1>4 DEF RdzvInv, TypeOK
<1>6. \A q \in Ranks : /\ Fresh(q)' <=> Fresh(q)
                       /\ Reached(q)' <=> Reached(q)
                       /\ Forwarding(q)' <=> Forwarding(q)
                       /\ Sharing(q)' <=> Sharing(q)
                       /\ Filling(q)' <=> Filling(q)
  BY <1>1, <1>2, <1>4 DEF TypeOK, Fresh, Reached, Forwarding, Sharing, Filling
<1>7. IntervalsOK' /\ ToldOnce' /\ NobodyForgotten'
  BY <1>1, <1>6, RdzvTreeStays
<1>8. RootOK'
  BY <1>1 DEF RdzvInv, RootOK
<1>9. OnlySharedKnown'
  <2>1. \A o \in Ranks : ~Sharing(o) => frees'[o] = frees[o]
    BY <1>1, <1>2 DEF TypeOK
  <2>2. QED
    BY <1>1, <1>6, <2>1 DEF RdzvInv, OnlySharedKnown
<1>10. ASSUME NEW o \in Ranks
       PROVE  BufferOK(o)'
  BY <1>1, <1>2, <1>3, <1>4, <1>6 DEF RdzvInv, CountsExact, TypeOK, BufferOK
<1>11. ASSUME NEW o \in Ranks
       PROVE  References(o)' = References(o)
  <2>1. InNet(o)' = InNet(o) /\ Copiers(o)' = Copiers(o) /\ Readers(o)' = Readers(o)
    BY <1>1 DEF InNet, Copiers, Readers
  <2>2. Promised(o)' = Promised(o)
    BY <1>1 DEF Count, Promised
  <2>3. QED
    BY <1>1, <2>1, <2>2 DEF References
<1>12. CountsExact'
  BY <1>1, <1>10, <1>11 DEF RdzvInv, CountsExact
<1>13. QED
  BY <1>4, <1>5, <1>6, <1>7, <1>8, <1>9, <1>12 DEF RdzvInv

LEMMA RdzvStutter == ASSUME RdzvInv, UNCHANGED vars PROVE RdzvInv'
<1>1. \A o : References(o)' = References(o)
  BY DEF vars, References, InNet, Readers, Copiers, Promised, Count
<1>2. \A o : BufferOK(o)' <=> BufferOK(o)
  BY DEF vars, BufferOK, Filling
<1>3. \A q : (Fresh(q)' <=> Fresh(q)) /\ (Reached(q)' <=> Reached(q))
  BY DEF vars, Fresh, Reached
<1>4. TypeOK' /\ twice' = {} /\ IsFiniteSet(net)' /\ RootOK' /\ OnlySharedKnown'
  BY DEF vars, RdzvInv, TypeOK, RootOK, OnlySharedKnown, Sharing
<1>5. IntervalsOK' /\ ToldOnce' /\ NobodyForgotten'
  BY <1>3, RdzvTreeStays DEF vars, Forwarding
<1>6. QED
  BY <1>1, <1>2, <1>3, <1>4, <1>5 DEF vars, RdzvInv, CountsExact

LEMMA RdzvStep ==
  ASSUME RdzvInv, [Next]_vars
  PROVE  RdzvInv'
<1>1. ASSUME NEW p \in net, Receive(p) PROVE RdzvInv'
  BY <1>1, RdzvReceiveLocal, RdzvReceiveRemote DEF Receive
<1>2. ASSUME NEW r \in Ranks, Step(r) PROVE RdzvInv'
  BY <1>2, RdzvLoadRefs, RdzvStoreRefs, RdzvAddRefs, RdzvSend, RdzvSendEnd, RdzvGetDone,
     RdzvEnqueue, RdzvExecute, RdzvHandleDrop, RdzvHandleFree DEF Step
<1>3. QED
  BY <1>1, <1>2, RdzvStutter DEF Next, Stop

\* What the invariant of the rendezvous protocol says of the buffers, and of the end.
LEMMA RdzvMeans ==
  ASSUME RdzvInv
  PROVE  /\ NoUseAfterFree /\ BuffersReclaimed
         /\ Terminated => \A r \in Ranks \ {Root} : ran[r] = 1
<1>1. ASSUME NEW o \in Ranks,
             InNet(o) # {} \/ Readers(o) # {} \/ Copiers(o) # {} \/ Promised(o) # {} \/ Filling(o)
      PROVE  buffer[o] = "live"
  <2>1. CASE Filling(o)
    BY <2>1 DEF RdzvInv, CountsExact, BufferOK
  <2>2. CASE InNet(o) # {} \/ Readers(o) # {} \/ Copiers(o) # {} \/ Promised(o) # {}
    <3>1. \/ Cardinality(InNet(o)) # 0 \/ Cardinality(Readers(o)) # 0
          \/ Cardinality(Copiers(o)) # 0 \/ Cardinality(Promised(o)) # 0
      BY <2>2, RdzvCountable, FS_EmptySet
    <3>2. References(o) > 0
      BY <3>1, RdzvCountable, SMTT(60) DEF RdzvInv, TypeOK, References
    <3>3. QED
      BY <3>2 DEF RdzvInv, CountsExact, BufferOK
  <2>3. QED
    BY <1>1, <2>1, <2>2
<1>2. ASSUME NEW r \in Ranks, NEW o \in Ranks, Reads(r, o)
      PROVE  buffer[o] = "live"
  <2>1. CASE pc[r] = "get" /\ src[r] = o
    <3>1. r \in Copiers(o)
      BY <2>1 DEF Copiers
    <3>2. QED
      BY <3>1, <1>1
  <2>2. CASE r \in m /\ owner[r] = o /\ pc[r] \in {"count", "store", "send", "enqueue", "queued"}
    <3>1. r \in Readers(o)
      BY <2>2 DEF Readers
    <3>2. QED
      BY <3>1, <1>1
  <2>3. CASE r = Root /\ owner[r] = o /\ pc[r] \in {"count", "store"}
    <3>1. Filling(o)
      BY <2>3 DEF RdzvInv, RootOK, Filling
    <3>2. QED
      BY <3>1, <1>1
  <2>4. CASE owner[r] = o /\ pc[r] = "send" /\ Mid(Rdzv, r, ub[r]) # r
    <3>1. Count(r) \in Nat /\ Count(r) # 0
      BY <2>4, RdzvCount DEF Forwarding
    <3>2. <<r, 1>> \in Promised(o)
      BY <2>4, <3>1, TeamOK DEF Promised
    <3>3. QED
      BY <3>2, <1>1
  <2>5. pc[r] \in {"count", "store"} => r = Root \/ r \in m
    BY RdzvOwned DEF Reached
  <2>6. QED
    BY <1>2, <2>1, <2>2, <2>3, <2>4, <2>5 DEF Reads
<1>3. ASSUME NEW p \in net
      PROVE  buffer[p.owner] = "live"
  <2>1. p.owner \in Ranks /\ p \in InNet(p.owner)
    BY RdzvKnown DEF InNet
  <2>2. QED
    BY <1>1, <2>1
<1>4. NoUseAfterFree
  BY <1>2, <1>3 DEF NoUseAfterFree, RdzvInv
<1>5. ASSUME Terminated, NEW o \in Ranks
      PROVE  buffer[o] # "live"
  <2>1. InNet(o) = {} /\ Copiers(o) = {} /\ Promised(o) = {}
    BY <1>5 DEF Terminated, InNet, Copiers, Promised
  <2>2. Readers(o) = {}
    <3>1. ASSUME NEW r \in m PROVE FALSE
      <4>1. r \in Ranks /\ pc[r] \in {"idle", "home"}
        BY <1>5 DEF RdzvInv, TypeOK, Terminated
      <4>2. QED
        BY <4>1 DEF RdzvInv, RootOK, Fresh, Reached
    <3>2. QED
      BY <3>1 DEF Readers
  <2>3. drops[o] = 0 /\ frees[o] = 0 /\ ~Filling(o)
    BY <1>5 DEF Terminated, Zero, Filling
  <2>4. References(o) = 0
    BY <2>1, <2>2, <2>3, FS_EmptySet DEF References
  <2>5. QED
    BY <2>3, <2>4 DEF RdzvInv, CountsExact, BufferOK
<1>6. ASSUME Terminated, NEW r \in Ranks \ {Root}
      PROVE  ran[r] = 1
  <2>1. \A q \in Ranks : ~Fresh(q)
    BY <1>6 DEF RdzvInv, NobodyForgotten, InHand, Forwarding, Terminated
  <2>2. QED
    BY <1>6, <2>1 DEF RdzvInv, Reached, Terminated
<1>7. QED
  BY <1>4, <1>5, <1>6 DEF BuffersReclaimed

-----------------------------------------------------------------------------
(* Both protocols                                                          *)

LEMMA AmInitially == AmInit => AmInv
<1> SUFFICES ASSUME AmInit
             PROVE  AmInv
  OBVIOUS
<1>1. RdzvInv /\ Direct!EagerInv /\ protocol \in {"eager", "rdzv"}
  BY RdzvInitially, EagerInitially DEF AmInit
<1>2. TypeOK /\ Direct!TypeOK
  BY <1>1 DEF RdzvInv, Direct!EagerInv
<1>3. NoUseAfterFree /\ BlockLife
  BY <1>1, RdzvMeans, EagerMeans DEF BlockLife
<1>4. pc[Root] = "count"
  BY TeamOK DEF AmInit, Init
<1>5. QED
  BY <1>1, <1>2, <1>3, <1>4 DEF AmInv

LEMMA AmStep ==
  ASSUME AmInv, [AmNext]_amVars
  PROVE  AmInv'
<1>1. CASE ByEager(Direct!Next)
  <2>1. /\ protocol = "eager" /\ protocol' = "eager" /\ Direct!Next
        /\ UNCHANGED rdzvVars
    BY <1>1 DEF ByEager
  <2>2. Direct!EagerInv /\ TypeOK /\ NoUseAfterFree /\ pc[Root] = "count"
    BY <2>1 DEF AmInv
  <2>3. Direct!EagerInv'
    BY <2>1, <2>2, EagerStep
  <2>4. ran' \in [Ranks -> Nat]
    BY <2>3, SameTree DEF Direct!EagerInv, Direct!TypeOK
  <2>5. TypeOK'
    BY <2>1, <2>2, <2>4 DEF rdzvVars, TypeOK
  <2>6. NoUseAfterFree' /\ pc'[Root] = "count"
    BY <2>1, <2>2 DEF rdzvVars, NoUseAfterFree, Reads
  <2>7. QED
    BY <2>1, <2>3, <2>5, <2>6 DEF AmInv
<1>2. CASE ByRdzv(Next)
  <2>1. protocol = "rdzv" /\ protocol' = "rdzv" /\ Next /\ UNCHANGED eagerVars
    BY <1>2 DEF ByRdzv
  <2>2. RdzvInv /\ Direct!TypeOK /\ BlockLife
    BY <2>1 DEF AmInv
  <2>3. RdzvInv'
    BY <2>1, <2>2, RdzvStep
  <2>4. ran' \in [Ranks -> Nat]
    BY <2>3 DEF RdzvInv, TypeOK
  <2>5. Direct!TypeOK'
    BY <2>1, <2>2, <2>4, SameTree DEF eagerVars, Direct!TypeOK
  <2>6. BlockLife'
    BY <2>1, <2>2, SameTree DEF eagerVars, BlockLife, Direct!BlockLife
  <2>7. QED
    BY <2>1, <2>3, <2>5, <2>6 DEF AmInv
<1>3. CASE UNCHANGED amVars
  <2>1. protocol' = protocol /\ UNCHANGED vars /\ UNCHANGED <<eagerVars, ran>>
    BY <1>3 DEF amVars, rdzvVars, eagerVars, vars
  <2>2. Direct!EagerInv => Direct!EagerInv'
    BY <2>1, EagerStep
  <2>3. RdzvInv => RdzvInv'
    BY <2>1, RdzvStutter
  <2>4. TypeOK => TypeOK'
    BY <2>1 DEF vars, TypeOK
  <2>5. NoUseAfterFree => NoUseAfterFree'
    BY <2>1 DEF vars, NoUseAfterFree, Reads
  <2>6. Direct!TypeOK => Direct!TypeOK'
    BY <2>1, SameTree DEF eagerVars, Direct!TypeOK
  <2>7. BlockLife => BlockLife'
    BY <2>1, SameTree DEF eagerVars, BlockLife, Direct!BlockLife
  <2>8. pc'[Root] = pc[Root]
    BY <2>1 DEF vars
  <2>9. QED
    BY <2>1, <2>2, <2>3, <2>4, <2>5, <2>6, <2>7, <2>8 DEF AmInv
<1>4. QED
  BY <1>1, <1>2, <1>3 DEF AmNext

LEMMA AmMeans == AmInv => BroadcastMemory
<1> SUFFICES ASSUME AmInv
             PROVE  BroadcastMemory
  OBVIOUS
<1>1. CASE protocol = "eager"
  <2>1. Direct!EagerInv /\ TypeOK /\ NoUseAfterFree /\ pc[Root] = "count"
    BY <1>1 DEF AmInv
  <2>2. BlockLife /\ (Direct!Terminated => \A r \in Ranks \ {Root} : ran[r] = 1)
    BY <2>1, EagerMeans DEF BlockLife
  <2>3. BuffersReclaimed
    BY <2>1, TeamOK DEF BuffersReclaimed, Terminated
  <2>4. AmTypeOK /\ NobodyMissed
    BY <1>1, <2>1, <2>2 DEF AmTypeOK, Direct!EagerInv, NobodyMissed, Quiet
  <2>5. QED
    BY <2>1, <2>2, <2>3, <2>4 DEF BroadcastMemory
<1>2. CASE protocol = "rdzv"
  <2>1. RdzvInv /\ Direct!TypeOK /\ BlockLife
    BY <1>2 DEF AmInv
  <2>2. /\ NoUseAfterFree /\ BuffersReclaimed
        /\ Terminated => \A r \in Ranks \ {Root} : ran[r] = 1
    BY <2>1, RdzvMeans
  <2>3. AmTypeOK /\ NobodyMissed
    BY <1>2, <2>1, <2>2 DEF AmTypeOK, RdzvInv, NobodyMissed, Quiet
  <2>4. QED
    BY <2>1, <2>2, <2>3 DEF BroadcastMemory
<1>3. QED
  BY <1>1, <1>2 DEF AmInv

\* AmInv holds throughout a broadcast, whatever its protocol.
THEOREM BroadcastInvariant == AmSpec => []AmInv
BY AmInitially, AmStep, PTL DEF AmSpec

\* For any team, root, assignment of ranks to nodes and split: what a broadcast shares
\* (am_bcast_master_eager, bcast_am_master_rdzv) is not read after it was freed, freed
\* twice or kept, and when all is quiet every rank has run the rpc.
THEOREM BroadcastSafe == AmSpec => []BroadcastMemory
BY BroadcastInvariant, AmMeans, PTL

\* A step of either protocol runs the rpc at one rank that has not run it, or at none.
LEMMA AmStepPromised ==
  ASSUME AmInv, [AmNext]_amVars
  PROVE  [Promise!Next]_ran
<1>1. ASSUME NEW r \in Ranks, ran' = [ran EXCEPT ![r] = @ + 1], ran[r] = 0, r # Root
      PROVE  Promise!Next
  <2>1. ran' = [ran EXCEPT ![r] = 1]
    BY <1>1
  <2>2. QED
    BY <1>1, <2>1 DEF Promise!Next, Promise!Run
<1>2. CASE ByEager(Direct!Next)
  <2>1. Direct!EagerInv /\ Direct!Next
    BY <1>2 DEF ByEager, AmInv
  <2>2. ASSUME NEW r \in Ranks, Direct!Execute(r)
        PROVE  Promise!Next
    <3>1. r # Root /\ ~Direct!Fresh(r) /\ Direct!Reached(r)
      BY <2>1, <2>2, SameTree DEF Direct!EagerInv, Direct!Execute, Direct!RootOK, Direct!Fresh
    <3>2. QED
      BY <1>1, <2>2, <3>1 DEF Direct!Execute, Direct!Reached
  <2>3. ran' = ran \/ \E r \in Ranks : Direct!Execute(r)
    BY <2>1, SameTree DEF Direct!Next, Direct!Receive, Direct!Step, Direct!EnqueueRpc,
       Direct!BeginForward, Direct!SendPiece, Direct!EndForward, Direct!Stop, Direct!vars
  <2>4. QED
    BY <2>2, <2>3
<1>3. CASE ByRdzv(Next)
  <2>1. RdzvInv /\ Next
    BY <1>3 DEF ByRdzv, AmInv
  <2>2. ASSUME NEW r \in Ranks, Execute(r)
        PROVE  Promise!Next
    <3>1. r # Root /\ Reached(r)
      BY <2>1, <2>2, RdzvOwned DEF RdzvInv, Execute, RootOK
    <3>2. QED
      BY <1>1, <2>2, <3>1 DEF Execute, Reached
  <2>3. ran' = ran \/ \E r \in Ranks : Execute(r)
    BY <2>1 DEF Next, Receive, ReceiveLocal, ReceiveRemote, Step, LoadRefs, StoreRefs, AddRefs,
       Send, SendEnd, GetDone, Enqueue, HandleDrop, HandleFree, Stop, vars
  <2>4. QED
    BY <2>2, <2>3
<1>4. CASE UNCHANGED amVars
  BY <1>4 DEF amVars
<1>5. QED
  BY <1>2, <1>3, <1>4 DEF AmNext

\* bcast_am_master keeps its promise: every rank but the root runs the rpc at most once.
THEOREM BroadcastRefines == AmSpec => Broadcasts
<1>1. AmInit => Promise!Init
  BY DEF AmInit, Init, Zero, Promise!Init
<1>2. QED
  BY <1>1, BroadcastInvariant, AmStepPromised, PTL DEF AmSpec, Broadcasts, Promise!Spec

=============================================================================
