-------------------------- MODULE HandleCbQueueProofs --------------------------
(***************************************************************************)
(* CbInv is an inductive invariant of HandleCbQueue: for any number of     *)
(* callbacks and any limits the list is never broken by the callbacks that *)
(* extend it while it is scanned, and nothing runs early or twice.         *)
(***************************************************************************)
EXTENDS HandleCbQueue, FiniteSetTheorems, TLAPS

-----------------------------------------------------------------------------
(* Following the list                                                      *)

\* A set of natural numbers has a least element: induction, in a form without predicates.
LEMMA LeastNat ==
  ASSUME NEW S \in SUBSET Nat, S # {}
  PROVE  \E n \in S : \A k \in S : n <= k
<1> DEFINE R == OpToRel(<, Nat)
<1>1. IsWellFoundedOn(R, Nat)
  BY NatLessThanWellFounded
<1> HIDE DEF R
<1>2. PICK n \in S : \A k \in S : <<k, n>> \notin R
  BY <1>1, WFMin
<1>3. ASSUME NEW k \in S
      PROVE  n <= k
  <2>1. <<k, n>> \notin R
    BY <1>2
  <2>2. k \in Nat /\ n \in Nat
    BY <1>2
  <2>3. ~(k < n)
    BY <2>1, <2>2 DEF R, OpToRel
  <2>4. QED
    BY <2>2, <2>3
<1>4. QED
  BY <1>2, <1>3

\* The first n steps from a along g.
Steps(g, a, S, n) ==
  {h \in [0 .. n -> S] : h[0] = a /\ \A i \in 1 .. n : h[i] = g[h[i - 1]]}

LEMMA StepsExist ==
  ASSUME NEW S, NEW g \in [S -> S], NEW a \in S
  PROVE  \A n \in Nat : Steps(g, a, S, n) # {}
<1> DEFINE Bad == {n \in Nat : Steps(g, a, S, n) = {}}
<1> SUFFICES ASSUME Bad # {}
             PROVE  FALSE
  OBVIOUS
<1>1. PICK n \in Bad : \A k \in Bad : n <= k
  BY LeastNat
<1>2. n \in Nat /\ Steps(g, a, S, n) = {}
  BY <1>1
<1>3. CASE n = 0
  <2>1. [i \in 0 .. 0 |-> a] \in Steps(g, a, S, 0)
    BY DEF Steps
  <2>2. QED
    BY <2>1, <1>2, <1>3
<1>4. CASE n # 0
  <2>1. n - 1 \in Nat /\ n - 1 \notin Bad
    BY <1>1, <1>2, <1>4
  <2>2. PICK h \in Steps(g, a, S, n - 1) : TRUE
    BY <2>1
  <2>3. h \in [0 .. n - 1 -> S] /\ h[0] = a /\ \A i \in 1 .. n - 1 : h[i] = g[h[i - 1]]
    BY <2>2 DEF Steps
  <2> DEFINE f == [i \in 0 .. n |-> IF i < n THEN h[i] ELSE g[h[n - 1]]]
  <2>4. h[n - 1] \in S /\ g[h[n - 1]] \in S
    BY <2>1, <2>3
  <2>5. f \in [0 .. n -> S]
    BY <1>2, <2>3, <2>4
  <2>6. f[0] = a /\ \A i \in 1 .. n : f[i] = g[f[i - 1]]
    BY <1>2, <1>4, <2>3
  <2>7. f \in Steps(g, a, S, n)
    BY <2>5, <2>6 DEF Steps
  <2>8. QED
    BY <2>7, <1>2
<1>5. QED
  BY <1>3, <1>4

LEMMA StepsAgree ==
  ASSUME NEW S, NEW g \in [S -> S], NEW a \in S, NEW n \in Nat, NEW k \in Nat,
         NEW f \in Steps(g, a, S, n), NEW h \in Steps(g, a, S, k), NEW i \in Nat, i <= n, i <= k
  PROVE  f[i] = h[i]
<1> DEFINE Bad == {e \in Nat : e <= n /\ e <= k /\ f[e] # h[e]}
<1> SUFFICES ASSUME Bad # {}
             PROVE  FALSE
  OBVIOUS
<1>1. PICK e \in Bad : \A c \in Bad : e <= c
  BY LeastNat
<1>2. e \in Nat /\ e <= n /\ e <= k /\ f[e] # h[e]
  BY <1>1
<1>3. e # 0
  BY <1>2 DEF Steps
<1>4. e - 1 \in Nat /\ e - 1 \notin Bad
  BY <1>1, <1>2, <1>3
<1>5. f[e - 1] = h[e - 1]
  BY <1>2, <1>4
<1>6. f[e] = g[f[e - 1]] /\ h[e] = g[h[e - 1]]
  BY <1>2, <1>3 DEF Steps
<1>7. QED
  BY <1>2, <1>5, <1>6

\* The recursive definition of Reach defines it.
LEMMA ReachUnfold ==
  ASSUME TypeOK
  PROVE  Reach = [i \in Nat |-> IF i = 0 THEN 0 ELSE Follow[Reach[i - 1]]]
<1> DEFINE S == Slots \cup {Unlinked}
           one(n) == CHOOSE h \in Steps(Follow, 0, S, n) : TRUE
           f == [i \in Nat |-> one(i)[i]]
           c == CHOOSE h : h = [i \in Nat |-> IF i = 0 THEN 0 ELSE Follow[h[i - 1]]]
<1>1. Follow \in [S -> S] /\ 0 \in S
  BY HandleCbQueueAssumption DEF TypeOK, Follow, Slots, Unlinked
<1> HIDE DEF S
<1>2. \A n \in Nat : one(n) \in Steps(Follow, 0, S, n)
  BY <1>1, StepsExist
<1> HIDE DEF one
<1>3. ASSUME NEW i \in Nat
      PROVE  f[i] = IF i = 0 THEN 0 ELSE Follow[f[i - 1]]
  <2>1. CASE i = 0
    BY <1>2, <2>1 DEF Steps
  <2>2. CASE i # 0
    <3>1. i - 1 \in Nat /\ i - 1 <= i
      BY <2>2
    <3>2. one(i)[i] = Follow[one(i)[i - 1]]
      BY <1>2, <2>2 DEF Steps
    <3>3. one(i)[i - 1] = one(i - 1)[i - 1]
      BY <1>1, <1>2, <3>1, StepsAgree
    <3>4. QED
      BY <2>2, <3>1, <3>2, <3>3
  <2>3. QED
    BY <2>1, <2>2
<1>4. f = [i \in Nat |-> IF i = 0 THEN 0 ELSE Follow[f[i - 1]]]
  BY <1>3
<1> HIDE DEF f
<1>5. c = [i \in Nat |-> IF i = 0 THEN 0 ELSE Follow[c[i - 1]]]
  BY <1>4
<1>6. Reach = c
  BY DEF Reach
<1>7. QED
  BY <1>5, <1>6

\* A chain of the list is what following the list gives.
LEMMA ChainReach ==
  ASSUME TypeOK, NEW n \in Nat, NEW q, Chain(q, n)
  PROVE  \A i \in 0 .. n : Reach[i] = q[i]
<1> DEFINE Bad == {i \in Nat : i <= n /\ Reach[i] # q[i]}
<1> SUFFICES ASSUME Bad # {}
             PROVE  FALSE
  OBVIOUS
<1>1. PICK i \in Bad : \A k \in Bad : i <= k
  BY LeastNat
<1>2. i \in Nat /\ i <= n /\ Reach[i] # q[i]
  BY <1>1
<1>3. Reach[i] = IF i = 0 THEN 0 ELSE Follow[Reach[i - 1]]
  BY <1>2, ReachUnfold
<1>4. i # 0
  BY <1>2, <1>3 DEF Chain
<1>5. i - 1 \in 0 .. n /\ i - 1 \notin Bad
  BY <1>1, <1>2, <1>4
<1>6. Reach[i - 1] = q[i - 1] /\ q[i - 1] \in Slots /\ q[i] = next[q[i - 1]]
  BY <1>2, <1>4, <1>5 DEF Chain
<1>7. \A s \in Slots : Follow[s] = next[s]
  BY HandleCbQueueAssumption DEF Follow, Slots, Unlinked
<1>8. QED
  BY <1>2, <1>3, <1>4, <1>6, <1>7

\* The slots of a chain are 0 and the waiting callbacks, each once.
LEMMA ChainFacts ==
  ASSUME TypeOK, NEW n \in Nat, NEW q, Chain(q, n)
  PROVE  /\ \A i \in 1 .. n : q[i] \in Waiting /\ q[i] \in Cbs /\ q[i] <= created
         /\ \A c \in Waiting : \E i \in 1 .. n : q[i] = c
<1>1. Waiting \subseteq 1 .. created /\ created \in Slots
  BY DEF Waiting, TypeOK
<1>2. \A i \in 1 .. n : q[i] \in Waiting
  BY DEF Chain
<1>3. \A c \in Waiting : \E i \in 1 .. n : q[i] = c
  BY DEF Chain
<1>4. \A c \in Waiting : c \in Cbs /\ c <= created
  BY <1>1, HandleCbQueueAssumption DEF Slots, Cbs
<1>5. QED
  BY <1>2, <1>3, <1>4

LEMMA WaitingFinite ==
  ASSUME TypeOK
  PROVE  IsFiniteSet(Waiting) /\ Cardinality(Waiting) \in Nat
<1>1. IsFiniteSet(1 .. created)
  BY HandleCbQueueAssumption, FS_Interval DEF TypeOK, Slots
<1>2. Waiting \subseteq 1 .. created
  BY DEF Waiting
<1>3. QED
  BY <1>1, <1>2, FS_Subset, FS_CardinalityType

\* The list of an invariant state, and back.
LEMMA TakeChain ==
  ASSUME CbInv
  PROVE  \E n \in Nat : n = Cardinality(Waiting) /\ \E q : Chain(q, n)
BY WaitingFinite DEF CbInv, Linked

LEMMA GiveChain ==
  ASSUME NEW n \in Nat, n = Cardinality(Waiting'), NEW q, Chain(q, n)'
  PROVE  Linked'
BY DEF Chain, Linked

LEMMA DoneFinite ==
  ASSUME TypeOK
  PROVE  IsFiniteSet(done) /\ Cardinality(done) \in Nat /\ Cardinality(done) <= MaxCbs
<1>1. IsFiniteSet(Cbs) /\ Cardinality(Cbs) = MaxCbs
  BY HandleCbQueueAssumption, FS_Interval DEF Cbs
<1>2. done \subseteq Cbs
  BY DEF TypeOK
<1>3. QED
  BY <1>1, <1>2, FS_Subset, FS_CardinalityType

\* The list is exact whenever it has a chain.
LEMMA ListMeans == CbInv => ListExact
<1> SUFFICES ASSUME CbInv
             PROVE  ListExact
  OBVIOUS
<1>n. PICK n \in Nat : n = Cardinality(Waiting) /\ \E q : Chain(q, n)
  BY TakeChain
<1>1. PICK q : n = Cardinality(Waiting) /\ Chain(q, n)
  BY <1>n
<1>2. \A i \in 0 .. n : Reach[i] = q[i]
  BY <1>1, ChainReach DEF CbInv
<1>3. {Reach[i] : i \in 1 .. n} = Waiting
  BY <1>1, <1>2 DEF Chain
<1>4. tailp = Reach[n] /\ next[tailp] = 0
  BY <1>1, <1>2 DEF Chain
<1>5. pc # "out" => \E i \in 0 .. n : pp = Reach[i]
  BY <1>1, <1>2 DEF Chain
<1>6. QED
  BY <1>1, <1>3, <1>4, <1>5 DEF ListExact

-----------------------------------------------------------------------------
(* The steps                                                               *)

LEMMA CbInitially == Init => CbInv
<1> SUFFICES ASSUME Init
             PROVE  CbInv
  OBVIOUS
<1> USE HandleCbQueueAssumption DEF Init
<1>1. TypeOK
  <2>1. MissSlack * AbortCap \in Nat
    OBVIOUS
  <2>2. miss \in -(MissSlack * AbortCap) .. limit
    BY <2>1
  <2>3. next \in [Slots -> 0 .. MaxCbs + 1] /\ 0 \in Slots
    BY DEF Slots, Unlinked
  <2>4. limit \in MissBase .. MissBase + AbortCap
    OBVIOUS
  <2>5. aborted \in 0 .. AbortCap /\ added \in 0 .. InCallback
    OBVIOUS
  <2>6. QED
    BY <2>2, <2>3, <2>4, <2>5 DEF TypeOK
<1>2. CallbacksOK
  BY DEF CallbacksOK, Cbs, Slots
<1>3. BurstOK
  BY FS_EmptySet DEF BurstOK
<1>4. Waiting = {} /\ Cardinality(Waiting) = 0
  BY FS_EmptySet DEF Waiting
<1> DEFINE q == [i \in 0 .. 0 |-> 0]
<1>5. Chain(q, 0) /\ q \in [0 .. 0 -> Slots]
  BY <1>4 DEF Chain, Slots
<1> HIDE DEF q
<1>6. Linked
  BY <1>4, <1>5 DEF Linked
<1>7. QED
  BY <1>1, <1>2, <1>3, <1>6 DEF CbInv

\* A step that leaves the list and what waits alone keeps the chain.
LEMMA ChainStays ==
  ASSUME CbInv, UNCHANGED list, Waiting' = Waiting,
         pc' # "out" => (pc # "out" /\ pp' = pp) \/ pp' = 0
                        \/ (pc # "out" /\ next[pp] # 0 /\ pp' = next[pp])
  PROVE  Linked'
<1>n. PICK n \in Nat : n = Cardinality(Waiting) /\ \E q : Chain(q, n)
  BY TakeChain
<1>1. PICK q : n = Cardinality(Waiting) /\ Chain(q, n)
  BY <1>n
<1>2. ASSUME pc' # "out"
      PROVE  \E i \in 0 .. n : pp' = q[i]
  <2>1. CASE pp' = 0
    BY <1>1, <2>1 DEF Chain
  <2>2. CASE pc # "out" /\ pp' = pp
    BY <1>1, <2>2 DEF Chain
  <2>3. CASE pc # "out" /\ next[pp] # 0 /\ pp' = next[pp]
    <3>1. PICK i \in 0 .. n : pp = q[i]
      BY <1>1, <2>3 DEF Chain
    <3>2. i # n
      BY <1>1, <2>3, <3>1 DEF Chain
    <3>3. i + 1 \in 1 .. n /\ (i + 1) - 1 = i
      BY <3>1, <3>2
    <3>4. q[i + 1] = next[q[i]]
      BY <1>1, <3>3 DEF Chain
    <3>5. QED
      BY <2>3, <3>1, <3>3, <3>4
  <2>4. QED
    BY <1>2, <2>1, <2>2, <2>3
<1>3. Chain(q, n)'
  BY <1>1, <1>2 DEF Chain, list
<1>4. QED
  BY <1>1, <1>3, GiveChain

LEMMA CbCompletes ==
  ASSUME CbInv, NEW c \in Cbs, Completes(c)
  PROVE  CbInv'
<1> USE DEF Completes, list, world, frame
<1>1. TypeOK'
  BY DEF CbInv, TypeOK
<1>2. CallbacksOK'
  BY HandleCbQueueAssumption DEF CbInv, TypeOK, CallbacksOK, Cbs, Slots
<1>3. BurstOK'
  BY DEF CbInv, BurstOK
<1>4. Waiting' = Waiting
  BY DEF Waiting
<1>5. Linked'
  BY <1>4, ChainStays
<1>6. QED
  BY <1>1, <1>2, <1>3, <1>5 DEF CbInv

LEMMA CbBurstBegin ==
  ASSUME CbInv, NEW s \in BOOLEAN, BurstBegin(s)
  PROVE  CbInv'
<1> DEFINE a == IF s THEN aborted ELSE 0
<1>1. /\ pc = "out" /\ pc' = "scan" /\ spin' = s /\ pp' = 0
      /\ limit' = MissBase + a /\ miss' = -(MissSlack * a) /\ execs' = 0
      /\ UNCHANGED <<next, tailp, aborted, created, srcs, ready, done, cur, added>>
  BY DEF BurstBegin, list, world
<1>2. a \in 0 .. AbortCap
  BY HandleCbQueueAssumption DEF CbInv, TypeOK
<1> HIDE DEF a
<1>3. MissSlack * a \in Nat /\ MissSlack * a <= MissSlack * AbortCap
  BY <1>2, HandleCbQueueAssumption
<1>4. limit' \in MissBase .. MissBase + AbortCap /\ miss' < limit'
  BY <1>1, <1>2, <1>3, HandleCbQueueAssumption
<1>5. miss' \in -(MissSlack * AbortCap) .. limit'
  BY <1>1, <1>2, <1>3, HandleCbQueueAssumption
<1>6. TypeOK'
  BY <1>1, <1>4, <1>5, HandleCbQueueAssumption DEF CbInv, TypeOK, Slots
<1>7. CallbacksOK'
  BY <1>1 DEF CbInv, CallbacksOK
<1>8. BurstOK'
  BY <1>1, <1>4, DoneFinite DEF CbInv, BurstOK
<1>9. Waiting' = Waiting
  BY <1>1 DEF Waiting
<1>10. Linked'
  BY <1>1, <1>9, ChainStays DEF list
<1>11. QED
  BY <1>6, <1>7, <1>8, <1>10 DEF CbInv

LEMMA CbBurstMiss ==
  ASSUME CbInv, BurstMiss
  PROVE  CbInv'
<1>1. /\ pc = "scan" /\ next[pp] # 0 /\ miss + 1 # limit
      /\ miss' = miss + 1 /\ pp' = next[pp]
      /\ UNCHANGED <<next, tailp, aborted, created, srcs, ready, done, pc, spin, limit, execs,
                     cur, added>>
  BY DEF BurstMiss, list, world
<1>2. pp' \in Slots
  <2>n. PICK n \in Nat : n = Cardinality(Waiting) /\ \E q : Chain(q, n)
    BY TakeChain
  <2>1. PICK q : n = Cardinality(Waiting) /\ Chain(q, n)
    BY <2>n
  <2>2. PICK i \in 0 .. n : pp = q[i]
    BY <1>1, <2>1 DEF Chain
  <2>3. i # n
    BY <1>1, <2>1, <2>2 DEF Chain
  <2>4. i + 1 \in 0 .. n /\ i + 1 \in 1 .. n /\ (i + 1) - 1 = i
    BY <2>2, <2>3
  <2>5. q[i + 1] = next[q[i]] /\ q[i + 1] \in Slots
    BY <2>1, <2>4 DEF Chain
  <2>6. QED
    BY <1>1, <2>2, <2>5
<1>3. limit \in Int /\ miss \in Int /\ miss < limit /\ -(MissSlack * AbortCap) <= miss
  BY HandleCbQueueAssumption DEF CbInv, TypeOK, BurstOK
<1>4. miss' < limit' /\ miss' \in -(MissSlack * AbortCap) .. limit'
  BY <1>1, <1>3, HandleCbQueueAssumption
<1>5. TypeOK'
  BY <1>1, <1>2, <1>4 DEF CbInv, TypeOK
<1>6. CallbacksOK' /\ BurstOK'
  BY <1>1, <1>4 DEF CbInv, CallbacksOK, BurstOK
<1>7. Waiting' = Waiting
  BY <1>1 DEF Waiting
<1>8. Linked'
  BY <1>1, <1>7, ChainStays DEF list
<1>9. QED
  BY <1>5, <1>6, <1>8 DEF CbInv

\* burst() returns, having found the end of the list or too many misses.
LEMMA CbLeave ==
  ASSUME CbInv, pc = "scan", Leave, aborted' \in 0 .. AbortCap,
         UNCHANGED <<list, world, ready, done, cur, added>>
  PROVE  CbInv'
<1> USE DEF Leave, list, world
<1>1. TypeOK'
  <2>1. 0 \in Slots /\ MissBase \in MissBase .. MissBase + AbortCap
    BY HandleCbQueueAssumption DEF Slots
  <2>2. 0 \in -(MissSlack * AbortCap) .. MissBase
    <3>1. MissSlack * AbortCap \in Nat
      BY HandleCbQueueAssumption
    <3>2. QED
      BY <3>1, HandleCbQueueAssumption
  <2>3. QED
    BY <2>1, <2>2 DEF CbInv, TypeOK
<1>2. CallbacksOK'
  BY DEF CbInv, CallbacksOK
<1>3. BurstOK'
  BY DoneFinite, HandleCbQueueAssumption DEF CbInv, BurstOK
<1>4. Waiting' = Waiting
  BY DEF Waiting
<1>5. Linked'
  BY <1>4, ChainStays
<1>6. QED
  BY <1>1, <1>2, <1>3, <1>5 DEF CbInv

LEMMA CbRegister ==
  ASSUME CbInv, NEW k \in {1, 2}, Register(k)
  PROVE  CbInv'
<1>0. PICK c : c = created + 1
  OBVIOUS
<1>1. /\ pc # "scan" /\ created + k <= MaxCbs
      /\ next' = [next EXCEPT ![c] = 0, ![tailp] = c] /\ tailp' = c
      /\ created' = created + k
      /\ srcs' = IF k = 2 THEN srcs \cup {c} ELSE srcs
      /\ added' = added \/ (added' = added + 1 /\ added < InCallback)
      /\ UNCHANGED <<aborted, ready, done, pc, spin, pp, miss, limit, execs, cur>>
  BY <1>0 DEF Register, Enqueue
<1>2. TypeOK /\ CallbacksOK /\ BurstOK
  BY DEF CbInv
<1>3. created \in Nat /\ MaxCbs \in Nat /\ created < MaxCbs /\ c \in Cbs /\ c \in Slots
  BY <1>0, <1>1, <1>2, HandleCbQueueAssumption DEF TypeOK, Slots, Cbs
<1>n. PICK n \in Nat : n = Cardinality(Waiting) /\ \E q : Chain(q, n)
  BY TakeChain
<1>4. PICK q : n = Cardinality(Waiting) /\ Chain(q, n)
  BY <1>n
<1>5. /\ \A i \in 1 .. n : q[i] \in Waiting /\ q[i] \in Cbs /\ q[i] <= created
      /\ \A x \in Waiting : \E i \in 1 .. n : q[i] = x
  BY <1>2, <1>4, ChainFacts
<1>6. ASSUME NEW i \in 0 .. n
      PROVE  q[i] # c /\ q[i] \in Slots
  <2>1. q[i] \in Slots /\ q[0] = 0
    BY <1>4 DEF Chain
  <2>2. CASE i = 0
    BY <1>0, <1>3, <2>1, <2>2
  <2>3. CASE i \in 1 .. n
    BY <1>0, <1>3, <1>5, <2>1, <2>3 DEF Cbs
  <2>4. QED
    BY <2>2, <2>3
<1>7. tailp = q[n] /\ tailp # c /\ tailp \in Slots
  BY <1>4, <1>6 DEF Chain
<1>8. next' \in [Slots -> 0 .. MaxCbs + 1] /\ next'[c] = 0 /\ next'[tailp] = c
      /\ \A s \in Slots : s # c /\ s # tailp => next'[s] = next[s]
  BY <1>0, <1>1, <1>2, <1>3, <1>7 DEF TypeOK
<1>9. TypeOK'
  <2>1. created' \in Slots /\ srcs' \subseteq Cbs /\ added' \in 0 .. InCallback
    BY <1>0, <1>1, <1>2, <1>3, HandleCbQueueAssumption DEF TypeOK, Slots
  <2>2. QED
    BY <1>0, <1>1, <1>2, <1>3, <1>8, <2>1 DEF TypeOK
<1>10. \A x \in srcs : x \in Nat /\ x + 1 <= created
  BY <1>2 DEF TypeOK, CallbacksOK, Cbs
<1>11. CallbacksOK'
  <2>1. \A x \in srcs' : x + 1 <= created' /\ x + 1 \notin srcs'
    BY <1>0, <1>1, <1>2, <1>3, <1>10 DEF CallbacksOK
  <2>2. done' \subseteq ready' /\ ready' \subseteq 1 .. created'
    BY <1>0, <1>1, <1>2, <1>3 DEF CallbacksOK
  <2>3. \A x \in done' : x - 1 \in srcs' => x - 1 \in done'
    BY <1>0, <1>1, <1>2, <1>3 DEF CallbacksOK
  <2>4. ASSUME NEW x \in Cbs, x > created' \/ x - 1 \in srcs' \ done'
        PROVE  next'[x] = Unlinked
    <3>1. x \in Nat /\ x # c
      BY <1>0, <1>1, <1>3, <1>10, <2>4 DEF Cbs
    <3>2. x > created \/ x - 1 \in srcs \ done
      BY <1>0, <1>1, <1>3, <2>4, <3>1
    <3>3. next[x] = Unlinked
      BY <1>2, <3>2 DEF CallbacksOK
    <3>4. x # tailp
      BY <1>0, <1>3, <1>4, <3>3 DEF Chain, Unlinked
    <3>5. x \in Slots
      BY <1>0, <1>3 DEF Cbs, Slots
    <3>6. QED
      BY <1>8, <3>1, <3>3, <3>4, <3>5
  <2>5. QED
    BY <2>1, <2>2, <2>3, <2>4 DEF CallbacksOK
<1>12. BurstOK'
  <2>1. cur' \in ready' => cur' <= created
    BY <1>0, <1>1, <1>2, <1>3 DEF CallbacksOK
  <2>2. cur' \in ready' /\ cur' - 1 \in srcs' => cur - 1 \in srcs
    BY <1>0, <1>1, <1>2, <1>3, <2>1 DEF TypeOK, Slots
  <2>3. QED
    BY <1>1, <1>2, <2>2 DEF BurstOK
<1>13. Waiting' = Waiting \cup {c} /\ c \notin Waiting
  <2>1. c \notin done /\ (pc = "call" => cur # c)
    BY <1>0, <1>2, <1>3 DEF CallbacksOK, BurstOK
  <2>2. c \notin Waiting
    BY <1>0, <1>3 DEF Waiting
  <2>3. c \in Waiting'
    BY <1>0, <1>1, <1>3, <1>10, <2>1 DEF Waiting
  <2>4. ASSUME NEW x \in 1 .. created
        PROVE  x \in Waiting' <=> x \in Waiting
    BY <1>0, <1>1, <1>3, <1>10 DEF Waiting
  <2>5. ASSUME NEW x \in Waiting'
        PROVE  x \in 1 .. created \/ x = c
    <3>1. x \in 1 .. created + k /\ (x - 1 \in srcs' => x - 1 \in done)
      BY <1>1 DEF Waiting
    <3>2. x = created + 2 => x - 1 \in srcs' /\ x - 1 = c
      BY <1>0, <1>1, <1>3, <3>1
    <3>3. QED
      BY <1>0, <1>3, <2>1, <3>1, <3>2
  <2>6. Waiting \subseteq 1 .. created
    BY DEF Waiting
  <2>7. QED
    BY <2>2, <2>3, <2>4, <2>5, <2>6
<1>14. Cardinality(Waiting') = n + 1
  BY <1>2, <1>4, <1>13, WaitingFinite, FS_AddElement
<1> DEFINE w == [i \in 0 .. n + 1 |-> IF i <= n THEN q[i] ELSE c]
<1>15. Chain(w, n + 1)'
  <2>1. w \in [0 .. n + 1 -> Slots]
    BY <1>0, <1>3, <1>6
  <2>2. w[0] = 0 /\ w[n + 1] = c
    BY <1>4 DEF Chain
  <2>3. ASSUME NEW i \in 1 .. n + 1
        PROVE  w[i] = next'[w[i - 1]]
    <3>1. CASE i = n + 1
      BY <1>7, <1>8, <3>1
    <3>2. CASE i <= n
      <4>1. i \in 1 .. n /\ i - 1 \in 0 .. n /\ i - 1 # n
        BY <3>2
      <4>2. q[i] = next[q[i - 1]] /\ q[i - 1] # tailp
        BY <1>4, <1>7, <4>1 DEF Chain
      <4>3. next'[q[i - 1]] = next[q[i - 1]]
        BY <1>6, <1>8, <4>1, <4>2
      <4>4. QED
        BY <3>2, <4>1, <4>2, <4>3
    <3>3. QED
      BY <3>1, <3>2
  <2>4. \A i, j \in 0 .. n + 1 : w[i] = w[j] => i = j
    <3>1. \A i, j \in 0 .. n : q[i] = q[j] => i = j
      BY <1>4 DEF Chain
    <3>2. QED
      BY <1>6, <3>1
  <2>5. {w[i] : i \in 1 .. n + 1} = Waiting'
    <3>1. ASSUME NEW i \in 1 .. n + 1
          PROVE  w[i] \in Waiting'
      BY <1>5, <1>13
    <3>2. ASSUME NEW x \in Waiting'
          PROVE  \E i \in 1 .. n + 1 : w[i] = x
      <4>1. CASE x = c
        BY <2>2, <4>1
      <4>2. CASE x \in Waiting
        <5>1. PICK i \in 1 .. n : q[i] = x
          BY <1>5, <4>2
        <5>2. i \in 1 .. n + 1 /\ w[i] = x
          BY <5>1
        <5>3. QED
          BY <5>2
      <4>3. QED
        BY <1>13, <4>1, <4>2
    <3> HIDE DEF w
    <3>3. QED
      BY <3>1, <3>2
  <2>6. pc' # "out" => \E i \in 0 .. n + 1 : pp' = w[i]
    <3>1. SUFFICES ASSUME pc' # "out"
                   PROVE  \E i \in 0 .. n + 1 : pp' = w[i]
      OBVIOUS
    <3>2. PICK i \in 0 .. n : pp = q[i]
      BY <1>1, <1>4, <3>1 DEF Chain
    <3>3. QED
      BY <1>1, <3>2
  <2> HIDE DEF w
  <2>7. QED
    BY <1>1, <1>8, <2>1, <2>2, <2>3, <2>4, <2>5, <2>6 DEF Chain
<1> HIDE DEF w
<1>16. Linked'
  BY <1>14, <1>15, GiveChain
<1>17. QED
  BY <1>9, <1>11, <1>12, <1>16 DEF CbInv

LEMMA CbBurstHit ==
  ASSUME CbInv, BurstHit
  PROVE  CbInv'
<1>0. PICK p : p = next[pp]
  OBVIOUS
<1>1. /\ pc = "scan" /\ p # 0 /\ p \in ready
      /\ next' = [next EXCEPT ![pp] = next[p]]
      /\ tailp' = IF next[p] = 0 THEN pp ELSE tailp
      /\ pc' = "call" /\ cur' = p /\ added' = 0
      /\ UNCHANGED <<aborted, created, srcs, ready, done, spin, pp, miss, limit, execs>>
  BY <1>0 DEF BurstHit, Unlink, world
<1>2. TypeOK /\ CallbacksOK /\ BurstOK
  BY DEF CbInv
<1>n. PICK n \in Nat : n = Cardinality(Waiting) /\ \E q : Chain(q, n)
  BY TakeChain
<1>3. PICK q : n = Cardinality(Waiting) /\ Chain(q, n)
  BY <1>n
<1>4. /\ \A i \in 1 .. n : q[i] \in Waiting /\ q[i] \in Cbs /\ q[i] <= created
      /\ \A x \in Waiting : \E i \in 1 .. n : q[i] = x
  BY <1>2, <1>3, ChainFacts
<1>5. /\ q \in [0 .. n -> Slots] /\ q[0] = 0 /\ q[n] = tailp /\ next[tailp] = 0
      /\ \A i \in 1 .. n : q[i] = next[q[i - 1]]
      /\ \A i, j \in 0 .. n : q[i] = q[j] => i = j
  BY <1>3 DEF Chain
<1>6. PICK j \in 0 .. n : pp = q[j]
  BY <1>1, <1>3 DEF Chain
<1>7. j < n /\ q[j + 1] = p
  <2>1. j # n
    BY <1>0, <1>1, <1>5, <1>6
  <2>2. j + 1 \in 1 .. n /\ (j + 1) - 1 = j
    BY <1>6, <2>1
  <2>3. QED
    BY <1>0, <1>5, <1>6, <2>1, <2>2
<1>8. p \in Waiting /\ p \in Cbs /\ p <= created
  <2>1. j + 1 \in 1 .. n
    BY <1>6, <1>7
  <2>2. QED
    BY <1>4, <1>7, <2>1
<1>9. pp \in Slots /\ p \in Slots /\ p # pp /\ next[p] \in 0 .. MaxCbs + 1
  <2>1. p \in Slots
    BY <1>8, HandleCbQueueAssumption DEF Cbs, Slots
  <2>2. j + 1 \in 0 .. n /\ j + 1 # j
    BY <1>6, <1>7
  <2>3. QED
    BY <1>2, <1>5, <1>6, <1>7, <2>1, <2>2 DEF TypeOK
<1>10. next'[pp] = next[p] /\ \A s \in Slots : s # pp => next'[s] = next[s]
  BY <1>1, <1>2, <1>9 DEF TypeOK
<1>11. TypeOK'
  <2>1. next' \in [Slots -> 0 .. MaxCbs + 1] /\ tailp' \in Slots
    BY <1>1, <1>2, <1>9 DEF TypeOK
  <2>2. added' \in 0 .. InCallback
    BY <1>1, HandleCbQueueAssumption
  <2>3. QED
    BY <1>1, <1>2, <1>9, <2>1, <2>2 DEF TypeOK
<1>12. p \notin done /\ (p - 1 \in srcs => p - 1 \in done)
  BY <1>8 DEF Waiting
<1>13. CallbacksOK'
  <2>1. ASSUME NEW x \in Cbs, x > created \/ x - 1 \in srcs \ done
        PROVE  next'[x] = Unlinked
    <3>1. x \in Slots /\ next[x] = Unlinked
      BY <1>2, <2>1, HandleCbQueueAssumption DEF CallbacksOK, Cbs, Slots
    <3>2. x # pp
      BY <1>0, <1>8, <3>1, HandleCbQueueAssumption DEF Unlinked, Cbs
    <3>3. QED
      BY <1>10, <3>1, <3>2
  <2>2. QED
    BY <1>1, <1>2, <2>1 DEF CallbacksOK
<1>14. BurstOK'
  BY <1>1, <1>2, <1>12 DEF BurstOK
<1>15. Waiting' = Waiting \ {p}
  BY <1>1 DEF Waiting
<1>16. Cardinality(Waiting') = n - 1 /\ n - 1 \in Nat
  BY <1>2, <1>3, <1>6, <1>7, <1>8, <1>15, WaitingFinite, FS_RemoveElement
<1> DEFINE w == [i \in 0 .. n - 1 |-> IF i <= j THEN q[i] ELSE q[i + 1]]
<1>17. \A i \in 0 .. n - 1 : w[i] = q[IF i <= j THEN i ELSE i + 1]
  OBVIOUS
<1>18. w \in [0 .. n - 1 -> Slots]
  BY <1>5
<1> HIDE DEF w
<1>19. Chain(w, n - 1)'
  <2>1. w[0] = 0
    BY <1>5, <1>6, <1>16, <1>17
  <2>2. w[n - 1] = tailp' /\ next'[tailp'] = 0
    <3>1. CASE next[p] = 0
      <4>1. j + 1 = n
        <5>1. SUFFICES ASSUME j + 2 \in 1 .. n
                       PROVE  FALSE
          BY <1>6, <1>7
        <5>2. q[j + 2] = next[p]
          BY <1>5, <1>6, <1>7, <5>1
        <5>3. QED
          BY <1>4, <3>1, <5>1, <5>2 DEF Cbs
      <4>2. w[n - 1] = q[j]
        BY <1>6, <1>16, <1>17, <4>1
      <4>3. QED
        BY <1>1, <1>6, <1>10, <3>1, <4>2
    <3>2. CASE next[p] # 0
      <4>1. j + 1 # n
        BY <1>5, <1>7, <3>2
      <4>2. w[n - 1] = q[n]
        BY <1>6, <1>7, <1>16, <1>17, <4>1
      <4>3. tailp # pp /\ tailp \in Slots
        BY <1>5, <1>6, <1>7
      <4>4. QED
        BY <1>1, <1>5, <1>10, <3>2, <4>2, <4>3
    <3>3. QED
      BY <3>1, <3>2
  <2>3. ASSUME NEW i \in 1 .. n - 1
        PROVE  w[i] = next'[w[i - 1]]
    <3>1. CASE i <= j
      <4>1. w[i] = q[i] /\ w[i - 1] = q[i - 1] /\ i \in 1 .. n /\ i - 1 \in 0 .. n /\ i - 1 # j
        BY <1>6, <1>16, <1>17, <3>1
      <4>2. q[i] = next[q[i - 1]] /\ q[i - 1] # pp /\ q[i - 1] \in Slots
        BY <1>5, <1>6, <4>1
      <4>3. QED
        BY <1>10, <4>1, <4>2
    <3>2. CASE i = j + 1
      <4>1. w[i] = q[j + 2] /\ w[i - 1] = q[j] /\ j + 2 \in 1 .. n /\ (j + 2) - 1 = j + 1
        BY <1>6, <1>16, <1>17, <3>2
      <4>2. q[j + 2] = next[p]
        BY <1>5, <1>7, <4>1
      <4>3. QED
        BY <1>6, <1>10, <4>1, <4>2
    <3>3. CASE i > j + 1
      <4>1. /\ w[i] = q[i + 1] /\ w[i - 1] = q[i] /\ i + 1 \in 1 .. n /\ (i + 1) - 1 = i
            /\ i \in 0 .. n /\ i # j
        BY <1>6, <1>16, <1>17, <3>3
      <4>2. q[i + 1] = next[q[i]] /\ q[i] # pp /\ q[i] \in Slots
        BY <1>5, <1>6, <4>1
      <4>3. QED
        BY <1>10, <4>1, <4>2
    <3>4. QED
      BY <1>6, <3>1, <3>2, <3>3
  <2>4. \A i, k \in 0 .. n - 1 : w[i] = w[k] => i = k
    BY <1>5, <1>6, <1>16, <1>17
  <2>5. {w[i] : i \in 1 .. n - 1} = Waiting'
    <3>1. ASSUME NEW i \in 1 .. n - 1
          PROVE  w[i] \in Waiting'
      <4>1. PICK e \in 1 .. n : w[i] = q[e] /\ e # j + 1
        BY <1>6, <1>16, <1>17
      <4>2. q[e] # p
        BY <1>5, <1>6, <1>7, <4>1
      <4>3. QED
        BY <1>4, <1>15, <4>1, <4>2
    <3>2. ASSUME NEW x \in Waiting'
          PROVE  \E i \in 1 .. n - 1 : w[i] = x
      <4>1. PICK e \in 1 .. n : q[e] = x
        BY <1>4, <1>15
      <4>2. e # j + 1
        BY <1>7, <1>15, <4>1
      <4>3. CASE e <= j
        <5>1. e \in 1 .. n - 1 /\ w[e] = x
          BY <1>6, <1>7, <1>16, <1>17, <4>1, <4>3
        <5>2. QED
          BY <5>1
      <4>4. CASE e > j + 1
        <5>1. e - 1 \in 1 .. n - 1 /\ w[e - 1] = x
          BY <1>6, <1>7, <1>16, <1>17, <4>1, <4>4
        <5>2. QED
          BY <5>1
      <4>5. QED
        BY <1>6, <4>1, <4>2, <4>3, <4>4
    <3>3. QED
      BY <3>1, <3>2
  <2>6. \E i \in 0 .. n - 1 : pp' = w[i]
    <3>1. j \in 0 .. n - 1 /\ w[j] = q[j]
      BY <1>6, <1>7, <1>17
    <3>2. QED
      BY <1>1, <1>6, <3>1
  <2>7. QED
    BY <1>18, <2>1, <2>2, <2>3, <2>4, <2>5, <2>6 DEF Chain
<1>20. Linked'
  BY <1>16, <1>19, GiveChain
<1>21. QED
  BY <1>11, <1>13, <1>14, <1>20 DEF CbInv

\* What a callback's return does apart from the list.
LEMMA CallEndFacts ==
  ASSUME CbInv, CallEnd
  PROVE  /\ pc = "call" /\ pc' = "scan" /\ pp' = pp /\ created' = created /\ srcs' = srcs
         /\ cur \in Cbs /\ cur \in 1 .. created /\ cur \in ready \ done
         /\ done' = done \cup {cur} /\ ready' = ready
         /\ next' \in [Slots -> 0 .. MaxCbs + 1] /\ tailp' \in Slots => TypeOK'
         /\ BurstOK'
<1> USE DEF CallEnd
<1>1. TypeOK /\ CallbacksOK /\ BurstOK
  BY DEF CbInv
<1>2. /\ pc = "call" /\ pc' = "scan" /\ pp' = pp /\ created' = created /\ srcs' = srcs
      /\ done' = done \cup {cur} /\ ready' = ready /\ cur' = 0 /\ added' = 0 /\ aborted' = 0
      /\ execs' = execs + 1 /\ miss' = 0 /\ limit' = limit /\ spin' = spin
  BY DEF world
<1>3. cur \in ready \ done
  BY <1>1, <1>2 DEF BurstOK
<1>4. cur \in 1 .. created /\ cur \in Cbs
  BY <1>1, <1>3 DEF CallbacksOK, TypeOK
<1>5. IsFiniteSet(done) /\ Cardinality(done) \in Nat
  BY <1>1, DoneFinite
<1>6. Cardinality(done \cup {cur}) = Cardinality(done) + 1
  BY <1>3, <1>5, FS_AddElement
<1>7. Cardinality(done \cup {cur}) <= MaxCbs
  <2>1. IsFiniteSet(Cbs) /\ Cardinality(Cbs) = MaxCbs
    BY HandleCbQueueAssumption, FS_Interval DEF Cbs
  <2>2. done \cup {cur} \subseteq Cbs
    BY <1>1, <1>4 DEF TypeOK
  <2>3. QED
    BY <2>1, <2>2, FS_Subset
<1>8. execs \in Nat /\ execs <= Cardinality(done)
  BY <1>1, HandleCbQueueAssumption DEF TypeOK, Slots, BurstOK
<1>9. execs' \in Slots /\ execs' <= Cardinality(done')
  BY <1>2, <1>5, <1>6, <1>7, <1>8, HandleCbQueueAssumption DEF Slots
<1>10. limit \in Nat /\ 0 < limit /\ 0 \in -(MissSlack * AbortCap) .. limit
  <2>1. MissSlack * AbortCap \in Nat
    BY HandleCbQueueAssumption
  <2>2. limit \in MissBase .. MissBase + AbortCap
    BY <1>1 DEF TypeOK
  <2>3. QED
    BY <2>1, <2>2, HandleCbQueueAssumption
<1>11. BurstOK'
  BY <1>2, <1>9, <1>10 DEF BurstOK
<1>12. ASSUME next' \in [Slots -> 0 .. MaxCbs + 1], tailp' \in Slots
       PROVE  TypeOK'
  <2>1. 0 \in Slots /\ 0 \in 0 .. InCallback /\ 0 \in 0 .. AbortCap
    BY HandleCbQueueAssumption DEF Slots
  <2>2. done' \subseteq Cbs
    BY <1>1, <1>2, <1>4 DEF TypeOK
  <2>3. QED
    BY <1>1, <1>2, <1>9, <1>10, <1>12, <2>1, <2>2 DEF TypeOK
<1>13. QED
  BY <1>2, <1>3, <1>4, <1>11, <1>12

LEMMA CbCallEndPlain ==
  ASSUME CbInv, CallEnd, cur \notin srcs
  PROVE  CbInv'
<1>1. TypeOK /\ CallbacksOK /\ BurstOK
  BY DEF CbInv
<1>2. UNCHANGED list /\ next' = next /\ tailp' = tailp
  BY DEF CallEnd, list
<1>3. /\ pc = "call" /\ pc' = "scan" /\ pp' = pp /\ created' = created /\ srcs' = srcs
      /\ cur \in Cbs /\ cur \in 1 .. created /\ cur \in ready \ done
      /\ done' = done \cup {cur} /\ ready' = ready
      /\ next' \in [Slots -> 0 .. MaxCbs + 1] /\ tailp' \in Slots => TypeOK'
      /\ BurstOK'
  BY CallEndFacts
<1>4. TypeOK'
  BY <1>1, <1>2, <1>3 DEF TypeOK
<1>5. cur - 1 \in srcs => cur - 1 \in done
  BY <1>1, <1>3 DEF BurstOK
<1>6. CallbacksOK'
  BY <1>1, <1>2, <1>3, <1>5 DEF CallbacksOK
<1>7. Waiting' = Waiting
  BY <1>3 DEF Waiting
<1>8. Linked'
  BY <1>2, <1>3, <1>7, ChainStays
<1>9. QED
  BY <1>3, <1>4, <1>6, <1>8 DEF CbInv

LEMMA CbCallEndSource ==
  ASSUME CbInv, CallEnd, cur \in srcs
  PROVE  CbInv'
<1>0. PICK c : c = cur + 1
  OBVIOUS
<1>1. TypeOK /\ CallbacksOK /\ BurstOK
  BY DEF CbInv
<1>2. /\ pc = "call" /\ pc' = "scan" /\ pp' = pp /\ created' = created /\ srcs' = srcs
      /\ cur \in Cbs /\ cur \in 1 .. created /\ cur \in ready \ done
      /\ done' = done \cup {cur} /\ ready' = ready
      /\ next' \in [Slots -> 0 .. MaxCbs + 1] /\ tailp' \in Slots => TypeOK'
      /\ BurstOK'
  BY CallEndFacts
<1>3. c \in 1 .. created /\ c \in Cbs /\ c \in Slots /\ c # 0 /\ c - 1 = cur /\ c \notin srcs
  BY <1>0, <1>1, <1>2, HandleCbQueueAssumption DEF CallbacksOK, TypeOK, Cbs, Slots
<1>4. next[c] = Unlinked /\ c \notin done /\ c \notin Waiting
  BY <1>1, <1>2, <1>3 DEF CallbacksOK, Waiting
<1>5. /\ tailp' = IF next[pp] = 0 THEN c ELSE tailp
      /\ next' = [next EXCEPT ![c] = next[pp], ![pp] = c]
  BY <1>0, <1>4 DEF CallEnd, Successor
<1>n. PICK n \in Nat : n = Cardinality(Waiting) /\ \E q : Chain(q, n)
  BY TakeChain
<1>6. PICK q : n = Cardinality(Waiting) /\ Chain(q, n)
  BY <1>n
<1>7. /\ \A i \in 1 .. n : q[i] \in Waiting /\ q[i] \in Cbs /\ q[i] <= created
      /\ \A x \in Waiting : \E i \in 1 .. n : q[i] = x
  BY <1>1, <1>6, ChainFacts
<1>8. /\ q \in [0 .. n -> Slots] /\ q[0] = 0 /\ q[n] = tailp /\ next[tailp] = 0
      /\ \A i \in 1 .. n : q[i] = next[q[i - 1]]
      /\ \A i, j \in 0 .. n : q[i] = q[j] => i = j
  BY <1>6 DEF Chain
<1>9. PICK j \in 0 .. n : pp = q[j]
  BY <1>2, <1>6 DEF Chain
<1>10. \A i \in 0 .. n : q[i] # c
  <2>1. \A i \in 0 .. n : i = 0 \/ i \in 1 .. n
    OBVIOUS
  <2>2. QED
    BY <1>3, <1>4, <1>7, <1>8, <2>1
<1>11. pp \in Slots /\ pp # c /\ tailp \in Slots /\ tailp # c
  BY <1>8, <1>9, <1>10
<1>12. next[pp] = 0 <=> j = n
  <2>1. j = n => next[pp] = 0
    BY <1>8, <1>9
  <2>2. ASSUME j # n
        PROVE  next[pp] # 0
    <3>1. j + 1 \in 1 .. n /\ (j + 1) - 1 = j
      BY <1>9, <2>2
    <3>2. q[j + 1] = next[pp] /\ q[j + 1] \in Cbs
      BY <1>7, <1>8, <1>9, <3>1
    <3>3. QED
      BY <3>2 DEF Cbs
  <2>3. QED
    BY <2>1, <2>2
<1>13. next[pp] \in 0 .. MaxCbs + 1
  BY <1>1, <1>11 DEF TypeOK
<1>14. /\ next' \in [Slots -> 0 .. MaxCbs + 1] /\ tailp' \in Slots
       /\ next'[c] = next[pp] /\ next'[pp] = c
       /\ \A s \in Slots : s # c /\ s # pp => next'[s] = next[s]
  <2>1. c \in 0 .. MaxCbs + 1
    BY <1>3, HandleCbQueueAssumption DEF Cbs
  <2>2. QED
    BY <1>1, <1>3, <1>5, <1>11, <1>13, <2>1 DEF TypeOK
<1>15. TypeOK'
  BY <1>2, <1>14
<1>16. CallbacksOK'
  <2>1. cur - 1 \in srcs => cur - 1 \in done
    BY <1>1, <1>2 DEF BurstOK
  <2>2. ASSUME NEW x \in Cbs, x > created \/ x - 1 \in srcs \ done'
        PROVE  next'[x] = Unlinked
    <3>1. x \in Slots /\ next[x] = Unlinked
      BY <1>1, <1>2, <2>2, HandleCbQueueAssumption DEF CallbacksOK, Cbs, Slots
    <3>2. x # c
      <4>1. x - 1 \in srcs \ done' => x - 1 # cur
        BY <1>2
      <4>2. created \in Nat
        BY <1>1, HandleCbQueueAssumption DEF TypeOK, Slots
      <4>3. x > created => x # c
        BY <1>3, <4>2
      <4>4. QED
        BY <1>2, <1>3, <2>2, <4>1, <4>3
    <3>3. next[pp] # Unlinked
      <4>1. CASE j = n
        BY <1>12, <4>1, HandleCbQueueAssumption DEF Unlinked
      <4>2. CASE j # n
        <5>1. j + 1 \in 1 .. n /\ (j + 1) - 1 = j
          BY <1>9, <4>2
        <5>2. q[j + 1] = next[pp] /\ q[j + 1] \in Cbs
          BY <1>7, <1>8, <1>9, <5>1
        <5>3. QED
          BY <5>2, HandleCbQueueAssumption DEF Cbs, Unlinked
      <4>3. QED
        BY <4>1, <4>2
    <3>4. QED
      BY <1>14, <3>1, <3>2, <3>3
  <2>3. QED
    BY <1>1, <1>2, <2>1, <2>2 DEF CallbacksOK
<1>17. Waiting' = Waiting \cup {c}
  <2>1. c \in Waiting'
    BY <1>2, <1>3, <1>4, <1>0 DEF Waiting
  <2>2. ASSUME NEW x \in 1 .. created, x # c
        PROVE  x \in Waiting' <=> x \in Waiting
    <3>1. x - 1 # cur
      BY <1>0, <1>2, <2>2
    <3>2. QED
      BY <1>2, <3>1 DEF Waiting
  <2>3. Waiting \subseteq 1 .. created /\ Waiting' \subseteq 1 .. created
    BY <1>2 DEF Waiting
  <2>4. QED
    BY <2>1, <2>2, <2>3
<1>18. Cardinality(Waiting') = n + 1
  BY <1>1, <1>4, <1>6, <1>17, WaitingFinite, FS_AddElement
<1> DEFINE w == [i \in 0 .. n + 1 |-> IF i <= j THEN q[i] ELSE IF i = j + 1 THEN c ELSE q[i - 1]]
<1>19. w \in [0 .. n + 1 -> Slots]
  BY <1>3, <1>8
<1>20. /\ \A i \in 0 .. j : w[i] = q[i]
       /\ w[j + 1] = c
       /\ \A i \in 0 .. n + 1 : i > j + 1 => w[i] = q[i - 1]
  BY <1>9
<1> HIDE DEF w
<1>21. Chain(w, n + 1)'
  <2>1. w[0] = 0
    BY <1>8, <1>9, <1>20
  <2>2. w[n + 1] = tailp' /\ next'[tailp'] = 0
    <3>1. CASE j = n
      BY <1>5, <1>12, <1>14, <1>20, <3>1
    <3>2. CASE j # n
      <4>1. w[n + 1] = q[n]
        BY <1>9, <1>20, <3>2
      <4>2. tailp # pp
        BY <1>8, <1>9, <3>2
      <4>3. QED
        BY <1>5, <1>8, <1>11, <1>12, <1>14, <3>2, <4>1, <4>2
    <3>3. QED
      BY <3>1, <3>2
  <2>3. ASSUME NEW i \in 1 .. n + 1
        PROVE  w[i] = next'[w[i - 1]]
    <3>1. CASE i <= j
      <4>1. w[i] = q[i] /\ w[i - 1] = q[i - 1] /\ i \in 1 .. n /\ i - 1 \in 0 .. n /\ i - 1 # j
        BY <1>9, <1>20, <3>1
      <4>2. q[i] = next[q[i - 1]] /\ q[i - 1] # pp /\ q[i - 1] # c /\ q[i - 1] \in Slots
        BY <1>8, <1>9, <1>10, <4>1
      <4>3. QED
        BY <1>14, <4>1, <4>2
    <3>2. CASE i = j + 1
      <4>1. w[i] = c /\ w[i - 1] = q[j]
        BY <1>9, <1>20, <3>2
      <4>2. QED
        BY <1>9, <1>14, <4>1
    <3>3. CASE i = j + 2
      <4>1. w[i] = q[j + 1] /\ w[i - 1] = c /\ j + 1 \in 1 .. n /\ (j + 1) - 1 = j
        BY <1>9, <1>20, <3>3
      <4>2. QED
        BY <1>8, <1>9, <1>14, <4>1
    <3>4. CASE i > j + 2
      <4>1. /\ w[i] = q[i - 1] /\ w[i - 1] = q[i - 2] /\ i - 1 \in 1 .. n /\ (i - 1) - 1 = i - 2
            /\ i - 2 \in 0 .. n /\ i - 2 # j
        BY <1>9, <1>20, <3>4
      <4>2. q[i - 1] = next[q[i - 2]] /\ q[i - 2] # pp /\ q[i - 2] # c /\ q[i - 2] \in Slots
        BY <1>8, <1>9, <1>10, <4>1
      <4>3. QED
        BY <1>14, <4>1, <4>2
    <3>5. QED
      BY <1>9, <3>1, <3>2, <3>3, <3>4
  <2>4. ASSUME NEW i \in 0 .. n + 1
        PROVE  \/ i = j + 1 /\ w[i] = c
               \/ \E e \in 0 .. n : w[i] = q[e] /\ i = (IF e <= j THEN e ELSE e + 1)
    <3>1. CASE i <= j
      BY <1>9, <1>20, <3>1
    <3>2. CASE i = j + 1
      BY <1>20, <3>2
    <3>3. CASE i > j + 1
      <4>1. i - 1 \in 0 .. n /\ w[i] = q[i - 1] /\ i - 1 > j
        BY <1>9, <1>20, <3>3
      <4>2. QED
        BY <4>1, <3>3
    <3>4. QED
      BY <1>9, <3>1, <3>2, <3>3
  <2>5. ASSUME NEW i \in 0 .. n + 1, NEW k \in 0 .. n + 1, w[i] = w[k]
        PROVE  i = k
    <3>1. CASE w[i] = c
      BY <1>10, <2>4, <2>5, <3>1
    <3>2. CASE w[i] # c
      <4>1. PICK e \in 0 .. n : w[i] = q[e] /\ i = (IF e <= j THEN e ELSE e + 1)
        BY <2>4, <3>2
      <4>2. PICK f \in 0 .. n : w[k] = q[f] /\ k = (IF f <= j THEN f ELSE f + 1)
        BY <2>4, <2>5, <3>2
      <4>3. e = f
        BY <1>8, <2>5, <4>1, <4>2, ZenonT(60)
      <4>4. QED
        BY <4>1, <4>2, <4>3
    <3>3. QED
      BY <3>1, <3>2
  <2>6. {w[i] : i \in 1 .. n + 1} = Waiting'
    <3>1. ASSUME NEW i \in 1 .. n + 1
          PROVE  w[i] \in Waiting'
      <4>1. CASE w[i] = c
        BY <1>17, <4>1
      <4>2. CASE w[i] # c
        <5>1. PICK e \in 0 .. n : w[i] = q[e] /\ i = (IF e <= j THEN e ELSE e + 1)
          BY <2>4, <4>2
        <5>2. e \in 1 .. n
          BY <1>9, <5>1
        <5>3. QED
          BY <1>7, <1>17, <5>1, <5>2
      <4>3. QED
        BY <4>1, <4>2
    <3>2. ASSUME NEW x \in Waiting'
          PROVE  \E i \in 1 .. n + 1 : w[i] = x
      <4>1. CASE x = c
        <5>1. j + 1 \in 1 .. n + 1
          BY <1>9
        <5>2. QED
          BY <1>20, <4>1, <5>1
      <4>2. CASE x \in Waiting
        <5>1. PICK e \in 1 .. n : q[e] = x
          BY <1>7, <4>2
        <5>2. CASE e <= j
          <6>1. e \in 1 .. n + 1 /\ w[e] = x
            BY <1>9, <1>20, <5>1, <5>2
          <6>2. QED
            BY <6>1
        <5>3. CASE e > j
          <6>1. e + 1 \in 1 .. n + 1 /\ w[e + 1] = x
            BY <1>9, <1>20, <5>1, <5>3
          <6>2. QED
            BY <6>1
        <5>4. QED
          BY <1>9, <5>1, <5>2, <5>3
      <4>3. QED
        BY <1>17, <4>1, <4>2
    <3>3. QED
      BY <3>1, <3>2
  <2>7. \E i \in 0 .. n + 1 : pp' = w[i]
    <3>1. j \in 0 .. n + 1 /\ w[j] = q[j]
      BY <1>9, <1>20
    <3>2. QED
      BY <1>2, <1>9, <3>1
  <2>8. QED
    BY <1>19, <2>1, <2>2, <2>3, <2>5, <2>6, <2>7 DEF Chain
<1>22. Linked'
  BY <1>18, <1>21, GiveChain
<1>23. QED
  BY <1>2, <1>15, <1>16, <1>22 DEF CbInv

LEMMA CbStutters ==
  ASSUME CbInv, UNCHANGED vars
  PROVE  CbInv'
<1> USE DEF vars, list, world, frame
<1>1. TypeOK' /\ CallbacksOK' /\ BurstOK'
  BY DEF CbInv, TypeOK, CallbacksOK, BurstOK
<1>2. Waiting' = Waiting
  BY DEF Waiting
<1>3. Linked'
  BY <1>2, ChainStays
<1>4. QED
  BY <1>1, <1>3 DEF CbInv

LEMMA CbStep == CbInv /\ [Next]_vars => CbInv'
<1> SUFFICES ASSUME CbInv, [Next]_vars
             PROVE  CbInv'
  OBVIOUS
<1>1. CASE \E n \in 1 .. 2 : Register(n)
  <2>1. PICK n \in {1, 2} : Register(n)
    BY <1>1
  <2>2. QED
    BY <2>1, CbRegister
<1>2. CASE \E c \in Cbs : Completes(c)
  BY <1>2, CbCompletes
<1>3. CASE \E s \in BOOLEAN : BurstBegin(s)
  BY <1>3, CbBurstBegin
<1>4. CASE BurstHit
  BY <1>4, CbBurstHit
<1>5. CASE CallEnd
  BY <1>5, CbCallEndPlain, CbCallEndSource
<1>6. CASE BurstMiss
  BY <1>6, CbBurstMiss
<1>7. CASE BurstAbort
  <2>1. aborted \in 0 .. AbortCap
    BY DEF CbInv, TypeOK
  <2>2. History \in 0 .. AbortCap
    BY <2>1, HandleCbQueueAssumption DEF History
  <2>3. QED
    BY <1>7, <2>2, CbLeave DEF BurstAbort
<1>8. CASE BurstEnd
  <2>1. aborted \in 0 .. AbortCap
    BY DEF CbInv, TypeOK
  <2>2. QED
    BY <1>8, <2>1, CbLeave DEF BurstEnd
<1>9. CASE UNCHANGED vars
  BY <1>9, CbStutters
<1>10. QED
  BY <1>1, <1>2, <1>3, <1>4, <1>5, <1>6, <1>7, <1>8, <1>9 DEF Next, Burst

-----------------------------------------------------------------------------
(* The theorems                                                            *)

\* Whatever handles complete when, whatever callbacks register, and wherever
\* a burst gives up, the persona's list has a chain and the frame fits it.
THEOREM CbInvariant == Spec => []CbInv
BY CbInitially, CbStep, PTL DEF Spec

\* handle_cb_queue's list is never broken: it holds exactly the callbacks that
\* wait, its tail is its last slot, and burst()'s pp is always a slot of it.
THEOREM QueueIsSound == Spec => []QueueSound
<1>1. CbInv => QueueSound
  BY ListMeans DEF CbInv, QueueSound
<1>2. QED
  BY <1>1, CbInvariant, PTL

\* No callback runs twice, before its handle completed, or before the source
\* callback of its operation.
THEOREM CallbacksRunInOrder == Spec => []RunsInOrder
<1>1. CbInv => RunsInOrder
  BY DEF CbInv, RunsInOrder, CallbacksOK, BurstOK
<1>2. QED
  BY <1>1, CbInvariant, PTL
================================================================================
