----------------------------- MODULE FutureCoreProofs -----------------------------
(***************************************************************************)
(* FutureInv and ValuesInv are inductive invariants of FutureCore: however *)
(* many futures user code makes, combines and returns from callbacks, the  *)
(* graph of headers, its reference counts and the active queue stay exact, *)
(* proxies stay flat, every future delivers the result it stands for, and  *)
(* no wake-up is lost.                                                     *)
(***************************************************************************)
EXTENDS FutureHeapProofs

-----------------------------------------------------------------------------
(* What the operations leave of values and links                           *)

\* Heaps whose counts may be anything: what an operation does to the other
\* fields does not depend on them.
SketchType ==
  [kind : {"free", "dead", "promise", "result", "dependent"}, ref : Int,
   status : Int, sucs : Seq(Pairs), result : Headers \cup {Nil},
   body : {"none", "then", "all", "proxy"}, deps : Seq([dep : Headers, linked : BOOLEAN]),
   countdown : 0 .. MaxCountdown]
Sketches == [Headers -> SketchType]

\* The operation only moves references and deletes headers.
Sheds(H, K) ==
  \A x \in Headers : K[x].kind = "dead" \/ (Alike(K[x], H[x]) /\ K[x].countdown = H[x].countdown)

\* A heap is such a heap.
LEMMA HeapsSketches ==
  ASSUME NEW H \in Heaps
  PROVE  H \in Sketches
<1>1. MaxArgs \in Nat
  BY Constants
<1>2. HeaderType \subseteq SketchType
  BY <1>1 DEF HeaderType, SketchType, Pairs
<1>3. QED
  BY <1>2 DEF Heaps, Sketches

\* Deletions and moves of references compose.
LEMMA ShedsFacts ==
  /\ \A H : Sheds(H, H)
  /\ \A H, K, L : Sheds(H, K) /\ Sheds(K, L) => Sheds(H, L)
<1>1. \A H : Sheds(H, H)
  BY DEF Sheds, Alike
<1>2. \A H, K, L : Sheds(H, K) /\ Sheds(K, L) => Sheds(H, L)
  BY DEF Sheds, Alike
<1>3. QED
  BY <1>1, <1>2

\* incref and decref, of any count.
LEMMA AddRefSheds ==
  ASSUME NEW H \in Sketches, NEW h \in Headers, NEW n \in Int
  PROVE  /\ AddRef(H, h, n) \in Sketches /\ Sheds(H, AddRef(H, h, n))
         /\ \A x \in Headers : Alike(AddRef(H, h, n)[x], H[x]) /\ AddRef(H, h, n)[x].countdown = H[x].countdown
<1> DEFINE K == AddRef(H, h, n)
<1>1. CASE H[h].ref < 0
  BY <1>1 DEF AddRef, Sheds, Alike
<1>2. CASE ~ (H[h].ref < 0)
  <2>1. K = [H EXCEPT ![h].ref = @ + n]
    BY <1>2 DEF AddRef
  <2>2. H[h] \in SketchType
    BY DEF Sketches
  <2>3. [H[h] EXCEPT !.ref = @ + n] \in SketchType
    <3>1. H[h].ref \in Int /\ H[h].ref + n \in Int
      BY <2>2 DEF SketchType
    <3>2. QED
      BY <2>2, <3>1 DEF SketchType
  <2>4. K[h] = [H[h] EXCEPT !.ref = @ + n] /\ \A x \in Headers \ {h} : K[x] = H[x]
    BY <2>1 DEF Sketches
  <2>7. K \in Sketches
    BY <2>1, <2>3 DEF Sketches
  <2>8. Alike(K[h], H[h]) /\ K[h].countdown = H[h].countdown
    BY <2>2, <2>4 DEF Alike, SketchType
  <2> HIDE DEF K
  <2>5. \A x \in Headers : Alike(K[x], H[x]) /\ K[x].countdown = H[x].countdown
    BY <2>4, <2>8 DEF Alike
  <2>6. QED
    BY <2>7, <2>5 DEF Sheds, K
<1>3. QED
  BY <1>1, <1>2

\* Deleting a header.
LEMMA BurySheds ==
  ASSUME NEW H \in Sketches, NEW h \in Headers
  PROVE  [H EXCEPT ![h] = DeadHeader] \in Sketches /\ Sheds(H, [H EXCEPT ![h] = DeadHeader])
<1>1. DeadHeader \in SketchType /\ DeadHeader.kind = "dead"
  <2>1. DeadHeader \in HeaderType /\ MaxArgs \in Nat
    BY HeaderTypes, Constants
  <2>2. HeaderType \subseteq SketchType
    BY <2>1 DEF HeaderType, SketchType, Pairs
  <2>3. QED
    BY <2>1, <2>2, MadeFields
<1>2. QED
  BY <1>1 DEF Sketches, Sheds, Alike

\* dropref of a header that is its own result.
LEMMA DropReadySheds ==
  ASSUME NEW H \in Sketches, NEW h \in Headers
  PROVE  DropReady(H, h) \in Sketches /\ Sheds(H, DropReady(H, h))
<1>1. -1 \in Int
  OBVIOUS
<1>2. QED
  BY <1>1, AddRefSheds, BurySheds DEF DropReady

\* dropref.
LEMMA DropSheds ==
  ASSUME NEW H \in Sketches, NEW h \in Headers, Ready(H, h) /\ H[h].result # h => H[h].result \in Headers
  PROVE  Drop(H, h) \in Sketches /\ Sheds(H, Drop(H, h))
<1>1. CASE H[h].ref = 1 /\ Ready(H, h) /\ H[h].result # h
  <2> DEFINE K == [H EXCEPT ![h] = DeadHeader]
  <2>1. K \in Sketches /\ Sheds(H, K) /\ H[h].result \in Headers
    BY <1>1, BurySheds
  <2>2. Drop(H, h) = DropReady(K, H[h].result)
    BY <1>1 DEF Drop
  <2> HIDE DEF K
  <2>3. QED
    BY <2>1, <2>2, DropReadySheds, ShedsFacts
<1>2. CASE ~ (H[h].ref = 1 /\ Ready(H, h) /\ H[h].result # h)
  BY <1>2, DropReadySheds DEF Drop
<1>3. QED
  BY <1>1, <1>2

\* drop_for_result.
LEMMA DropForResultSheds ==
  ASSUME NEW H \in Sketches, NEW a \in Headers, H[a].result \in Headers
  PROVE  DropForResult(H, a) \in Sketches /\ Sheds(H, DropForResult(H, a))
<1> DEFINE b == H[a].result
           J == AddRef(H, a, -1)
<1>1. -1 \in Int /\ 1 \in Int
  OBVIOUS
<1>2. J \in Sketches /\ Sheds(H, J)
  BY <1>1, AddRefSheds
<1> HIDE DEF J
<1>3. AddRef(J, b, 1) \in Sketches /\ Sheds(H, AddRef(J, b, 1))
  BY <1>1, <1>2, AddRefSheds, ShedsFacts
<1>4. [H EXCEPT ![a] = DeadHeader] \in Sketches /\ Sheds(H, [H EXCEPT ![a] = DeadHeader])
  BY BurySheds
<1>5. Sheds(H, H)
  BY ShedsFacts
<1>6. QED
  BY <1>3, <1>4, <1>5 DEF DropForResult, J

\* drop_for_proxied.
LEMMA DropForProxiedSheds ==
  ASSUME NEW H \in Sketches, NEW a \in Headers, Proxied(H, a) \in Headers
  PROVE  /\ DropForProxied(H, a) \in Sketches /\ Sheds(H, DropForProxied(H, a))
         /\ \A x \in Headers : /\ Alike(DropForProxied(H, a)[x], H[x])
                               /\ DropForProxied(H, a)[x].countdown = H[x].countdown
<1> DEFINE b == Proxied(H, a)
           J == AddRef(H, a, -1)
           K == AddRef(J, b, 1)
<1>1. -1 \in Int /\ 1 \in Int
  OBVIOUS
<1>2. J \in Sketches /\ Sheds(H, J) /\ \A x \in Headers : Alike(J[x], H[x]) /\ J[x].countdown = H[x].countdown
  BY <1>1, AddRefSheds
<1>3. DropForProxied(H, a) = K
  BY DEF DropForProxied
<1> HIDE DEF J
<1>4. K \in Sketches /\ Sheds(J, K) /\ \A x \in Headers : Alike(K[x], J[x]) /\ K[x].countdown = J[x].countdown
  BY <1>1, <1>2, AddRefSheds
<1> HIDE DEF K
<1>5. Sheds(H, K)
  BY <1>2, <1>4, ShedsFacts
<1>6. \A x \in Headers : Alike(K[x], H[x]) /\ K[x].countdown = H[x].countdown
  BY <1>2, <1>4 DEF Alike
<1>7. QED
  BY <1>3, <1>4, <1>5, <1>6

\* The arguments of a body are released.
LEMMA DropDepsSheds ==
  ASSUME NEW H \in Sketches, NEW h \in Headers
  PROVE  /\ DropDeps(H, h) \in Sketches /\ Sheds(H, DropDeps(H, h))
         /\ Held(H, h, h) = 0 => DropDeps(H, h)[h] = H[h]
<1> DEFINE held(x) == Cardinality({k \in DOMAIN H[h].deps : H[h].deps[k].dep = x})
           K == DropDeps(H, h)
<1>0. K = [x \in Headers |-> IF held(x) = 0 \/ H[x].ref < 0 THEN H[x]
                             ELSE IF H[x].ref = held(x) THEN DeadHeader
                             ELSE [H[x] EXCEPT !.ref = @ - held(x)]]
  BY DEF DropDeps
<1>1. \A x : held(x) = Held(H, h, x)
  BY DEF Held, Args
<1>2. \A x : held(x) \in Nat
  <2>1. H[h].deps \in Seq([dep : Headers, linked : BOOLEAN])
    BY DEF Sketches, SketchType
  <2>2. IsFiniteSet(DOMAIN H[h].deps)
    <3>1. DOMAIN H[h].deps = 1 .. Len(H[h].deps) /\ Len(H[h].deps) \in Nat
      BY <2>1
    <3>2. 1 \in Int /\ Len(H[h].deps) \in Int
      BY <3>1
    <3>3. QED
      BY <3>1, <3>2, FS_Interval
  <2>3. \A x : IsFiniteSet({k \in DOMAIN H[h].deps : H[h].deps[k].dep = x})
    BY <2>2, FS_Subset
  <2>4. QED
    BY <2>3, FS_CardinalityType
<1> HIDE DEF held, K
<1>3. DeadHeader \in SketchType /\ DeadHeader.kind = "dead"
  <2>1. DeadHeader \in HeaderType /\ MaxArgs \in Nat
    BY HeaderTypes, Constants
  <2>2. HeaderType \subseteq SketchType
    BY <2>1 DEF HeaderType, SketchType, Pairs
  <2>3. QED
    BY <2>1, <2>2, MadeFields
<1>4. ASSUME NEW x \in Headers
      PROVE  K[x] \in SketchType /\ (K[x].kind = "dead" \/ (Alike(K[x], H[x]) /\ K[x].countdown = H[x].countdown))
  <2>1. H[x] \in SketchType /\ held(x) \in Nat
    BY <1>2 DEF Sketches
  <2> DEFINE a == [H[x] EXCEPT !.ref = @ - held(x)]
  <2>2. a \in SketchType /\ Alike(a, H[x]) /\ a.countdown = H[x].countdown
    <3>1. H[x].ref \in Int /\ H[x].ref - held(x) \in Int
      BY <2>1 DEF SketchType
    <3>2. a \in SketchType
      BY <2>1, <3>1 DEF SketchType
    <3>3. Alike(a, H[x]) /\ a.countdown = H[x].countdown
      BY <2>1 DEF SketchType, Alike
    <3>4. QED
      BY <3>2, <3>3
  <2>3. K[x] = H[x] \/ K[x] = DeadHeader \/ K[x] = a
    BY <1>0
  <2> HIDE DEF a
  <2>4. QED
    BY <1>3, <2>1, <2>2, <2>3 DEF Alike
<1>5. K \in Sketches
  <2>1. K = [x \in Headers |-> K[x]]
    BY <1>0
  <2>2. QED
    BY <1>4, <2>1 DEF Sketches
<1>6. QED
  BY <1>0, <1>1, <1>4, <1>5 DEF Sheds, K

\* The references of successors change hands.
LEMMA HandOverSheds ==
  ASSUME NEW H \in Sketches, NEW h \in Headers, NEW r \in Headers, NEW n \in Nat
  PROVE  HandOver(H, h, r, n) \in Sketches /\ Sheds(H, HandOver(H, h, r, n))
<1>1. n - 1 \in Int /\ n \in Int /\ -n \in Int
  OBVIOUS
<1>2. CASE H[h].ref = n
  <2> DEFINE J == AddRef(H, r, n - 1)
  <2>1. J \in Sketches /\ Sheds(H, J)
    BY <1>1, AddRefSheds
  <2>2. HandOver(H, h, r, n) = [J EXCEPT ![h] = DeadHeader]
    BY <1>2 DEF HandOver
  <2> HIDE DEF J
  <2>3. QED
    BY <2>1, <2>2, BurySheds, ShedsFacts
<1>3. CASE H[h].ref # n
  <2> DEFINE J == AddRef(H, r, n)
  <2>1. J \in Sketches /\ Sheds(H, J)
    BY <1>1, AddRefSheds
  <2>2. HandOver(H, h, r, n) = AddRef(J, h, -n)
    BY <1>3 DEF HandOver
  <2> HIDE DEF J
  <2>3. QED
    BY <1>1, <2>1, <2>2, AddRefSheds, ShedsFacts
<1>4. QED
  BY <1>2, <1>3

-----------------------------------------------------------------------------
(* Headers that keep their values                                          *)

\* A header that is deleted, or keeps everything but references and successors.
Spared(a, b) ==
  \/ b.kind = "dead"
  \/ /\ b.kind = a.kind /\ b.result = a.result /\ b.body = a.body /\ b.deps = a.deps
     /\ b.status = a.status /\ b.countdown = a.countdown

\* A header that is deleted, or keeps its value, while its links to h may move to t: to an open
\* link when f holds, and to a resolved one otherwise.
Moved(a, b, h, t, f) ==
  \/ b.kind = "dead"
  \/ /\ b.kind = a.kind /\ b.result = a.result /\ b.body = a.body /\ b.countdown = a.countdown
     /\ a.kind # "dependent" => b.status = a.status
     /\ DOMAIN b.deps = DOMAIN a.deps /\ Len(b.deps) = Len(a.deps)
     /\ \A k \in DOMAIN a.deps :
          \/ b.deps[k] = a.deps[k]
          \/ a.deps[k].linked /\ a.deps[k].dep = h /\ b.deps[k].dep = t /\ b.deps[k].linked = f

\* What a step that works on the headers S, and moves the links to h, does to the others.
Alters(H, K, S, h, t, f) == \A d \in Headers \ S : Moved(H[d], K[d], h, t, f)
Spares(H, K, S)          == \A d \in Headers \ S : Spared(H[d], K[d])

\* Steps that spare headers compose with each other and with a step that moves links.
LEMMA SparesFacts ==
  /\ \A H, K, S : Sheds(H, K) => Spares(H, K, S)
  /\ \A H, K, L, S : Spares(H, K, S) /\ Spares(K, L, S) => Spares(H, L, S)
  /\ \A H, K, S, h, t, f : Spares(H, K, S) => Alters(H, K, S, h, t, f)
  /\ \A H, K, L, S, h, t, f : Spares(H, K, S) /\ Alters(K, L, S, h, t, f) => Alters(H, L, S, h, t, f)
  /\ \A H, K, L, S, h, t, f : Alters(H, K, S, h, t, f) /\ Spares(K, L, S) => Alters(H, L, S, h, t, f)
  /\ \A H, S : Spares(H, H, S)
<1>1. \A a, b, c : Spared(a, b) /\ Spared(b, c) => Spared(a, c)
  BY DEF Spared
<1>2. \A a, b, h, t, f : Spared(a, b) => Moved(a, b, h, t, f)
  BY DEF Spared, Moved
<1>3. \A a, b, c, h, t, f : Spared(a, b) /\ Moved(b, c, h, t, f) => Moved(a, c, h, t, f)
  BY DEF Spared, Moved
<1>4. \A a, b, c, h, t, f : Moved(a, b, h, t, f) /\ Spared(b, c) => Moved(a, c, h, t, f)
  BY DEF Spared, Moved
<1>5. \A H, K, S : Sheds(H, K) => Spares(H, K, S)
  BY DEF Sheds, Alike, Spared, Spares
<1>6. \A a : Spared(a, a)
  BY DEF Spared
<1>7. QED
  BY <1>1, <1>2, <1>3, <1>4, <1>5, <1>6 DEF Spares, Alters

\* Steps on one header spare the others, whatever they do to it.
LEMMA SparesExcept ==
  ASSUME NEW H, NEW K, NEW S, \A d \in Headers \ S : K[d] = H[d]
  PROVE  Spares(H, K, S)
BY DEF Spares, Spared

\* h left its body: it is ready with result r, or it is a proxy of b.
TurnedReady(a, b, r) ==
  b.kind = "dead" \/ (b.kind = a.kind /\ b.status = StatusReady /\ b.result = r /\ b.body = "none" /\ b.deps = <<>>)
TurnedProxy(a, b, t) ==
  b.kind = a.kind /\ b.body = "proxy" /\ b.deps = <<[dep |-> t, linked |-> TRUE]>>

\* The heap of enter_ready.
LEMMA EnterReadyHeap ==
  ASSUME NEW H \in Heaps, NEW q \in Seq(Headers), NEW h \in Headers, NEW r
  PROVE  EnterReady(H, q, h, r).heap = IF r = h THEN Entered(Touched(H, h, r), h, r)
                                       ELSE HandOver(Entered(Touched(H, h, r), h, r), h, r, Len(H[h].sucs))
<1> DEFINE K == Entered(Touched(H, h, r), h, r)
           L == IF r = h THEN K ELSE HandOver(K, h, r, Len(H[h].sucs))
<1>1. EnterReady(H, q, h, r) = [heap |-> L, queue |-> q \o Awake(H, h)]
  BY EnterReadyParts, SMTT(60)
<1> HIDE DEF L
<1>2. EnterReady(H, q, h, r).heap = L
  BY <1>1
<1>3. QED
  BY <1>2 DEF L

\* enter_ready moves the links to h to its result and changes nothing else that a value depends on.
LEMMA EnterReadyAlters ==
  ASSUME NEW H \in Heaps, NEW X, NEW z, NEW h \in Headers, NEW r, Readied(Cleared(H, h), X, z, h, r),
         NEW q \in Seq(Headers)
  PROVE  LET L == EnterReady(H, q, h, r).heap
         IN  Alters(H, L, {h}, h, r, FALSE) /\ TurnedReady(H[h], L[h], r)
<1> DEFINE C == Cleared(H, h)
           K == Entered(Touched(H, h, r), h, r)
           n == Len(H[h].sucs)
           L == IF r = h THEN K ELSE HandOver(K, h, r, n)
<1>1. K \in Heaps /\ Resolving(C, K, h, r)
  BY EnterFields
<1>2. EnterReady(H, q, h, r).heap = L
  BY EnterReadyHeap
<1>3. C \in Heaps /\ C[h].kind = H[h].kind /\ \A x \in Headers \ {h} : C[x] = H[x]
  BY ClearedFields
<1>4. Readied(C, X, z, h, r) /\ r \in Headers /\ HeapOK(C, X, z)
  BY DEF Readied
<1> HIDE DEF C, K
<1>5. ASSUME NEW d \in Headers \ {h}
      PROVE  Moved(C[d], K[d], h, r, FALSE)
  <2>1. /\ K[d].kind = C[d].kind /\ K[d].result = C[d].result /\ K[d].body = C[d].body
        /\ K[d].countdown = C[d].countdown
    BY <1>1 DEF Resolving
  <2>2. /\ DOMAIN K[d].deps = DOMAIN C[d].deps /\ Len(K[d].deps) = Len(C[d].deps)
        /\ \A k \in DOMAIN C[d].deps :
             IF k \in Waits(C, h, d) THEN K[d].deps[k].dep = r /\ ~ K[d].deps[k].linked
             ELSE K[d].deps[k] = C[d].deps[k]
    BY <1>1, <1>4, ResolveFields
  <2>3. ASSUME C[d].kind # "dependent"
        PROVE  K[d].status = C[d].status
    <3>1. ~ Unready(C, d)
      BY <2>3 DEF Unready
    <3>2. LET c == Cardinality(Hits(C, h, d))
          IN  C[d].status \in Int /\ K[d].status = C[d].status - c /\ c = 0
      BY <1>1, <1>4, <3>1, ResolveStatus
    <3>3. QED
      BY <3>2
  <2>4. \A k \in DOMAIN K[d].deps : K[d].deps[k].linked \in BOOLEAN
    BY <1>1, FieldTypes
  <2>5. \A k \in Waits(C, h, d) : C[d].deps[k].linked /\ C[d].deps[k].dep = h
    BY DEF Waits, OpenTo, LinksTo, LinkAt
  <2>6. \A k \in DOMAIN C[d].deps :
          \/ K[d].deps[k] = C[d].deps[k]
          \/ C[d].deps[k].linked /\ C[d].deps[k].dep = h /\ K[d].deps[k].dep = r /\ K[d].deps[k].linked = FALSE
    BY <2>2, <2>4, <2>5
  <2>7. QED
    BY <2>1, <2>2, <2>3, <2>6 DEF Moved
<1>6. Alters(H, K, {h}, h, r, FALSE)
  BY <1>3, <1>5 DEF Alters
<1>7. TurnedReady(H[h], K[h], r)
  BY <1>1, <1>3 DEF Resolving, TurnedReady
<1>8. CASE r = h
  BY <1>2, <1>6, <1>7, <1>8
<1>9. CASE r # h
  <2>1. n \in Nat /\ K \in Sketches
    BY <1>1, HeapsSketches, FieldTypes
  <2> HIDE DEF n
  <2> DEFINE M == HandOver(K, h, r, n)
  <2>2. Sheds(K, M)
    BY <1>4, <2>1, HandOverSheds
  <2> HIDE DEF M
  <2>3. Alters(H, M, {h}, h, r, FALSE)
    BY <1>6, <2>2, SparesFacts
  <2>4. TurnedReady(H[h], M[h], r)
    BY <1>7, <2>2 DEF TurnedReady, Sheds, Alike
  <2>5. L = M
    BY <1>9 DEF M
  <2>6. QED
    BY <1>2, <2>3, <2>4, <2>5
<1>10. QED
  BY <1>8, <1>9

\* A header that becomes a proxy of b moves the links of its own proxies to b.
LEMMA ProxyOntoAlters ==
  ASSUME NEW H, NEW X, NEW h, NEW b, Standing(H, X, h, b)
  PROVE  LET P == ProxyOnto(H, h, b)
         IN  Alters(H, P, {h}, h, b, TRUE) /\ TurnedProxy(H[h], P[h], b)
<1> DEFINE e == <<[dep |-> b, linked |-> TRUE]>>
           K == Onto(Redirect(H, h, e), h, b, e, Stay(H, h), Bypass(H, h))
           m == Len(Bypass(H, h))
           K1 == AddRef(K, b, m)
           P == AddRef(K1, h, - m)
<1>0. HeapOK(H, X, h) /\ h \in Headers /\ b \in Headers
  BY DEF Standing
<1>1. ProxyOnto(H, h, b) = P
  BY ProxyOntoParts
<1>2. K \in Heaps /\ Proxify(H, K, h, b)
  BY OntoFields
<1> HIDE DEF K
<1>3. m \in Nat
  BY <1>0, BypassFacts
<1> HIDE DEF m
<1>4. m \in Int /\ -m \in Int /\ K \in Sketches
  BY <1>2, <1>3, HeapsSketches
<1>5. K1 \in Sketches /\ \A x \in Headers : Alike(K1[x], K[x]) /\ K1[x].countdown = K[x].countdown
  BY <1>0, <1>4, AddRefSheds
<1> HIDE DEF K1
<1>6. \A x \in Headers : Alike(P[x], K1[x]) /\ P[x].countdown = K1[x].countdown
  BY <1>0, <1>4, <1>5, AddRefSheds
<1> HIDE DEF P
<1>7. \A x \in Headers : Alike(P[x], K[x]) /\ P[x].countdown = K[x].countdown
  BY <1>5, <1>6 DEF Alike
<1>8. ASSUME NEW d \in Headers \ {h}
      PROVE  Moved(H[d], K[d], h, b, TRUE)
  <2>1. /\ K[d].kind = H[d].kind /\ K[d].result = H[d].result /\ K[d].body = H[d].body
        /\ K[d].countdown = H[d].countdown /\ K[d].status = H[d].status
        /\ K[d].deps = IF <<d, 1>> \in Movers(H, h) THEN e ELSE H[d].deps
    BY <1>2 DEF Proxify
  <2>2. CASE <<d, 1>> \in Movers(H, h)
    <3>1. Len(H[d].deps) = 1 /\ DOMAIN H[d].deps = {1} /\ H[d].deps[1].dep = h /\ H[d].deps[1].linked
      <4> DEFINE l == <<d, 1>>
      <4>1. /\ Len(H[l[1]].deps) = 1 /\ DOMAIN H[l[1]].deps = {1}
            /\ H[l[1]].deps[1].dep = h /\ H[l[1]].deps[1].linked
        BY <1>0, <2>2, MoverFacts
      <4>2. QED
        BY <4>1
    <3>2. Len(e) = 1 /\ DOMAIN e = {1} /\ e[1].dep = b /\ e[1].linked = TRUE
      OBVIOUS
    <3>3. QED
      BY <2>1, <2>2, <3>1, <3>2 DEF Moved
  <2>3. CASE <<d, 1>> \notin Movers(H, h)
    BY <2>1, <2>3 DEF Moved
  <2>4. QED
    BY <2>2, <2>3
<1>9. Alters(H, K, {h}, h, b, TRUE)
  BY <1>8 DEF Alters
<1>10. Spares(K, P, {h})
  BY <1>7 DEF Spares, Spared, Alike
<1>11. TurnedProxy(H[h], P[h], b)
  BY <1>0, <1>2, <1>7 DEF TurnedProxy, Proxify, Alike
<1>12. Alters(H, P, {h}, h, b, TRUE)
  BY <1>9, <1>10, SparesFacts
<1>13. QED
  BY <1>1, <1>11, <1>12

\* enter_proxying: h takes the result of what p stands for, or becomes a proxy of it.
Turned(H, K, h, b) ==
  IF Ready(H, b)
  THEN Alters(H, K, {h}, h, H[b].result, FALSE) /\ TurnedReady(H[h], K[h], H[b].result) /\ H[b].result \in Headers
  ELSE Alters(H, K, {h}, h, b, TRUE) /\ TurnedProxy(H[h], K[h], b)

LEMMA EnterProxyingAlters ==
  ASSUME NEW H, NEW X \in Tallies, NEW h \in Headers \ {Always}, HeapOK(H, X, h), Unready(H, h), X[h] >= 1,
         H[h].ref # 1, NEW p \in Headers \ {h}, p # Always => X[p] >= 1,
         \A x \in Headers \ {Always} : X[x] >= 0, Target(H, p) # h, NEW q \in Seq(Headers)
  PROVE  Turned(H, EnterProxying(H, q, h, p).heap, h, Target(H, p))
<1> DEFINE b == Target(H, p)
           J == TargetHeap(H, p)
           E == EnterProxying(H, q, h, p)
<1>0. \E Z \in Tallies :
        /\ HeapOK(J, Z, h) /\ Keeps(H, J) /\ b \in Headers \ {h} /\ (b # Always => Z[b] >= 1)
        /\ ~ Proxying(J, b) /\ Z[h] = X[h] /\ J[h].ref = H[h].ref
        /\ \A x \in Headers : Give(Z, b, -1)[x] = Give(X, p, -1)[x]
  BY TargetOK
<1>1. PICK Z \in Tallies :
        /\ HeapOK(J, Z, h) /\ Keeps(H, J) /\ b \in Headers \ {h} /\ (b # Always => Z[b] >= 1)
        /\ ~ Proxying(J, b) /\ Z[h] = X[h] /\ J[h].ref = H[h].ref
  BY <1>0
<1>2. E = IF Ready(J, b) THEN EnterReady(DropForResult(AddRef(J, h, -1), b), q, h, J[b].result)
          ELSE [heap |-> ProxyOnto(J, h, b), queue |-> q]
  BY EnterProxyingParts
<1>9. H \in Heaps /\ H \in Sketches
  BY HeapHeader, HeapsSketches
<1>10. \A x \in Headers : Alike(J[x], H[x]) /\ J[x].countdown = H[x].countdown
  <2>1. CASE Proxying(H, p)
    <3>1. Proxied(H, p) \in Headers
      BY <2>1, ProxiedFacts
    <3>2. J = DropForProxied(H, p)
      BY <2>1 DEF TargetHeap
    <3> HIDE DEF J
    <3>3. QED
      BY <1>9, <3>1, <3>2, DropForProxiedSheds
  <2>2. CASE ~ Proxying(H, p)
    BY <2>2 DEF TargetHeap, Alike
  <2>3. QED
    BY <2>1, <2>2
<1> HIDE DEF b, J, E
<1>3. -1 \in Int /\ 1 \in Int
  OBVIOUS
<1>6. Unready(J, h) /\ J \in Heaps /\ J \in Sketches
  BY <1>1, KeepsFacts, HeapHeader, HeapsSketches
<1>11. Spares(H, J, {h}) /\ J[h].kind = H[h].kind /\ (Ready(J, b) <=> Ready(H, b)) /\ J[b].result = H[b].result
  BY <1>1, <1>10 DEF Spares, Spared, Alike, Ready
<1>7. CASE Ready(J, b)
  <2> DEFINE A == AddRef(J, h, -1)
             r == J[b].result
             L == DropForResult(A, b)
             Zh == Give(Z, h, -1)
             Y == Give(Give(Zh, b, -1), r, 1)
  <2>0. Zh \in Tallies /\ \A x \in Headers \ {h} : Zh[x] = Z[x]
    BY <1>3, GiveFacts
  <2>1. HeapOK(A, Zh, h) /\ \A x \in Headers : Alike(A[x], J[x])
    <3>1. Allocated(J, h) /\ J[h].ref \in Nat /\ J[h].ref > 0
      BY <1>1, <1>6, KindFacts
    <3>2. h # Always => J[h].ref + (-1) > 0
      BY <1>1, <3>1
    <3>3. QED
      BY <1>1, <1>3, <3>1, <3>2, AddRefOK
  <2>20. A \in Sketches /\ Sheds(J, A)
    BY <1>3, <1>6, AddRefSheds
  <2> HIDE DEF A, Zh
  <2>2. Ready(A, b) /\ A[b].result = r
    BY <1>1, <1>7, <2>1 DEF Alike, Ready
  <2>3. b # Always => Zh[b] >= 1
    BY <1>1, <2>0
  <2>4. r \in Headers /\ HeapOK(L, Y, h) /\ Keeps(A, L) /\ IsResult(L, r)
    <3>1. LET c == A[b].result
              K == DropForResult(A, b)
              V == Give(Give(Zh, b, -1), c, 1)
          IN  /\ c \in Headers /\ V \in Tallies
              /\ HeapOK(K, V, h) /\ Keeps(A, K) /\ IsResult(K, c)
      BY <1>1, <2>0, <2>1, <2>2, <2>3, DropForResultOK
    <3>2. QED
      BY <2>2, <3>1
  <2>21. Sheds(A, L)
    BY <1>1, <2>2, <2>4, <2>20, DropForResultSheds
  <2>22. Sheds(J, L)
    BY <2>20, <2>21, ShedsFacts
  <2>6. Unready(L, h) /\ Unready(A, h) /\ L \in Heaps
    <3>1. Unready(A, h)
      BY <1>6, <2>1 DEF Alike, Unready, Ready
    <3>2. QED
      BY <2>4, <3>1, KeepsFacts, HeapHeader
  <2> HIDE DEF L, r, Y
  <2>9. r # h /\ Bodiless(L, h)
    BY <2>4, <2>6, KindFacts
  <2>10. Cleared(L, h) = L
    BY <2>6, <2>9, ClearedSame
  <2>11. Readied(Cleared(L, h), Y, h, h, r)
    BY <2>4, <2>6, <2>9, <2>10 DEF Readied
  <2>14. E = EnterReady(L, q, h, r)
    BY <1>2, <1>7 DEF L, r, A
  <2>15. Alters(L, E.heap, {h}, h, r, FALSE) /\ TurnedReady(L[h], E.heap[h], r)
    BY <2>6, <2>11, <2>14, EnterReadyAlters
  <2>16. Alters(H, E.heap, {h}, h, r, FALSE)
    BY <1>11, <2>15, <2>22, SparesFacts
  <2>17. L[h].kind = J[h].kind
    BY <1>6, <2>6 DEF Unready
  <2>18. TurnedReady(H[h], E.heap[h], r)
    BY <1>11, <2>15, <2>17 DEF TurnedReady
  <2>19. QED
    BY <1>7, <1>11, <2>4, <2>16, <2>18 DEF Turned, E, b, r
<1>8. CASE ~ Ready(J, b)
  <2> DEFINE P == ProxyOnto(J, h, b)
  <2>1. Standing(J, Z, h, b)
    <3>1. Allocated(J, b)
      BY <1>1, HeldAllocated
    <3>2. QED
      BY <1>1, <1>6, <1>8, <3>1 DEF Standing
  <2>2. Alters(J, P, {h}, h, b, TRUE) /\ TurnedProxy(J[h], P[h], b)
    BY <2>1, ProxyOntoAlters
  <2> HIDE DEF P
  <2>3. E = [heap |-> P, queue |-> q]
    BY <1>2, <1>8 DEF P
  <2>4. E.heap = P
    BY <2>3
  <2>5. Alters(H, P, {h}, h, b, TRUE)
    BY <1>11, <2>2, SparesFacts
  <2>6. TurnedProxy(H[h], P[h], b)
    BY <1>11, <2>2 DEF TurnedProxy
  <2>7. QED
    BY <1>8, <1>11, <2>4, <2>5, <2>6 DEF Turned, E, b
<1>12. QED
  BY <1>7, <1>8

\* A header and the header it proxies, or whose result it holds, are alike to O.
Stands(H, O) ==
  \A x \in Headers :
    /\ H[x].body = "proxy" => O[Proxied(H, x)] = O[x]
    /\ H[x].result \in Headers => O[H[x].result] = O[x]

\* Headers that are spared stand for what they stood for.
LEMMA StandsKept ==
  ASSUME NEW H, NEW K, NEW Y, NEW s \in Headers, NEW O, HeapOK(K, Y, Nil), Spares(H, K, {s}), Stands(H, O),
         Unready(K, s), K[s].body \in {"then", "all"}
  PROVE  Stands(K, O)
<1> SUFFICES ASSUME NEW x \in Headers
             PROVE  /\ K[x].body = "proxy" => O[Proxied(K, x)] = O[x]
                    /\ K[x].result \in Headers => O[K[x].result] = O[x]
  BY DEF Stands
<1>1. CASE x = s
  <2>1. K[s].result = Nil /\ K[s].body # "proxy"
    BY KindFacts
  <2>2. QED
    BY <1>1, <2>1, Constants
<1>2. CASE K[x].kind = "dead"
  <2>1. K[x].result = Nil /\ K[x].body = "none"
    BY <1>2, KindFacts DEF Allocated
  <2>2. QED
    BY <2>1, Constants
<1>3. CASE x # s /\ K[x].kind # "dead"
  <2>1. K[x].result = H[x].result /\ K[x].body = H[x].body /\ K[x].deps = H[x].deps
    BY <1>3 DEF Spares, Spared
  <2>2. QED
    BY <2>1 DEF Stands, Proxied
<1>4. QED
  BY <1>1, <1>2, <1>3

\* A dependency of s for argument a is added to the body of s in H.
Wired(H, K, s, a, O) ==
  \E e \in [dep : Headers, linked : BOOLEAN] : K[s].deps = Append(H[s].deps, e) /\ O[e.dep] = O[a]

\* future_dependency_shref_base links s to a header that stands for its argument.
LEMMA LinkDependencyWires ==
  ASSUME NEW H, NEW X \in Tallies, HeapOK(H, X, Nil), NEW s \in Headers, NEW k \in 1 .. MaxArgs,
         Building(H, X, s, k - 1), NEW a \in Headers, Linkable(X, s, a), NEW O, Stands(H, O)
  PROVE  LET K == LinkDependency(H, s, k, a)
         IN  Spares(H, K, {s}) /\ Stands(K, O) /\ Wired(H, K, s, a, O)
<1> DEFINE b == IF Proxying(H, a) THEN Proxied(H, a) ELSE a
           J == IF Proxying(H, a) THEN DropForProxied(H, a) ELSE H
           K == LinkDependency(H, s, k, a)
<1>0. /\ a \in Headers \ {s} /\ a \in Headers /\ a # Nil /\ (a # Always => X[a] >= 1)
      /\ \A x \in Headers \ {Always} : X[x] >= 0
  BY Constants DEF Linkable
<1>1. PICK Y \in Tallies :
               /\ HeapOK(J, Y, Nil) /\ Keeps(H, J) /\ b \in Headers \ {s} /\ (b # Always => Y[b] >= 1)
               /\ ~ Proxying(J, b) /\ Building(J, Y, s, k - 1)
               /\ \A x \in Headers : Give(Y, b, -1)[x] = Give(X, a, -1)[x]
  BY <1>0, PastProxy
<1>2. K = IF Ready(J, b)
          THEN [DropForResult(J, b) EXCEPT ![s].deps = Append(@, [dep |-> J[b].result, linked |-> FALSE])]
          ELSE LinkDependencyTo(J, b, s, k)
  BY DEF LinkDependency
<1>3. H \in Heaps /\ H \in Sketches /\ J \in Heaps /\ J \in Sketches
  BY <1>1, HeapHeader, HeapsSketches
<1>4. /\ \A x \in Headers : Alike(J[x], H[x]) /\ J[x].countdown = H[x].countdown
      /\ O[b] = O[a]
  <2>1. CASE Proxying(H, a)
    <3>1. Proxied(H, a) \in Headers /\ H[a].body = "proxy"
      <4>1. HeapOK(H, X, Nil) /\ a # Nil
        BY <1>0
      <4>2. Proxied(H, a) \in Headers \ {a}
        BY <2>1, <4>1, ProxiedFacts
      <4>3. H[a].body = "proxy"
        BY <2>1, <4>1, ProxyBody DEF IsProxy
      <4>4. QED
        BY <4>2, <4>3
    <3>2. J = DropForProxied(H, a) /\ b = Proxied(H, a)
      BY <2>1
    <3> HIDE DEF J, b
    <3>3. QED
      BY <1>0, <1>3, <3>1, <3>2, DropForProxiedSheds DEF Stands
  <2>2. CASE ~ Proxying(H, a)
    BY <2>2 DEF Alike
  <2>3. QED
    BY <2>1, <2>2
<1>5. HeapOK(K, Give(X, a, -1), Nil) /\ Building(K, Give(X, a, -1), s, k)
  BY <1>0, LinkDependencyOK
<1> HIDE DEF b, J, K
<1>6. Spares(H, J, {s}) /\ J[s].deps = H[s].deps
  BY <1>4 DEF Spares, Spared, Alike
<1>7. ASSUME Spares(J, K, {s})
      PROVE  Spares(H, K, {s}) /\ Stands(K, O)
  <2>1. Spares(H, K, {s})
    BY <1>6, <1>7, SparesFacts
  <2>2. QED
    BY <1>5, <2>1, StandsKept DEF Building
<1>8. CASE ~ Ready(J, b)
  <2>1. K = LinkDependencyTo(J, b, s, k)
    BY <1>2, <1>8
  <2>2. Unready(J, s) /\ J[s].body \in {"then", "all"} /\ Len(J[s].deps) = k - 1 /\ s # Nil
    BY <1>1, Constants DEF Building
  <2>3. J[s].status + 1 \in -3 .. MaxArgs
    <3>1. BodyOK(J, s)
      BY <1>1, <2>2, KindFacts
    <3>2. OpenOf(J, s) \in SUBSET (1 .. k - 1) /\ k - 1 \in Nat
      BY <1>3, <2>2, FieldTypes DEF OpenOf
    <3>3. Cardinality(OpenOf(J, s)) \in Nat /\ Cardinality(OpenOf(J, s)) <= k - 1
      BY <3>2, RankFacts
    <3>4. J[s].status = Cardinality(OpenOf(J, s))
      BY <2>2, <3>1 DEF BodyOK
    <3>5. QED
      BY <3>3, <3>4, Constants
  <2>4. Linking(J, K, s, b, k, TRUE)
    BY <1>1, <1>3, <2>1, <2>3, LinkToFields
  <2> DEFINE e == [dep |-> b, linked |-> TRUE]
  <2>5. Spares(J, K, {s}) /\ K[s].deps = Append(J[s].deps, e)
    BY <1>1, <2>4 DEF Linking, Spares, Spared
  <2>6. e \in [dep : Headers, linked : BOOLEAN] /\ e.dep = b
    BY <1>1
  <2> HIDE DEF e
  <2>7. Wired(H, K, s, a, O)
    BY <1>4, <1>6, <2>5, <2>6 DEF Wired
  <2>8. QED
    BY <1>7, <2>5, <2>7 DEF K
<1>9. CASE Ready(J, b)
  <2> DEFINE r == J[b].result
             L == DropForResult(J, b)
             Z == Give(Give(Y, b, -1), r, 1)
  <2>1. b # Nil /\ b \in Headers
    BY <1>1, Constants
  <2>2. r \in Headers /\ HeapOK(L, Z, Nil) /\ Keeps(J, L) /\ IsResult(J, r)
    BY <1>1, <1>9, <2>1, DropForResultOK
  <2>3. Sheds(J, L)
    BY <1>3, <2>1, <2>2, DropForResultSheds
  <2>4. r # s /\ Unready(J, s)
    <3>1. Unready(J, s)
      BY <1>1 DEF Building
    <3>2. ~ IsResult(J, s)
      BY <1>1, <3>1, KindFacts
    <3>3. QED
      BY <2>2, <3>1, <3>2
  <2>5. L[s].deps = J[s].deps /\ L \in Heaps
    BY <2>2, <2>4, HeapHeader DEF Keeps, Alike
  <2>6. O[r] = O[b]
    <3>1. H[b].result = r
      BY <1>4, <2>1 DEF Alike
    <3>2. QED
      BY <2>1, <2>2, <3>1 DEF Stands
  <2> HIDE DEF L, Z, r
  <2>7. K = [L EXCEPT ![s].deps = Append(@, [dep |-> r, linked |-> FALSE])]
    BY <1>2, <1>9 DEF L, r
  <2>8. Linking(L, K, s, r, k, FALSE)
    BY <2>2, <2>4, <2>5, <2>7, LinkDoneFields
  <2> DEFINE e == [dep |-> r, linked |-> FALSE]
  <2>9. Spares(L, K, {s}) /\ K[s].deps = Append(L[s].deps, e)
    BY <2>2, <2>4, <2>8 DEF Linking, Spares, Spared
  <2>10. e \in [dep : Headers, linked : BOOLEAN] /\ e.dep = r
    BY <2>2
  <2> HIDE DEF e
  <2>11. Wired(H, K, s, a, O)
    BY <1>4, <1>6, <2>5, <2>6, <2>9, <2>10 DEF Wired
  <2>12. Spares(J, K, {s})
    BY <2>3, <2>9, SparesFacts
  <2>13. QED
    BY <1>7, <2>11, <2>12 DEF K
<1>10. QED
  BY <1>8, <1>9

\* The dependencies of s stand for its arguments.
WiredTo(K, s, fs, O) == \A j \in 1 .. Len(fs) : j \in DOMAIN K[s].deps /\ O[K[s].deps[j].dep] = O[fs[j]]

\* Linking the arguments: the dependencies of s are headers that stand for its arguments.
LEMMA LinkAllWires ==
  ASSUME NEW H, NEW B \in Tallies, NEW s \in Headers, NEW fs \in Seq(Headers), Len(fs) <= MaxArgs,
         \A x \in Headers \ {Always} : B[x] >= 0, \A j \in DOMAIN fs : fs[j] # s,
         HeapOK(H, Owed(B, fs, 0), Nil), Building(H, Owed(B, fs, 0), s, 0), NEW O, Stands(H, O)
  PROVE  Spares(H, LinkAll(H, s, fs), {s}) /\ WiredTo(LinkAll(H, s, fs), s, fs, O)
<1> DEFINE n == Len(fs)
<1>1. n \in Nat /\ DOMAIN fs = 1 .. n /\ n <= MaxArgs /\ MaxArgs \in Nat
  BY LenProperties, Constants
<1>2. PICK f : LinkRun(f, H, s, fs, n) /\ LinkAll(H, s, fs) = f[n]
  BY <1>1, LinkAllRun
<1>3. f[0] = H /\ \A k \in 1 .. n : f[k] = LinkDependency(f[k - 1], s, k, fs[k])
  BY <1>1, <1>2 DEF LinkRun
<1>4. \A k \in 0 .. n : /\ HeapOK(f[k], Owed(B, fs, k), Nil) /\ Building(f[k], Owed(B, fs, k), s, k)
                        /\ k # n => Linkable(Owed(B, fs, k), s, fs[k + 1])
  BY <1>2, LinkRunOK
<1> HIDE DEF n
<1> DEFINE Good(k) == /\ Spares(H, f[k], {s}) /\ Stands(f[k], O) /\ f[k][s].deps \in DepLists /\ Len(f[k][s].deps) = k
                      /\ \A j \in 1 .. k : O[f[k][s].deps[j].dep] = O[fs[j]]
<1>5. Good(0)
  <2>1. Spares(H, H, {s})
    BY SparesFacts
  <2>2. H[s].deps \in DepLists /\ Len(H[s].deps) = 0
    BY HeapHeader, FieldTypes DEF DepLists, Building
  <2>3. QED
    BY <1>3, <2>1, <2>2
<1>6. ASSUME NEW k \in 1 .. n, Good(k - 1)
      PROVE  Good(k)
  <2> DEFINE J == f[k - 1]
             X == Owed(B, fs, k - 1)
             a == fs[k]
             K == f[k]
  <2>1. k - 1 \in 0 .. n /\ k - 1 # n /\ (k - 1) + 1 = k /\ k \in 1 .. MaxArgs /\ k \in 0 .. n
    BY <1>1
  <2>2. HeapOK(J, X, Nil) /\ Building(J, X, s, k - 1) /\ Linkable(X, s, a)
    BY <1>4, <2>1
  <2>3. K = LinkDependency(J, s, k, a)
    BY <1>3
  <2>4. /\ Spares(H, J, {s}) /\ Stands(J, O) /\ J[s].deps \in DepLists /\ Len(J[s].deps) = k - 1
        /\ \A j \in 1 .. k - 1 : O[J[s].deps[j].dep] = O[fs[j]]
    BY <1>6
  <2> HIDE DEF J, X, a, K
  <2>5. X \in Tallies
    BY <2>2 DEF Linkable
  <2>12. a \in Headers
    BY <2>2 DEF Linkable
  <2>6. Spares(J, K, {s}) /\ Stands(K, O) /\ Wired(J, K, s, a, O)
    BY <2>12, <2>1, <2>2, <2>3, <2>4, <2>5, LinkDependencyWires
  <2>7. Spares(H, K, {s})
    BY <2>4, <2>6, SparesFacts
  <2>8. PICK e \in [dep : Headers, linked : BOOLEAN] : K[s].deps = Append(J[s].deps, e) /\ O[e.dep] = O[a]
    BY <2>6 DEF Wired
  <2>9. /\ K[s].deps \in DepLists /\ Len(K[s].deps) = k /\ K[s].deps[k] = e
        /\ \A j \in 1 .. k - 1 : K[s].deps[j] = J[s].deps[j]
    BY <2>1, <2>4, <2>8 DEF DepLists
  <2>10. ASSUME NEW j \in 1 .. k
         PROVE  O[K[s].deps[j].dep] = O[fs[j]]
    <3>1. CASE j = k
      BY <2>8, <2>9, <3>1 DEF a
    <3>2. CASE j # k
      <4>1. j \in 1 .. k - 1
        BY <2>1, <3>2
      <4>2. QED
        BY <2>4, <2>9, <4>1
    <3>3. QED
      BY <3>1, <3>2
  <2>11. QED
    BY <2>6, <2>7, <2>9, <2>10 DEF K
<1> HIDE DEF Good
<1>7. \A k \in 0 .. n : Good(k)
  <2> DEFINE Bad == {k \in Nat : k <= n /\ ~ Good(k)}
  <2> SUFFICES ASSUME Bad # {}
               PROVE  FALSE
    BY <1>1
  <2>1. PICK k \in Bad : \A j \in Bad : k <= j
    BY LeastNat
  <2>2. k \in Nat /\ k <= n /\ ~ Good(k) /\ k # 0
    BY <1>5, <2>1
  <2>3. k \in 1 .. n /\ k - 1 \in Nat /\ k - 1 <= n /\ ~ (k <= k - 1)
    BY <1>1, <2>2
  <2>4. Good(k - 1)
    BY <2>1, <2>3
  <2>5. QED
    BY <1>6, <2>2, <2>3, <2>4
<1>8. Good(n)
  BY <1>1, <1>7
<1>9. /\ Spares(H, f[n], {s}) /\ f[n][s].deps \in DepLists /\ Len(f[n][s].deps) = n
      /\ \A j \in 1 .. n : O[f[n][s].deps[j].dep] = O[fs[j]]
  BY <1>8 DEF Good
<1>10. DOMAIN f[n][s].deps = 1 .. n
  BY <1>9 DEF DepLists
<1>11. WiredTo(f[n], s, fs, O)
  BY <1>9, <1>10 DEF n, WiredTo
<1>12. QED
  BY <1>2, <1>9, <1>11 DEF n

\* Nothing waits for itself once links are resolved and bodies destroyed.
LEMMA AcyclicKept ==
  ASSUME NEW H, NEW K, NEW S, NEW h, NEW t, Acyclic(H), Alters(H, K, S, h, t, FALSE),
         \A d \in Headers : K[d].kind = "dead" \/ d \in S => K[d].deps = <<>>
  PROVE  Acyclic(K)
<1> SUFFICES ASSUME NEW T \in (SUBSET Headers) \ {{}}
             PROVE  \E x \in T : ~ WaitsInto(K, x, T)
  BY DEF Acyclic
<1>1. PICK x \in T : ~ WaitsInto(H, x, T)
  BY DEF Acyclic
<1>2. x \in Headers
  BY <1>1
<1>3. SUFFICES ASSUME NEW k \in DOMAIN K[x].deps, K[x].deps[k].linked, K[x].deps[k].dep \in T
               PROVE  FALSE
  BY <1>1 DEF WaitsInto
<1>4. x \notin S /\ K[x].kind # "dead"
  BY <1>2, <1>3
<1>5. Moved(H[x], K[x], h, t, FALSE)
  BY <1>2, <1>4 DEF Alters
<1>6. k \in DOMAIN H[x].deps /\ K[x].deps[k] = H[x].deps[k]
  BY <1>3, <1>4, <1>5 DEF Moved
<1>7. QED
  BY <1>1, <1>3, <1>6 DEF WaitsInto

\* Nothing waits for itself once a dependent is made: nothing waits for the new header.
LEMMA AcyclicNew ==
  ASSUME NEW H, NEW K, NEW h \in Headers, Acyclic(H), Spares(H, K, {h}),
         \A d \in Headers : K[d].kind = "dead" => K[d].deps = <<>>,
         \A d \in Headers \ {h} : \A k \in DOMAIN H[d].deps : H[d].deps[k].dep # h,
         \A k \in DOMAIN K[h].deps : K[h].deps[k].dep # h
  PROVE  Acyclic(K)
<1> SUFFICES ASSUME NEW T \in (SUBSET Headers) \ {{}}
             PROVE  \E x \in T : ~ WaitsInto(K, x, T)
  BY DEF Acyclic
<1>1. CASE T \subseteq {h}
  <2>1. T = {h}
    BY <1>1
  <2>2. ~ WaitsInto(K, h, T)
    BY <2>1 DEF WaitsInto
  <2>3. QED
    BY <2>1, <2>2
<1>2. CASE ~ (T \subseteq {h})
  <2> DEFINE V == T \ {h}
  <2>1. V \in (SUBSET Headers) \ {{}}
    BY <1>2
  <2>2. PICK x \in V : ~ WaitsInto(H, x, V)
    BY <2>1 DEF Acyclic
  <2>3. x \in Headers \ {h} /\ x \in T
    BY <2>2
  <2>4. SUFFICES ASSUME NEW k \in DOMAIN K[x].deps, K[x].deps[k].linked, K[x].deps[k].dep \in T
                 PROVE  FALSE
    BY <2>3 DEF WaitsInto
  <2>5. K[x].kind # "dead"
    BY <2>3, <2>4
  <2>6. Spared(H[x], K[x])
    BY <2>3 DEF Spares
  <2>7. K[x].deps = H[x].deps
    BY <2>5, <2>6 DEF Spared
  <2>8. K[x].deps[k].dep # h
    BY <2>3, <2>4, <2>7
  <2>9. QED
    BY <2>2, <2>4, <2>7, <2>8 DEF WaitsInto
<1>3. QED
  BY <1>1, <1>2

\* Nothing waits for itself once h is a proxy of b, when what b waits for, U, does not include h.
LEMMA AcyclicProxy ==
  ASSUME NEW H, NEW K, NEW h \in Headers, NEW b \in Headers, Acyclic(H), Alters(H, K, {h}, h, b, TRUE),
         \A d \in Headers : K[d].kind = "dead" => K[d].deps = <<>>,
         K[h].deps = <<[dep |-> b, linked |-> TRUE]>>,
         NEW U, b \in U, h \notin U,
         \A d \in U : \A k \in DOMAIN H[d].deps : H[d].deps[k].linked => H[d].deps[k].dep \in U
  PROVE  Acyclic(K)
<1> SUFFICES ASSUME NEW T \in (SUBSET Headers) \ {{}}
             PROVE  \E x \in T : ~ WaitsInto(K, x, T)
  BY DEF Acyclic
<1>0. ASSUME NEW x \in Headers \ {h}, NEW k \in DOMAIN K[x].deps, K[x].deps[k].linked
      PROVE  /\ k \in DOMAIN H[x].deps
             /\ K[x].deps[k] = H[x].deps[k] \/ (H[x].deps[k].linked /\ H[x].deps[k].dep = h /\ K[x].deps[k].dep = b)
  <2>1. K[x].kind # "dead"
    BY <1>0
  <2>2. Moved(H[x], K[x], h, b, TRUE)
    BY DEF Alters
  <2>3. QED
    BY <1>0, <2>1, <2>2 DEF Moved
<1>1. CASE T \cap U # {}
  <2> DEFINE V == T \cap U
  <2>1. V \in (SUBSET Headers) \ {{}}
    BY <1>1
  <2>2. PICK x \in V : ~ WaitsInto(H, x, V)
    BY <2>1 DEF Acyclic
  <2>3. x \in Headers \ {h} /\ x \in T /\ x \in U
    BY <2>2
  <2>4. SUFFICES ASSUME NEW k \in DOMAIN K[x].deps, K[x].deps[k].linked, K[x].deps[k].dep \in T
                 PROVE  FALSE
    BY <2>3 DEF WaitsInto
  <2>5. k \in DOMAIN H[x].deps
    BY <1>0, <2>3, <2>4
  <2>6. ~ (H[x].deps[k].linked /\ H[x].deps[k].dep = h)
    BY <2>3, <2>5
  <2>7. K[x].deps[k] = H[x].deps[k]
    BY <1>0, <2>3, <2>4, <2>6
  <2>8. H[x].deps[k].linked /\ H[x].deps[k].dep \in V
    BY <2>3, <2>4, <2>5, <2>7
  <2>9. QED
    BY <2>2, <2>5, <2>8 DEF WaitsInto
<1>2. CASE T \cap U = {}
  <2>1. PICK x \in T : ~ WaitsInto(H, x, T)
    BY DEF Acyclic
  <2>2. b \notin T
    BY <1>2
  <2>3. SUFFICES ASSUME NEW k \in DOMAIN K[x].deps, K[x].deps[k].linked, K[x].deps[k].dep \in T
                 PROVE  FALSE
    BY <2>1 DEF WaitsInto
  <2>4. CASE x = h
    <3>1. DOMAIN K[h].deps = {1} /\ K[h].deps[1].dep = b
      OBVIOUS
    <3>2. QED
      BY <2>2, <2>3, <2>4, <3>1
  <2>5. CASE x # h
    <3>1. x \in Headers \ {h}
      BY <2>1, <2>5
    <3>2. k \in DOMAIN H[x].deps /\ K[x].deps[k] = H[x].deps[k]
      BY <1>0, <2>2, <2>3, <3>1
    <3>3. QED
      BY <2>1, <2>3, <3>2 DEF WaitsInto
  <2>6. QED
    BY <2>4, <2>5
<1>3. QED
  BY <1>1, <1>2

\* What a header waits for, transitively, is closed: MaxHeaders rounds reach every header.
LEMMA UpstreamClosed ==
  ASSUME hdr \in Heaps, NEW h \in Headers
  PROVE  Upstream(h) \subseteq Headers /\ \A x \in Upstream(h) : WaitsOn(x) \subseteq Upstream(h)
<1> DEFINE M == MaxHeaders
           f == CHOOSE g : g = [k \in 0 .. M |-> IF k = 0 THEN {h} ELSE g[k - 1] \cup UNION {WaitsOn(x) : x \in g[k - 1]}]
<1>1. M \in Nat \ {0} /\ Headers = 0 .. M
  BY Constants DEF Headers
<1>2. \E g : g = [k \in 0 .. M |-> IF k = 0 THEN {h} ELSE g[k - 1] \cup UNION {WaitsOn(x) : x \in g[k - 1]}]
  <2>1. PICK g : UpRun(g, h, M)
    BY <1>1, UpRunExists
  <2>2. QED
    BY <2>1 DEF UpRun, Grow
<1>3. f = [k \in 0 .. M |-> IF k = 0 THEN {h} ELSE f[k - 1] \cup UNION {WaitsOn(x) : x \in f[k - 1]}]
  BY <1>2
<1>4. Upstream(h) = f[M]
  BY DEF Upstream
<1> HIDE DEF f, M
<1>5. f[0] = {h} /\ \A k \in 1 .. M : f[k] = Grow(f[k - 1])
  <2>1. \A k \in 0 .. M : f[k] = IF k = 0 THEN {h} ELSE Grow(f[k - 1])
    BY <1>3 DEF Grow
  <2>2. 0 \in 0 .. M /\ \A k \in 1 .. M : k \in 0 .. M /\ k # 0
    BY <1>1
  <2>3. QED
    BY <2>1, <2>2
<1>6. \A x \in Headers : WaitsOn(x) \subseteq Headers
  BY FieldTypes DEF WaitsOn
<1>7. \A A : A \subseteq Headers => Grow(A) \subseteq Headers /\ A \subseteq Grow(A)
  BY <1>6 DEF Grow
<1>8. IsFiniteSet(Headers) /\ Cardinality(Headers) = M + 1
  <2>1. 0 \in Int /\ M \in Int
    BY <1>1
  <2>2. IsFiniteSet(0 .. M) /\ Cardinality(0 .. M) = IF 0 > M THEN 0 ELSE M - 0 + 1
    BY <2>1, FS_Interval
  <2>3. QED
    BY <1>1, <2>2
<1> DEFINE Good(k) == f[k] \subseteq Headers /\ (Grow(f[k]) = f[k] \/ Cardinality(f[k]) >= k + 1)
<1>9. Good(0)
  <2>1. Cardinality({h}) = 1
    BY FS_Singleton
  <2>2. QED
    BY <1>5, <2>1
<1>10. ASSUME NEW k \in 1 .. M, Good(k - 1)
       PROVE  Good(k)
  <2> DEFINE A == f[k - 1]
             B == f[k]
  <2>1. B = Grow(A) /\ A \subseteq Headers /\ (Grow(A) = A \/ Cardinality(A) >= k)
    BY <1>5, <1>10
  <2> HIDE DEF A, B
  <2>2. B \subseteq Headers /\ A \subseteq B
    BY <1>7, <2>1
  <2>3. CASE Grow(A) = A
    BY <2>1, <2>2, <2>3 DEF B
  <2>4. CASE Grow(A) # A
    <3>1. IsFiniteSet(B)
      BY <1>8, <2>2, FS_Subset
    <3>2. Cardinality(A) <= Cardinality(B) /\ Cardinality(A) # Cardinality(B) /\ IsFiniteSet(A)
      BY <2>1, <2>2, <2>4, <3>1, FS_Subset
    <3>3. Cardinality(A) \in Nat /\ Cardinality(B) \in Nat
      BY <3>1, <3>2, FS_CardinalityType
    <3>4. Cardinality(B) >= k + 1
      BY <2>1, <2>4, <3>2, <3>3
    <3>5. QED
      BY <2>2, <3>4 DEF B
  <2>5. QED
    BY <2>3, <2>4
<1> HIDE DEF Good
<1>11. Good(M)
  <2> DEFINE Bad == {k \in Nat : k <= M /\ ~ Good(k)}
  <2> SUFFICES ASSUME Bad # {}
               PROVE  FALSE
    BY <1>1
  <2>1. PICK k \in Bad : \A j \in Bad : k <= j
    BY LeastNat
  <2>2. k \in Nat /\ k <= M /\ ~ Good(k) /\ k # 0
    BY <1>9, <2>1
  <2>3. k \in 1 .. M /\ k - 1 \in Nat /\ k - 1 <= M /\ ~ (k <= k - 1)
    BY <1>1, <2>2
  <2>4. Good(k - 1)
    BY <2>1, <2>3
  <2>5. QED
    BY <1>10, <2>2, <2>3, <2>4
<1>12. f[M] \subseteq Headers /\ Grow(f[M]) = f[M]
  <2>1. f[M] \subseteq Headers /\ (Grow(f[M]) = f[M] \/ Cardinality(f[M]) >= M + 1)
    BY <1>11 DEF Good
  <2>2. CASE Cardinality(f[M]) >= M + 1
    <3>1. Cardinality(f[M]) <= Cardinality(Headers) /\ IsFiniteSet(f[M])
      BY <1>8, <2>1, FS_Subset
    <3>2. Cardinality(f[M]) \in Nat
      BY <3>1, FS_CardinalityType
    <3>3. Cardinality(f[M]) = Cardinality(Headers)
      BY <1>1, <1>8, <2>2, <3>1, <3>2
    <3>4. f[M] = Headers
      BY <1>8, <2>1, <3>3, FS_Subset
    <3>5. QED
      BY <1>7, <3>4
  <2>3. QED
    BY <2>1, <2>2
<1>13. QED
  BY <1>4, <1>12 DEF Grow

-----------------------------------------------------------------------------
(* The invariant                                                           *)

\* What a step leaves of the dependents other than h.
Rest(H, K, h) ==
  \A x \in Headers \ {h} :
    /\ Unready(K, x) <=> Unready(H, x)
    /\ Unready(H, x) => K[x].body = H[x].body
    /\ x \in Due(H) => x \in Due(K) /\ K[x].status = H[x].status

\* Steps that leave the other dependents alone, and their composition.
LEMMA RestFacts ==
  /\ \A H, K, h : Moves(H, K, h) => Rest(H, K, h)
  /\ \A H, K, L, h : Rest(H, K, h) /\ Rest(K, L, h) => Rest(H, L, h)
  /\ \A H, K, h : Keeps(H, K) => Rest(H, K, h)
<1>1. \A H, K, h : Moves(H, K, h) => Rest(H, K, h)
  BY DEF Moves, Rest
<1>2. ASSUME NEW H, NEW K, NEW L, NEW h, Rest(H, K, h), Rest(K, L, h)
      PROVE  Rest(H, L, h)
  BY <1>2 DEF Rest
<1>3. ASSUME NEW H, NEW K, NEW h, Keeps(H, K)
      PROVE  Rest(H, K, h)
  <2>1. Due(K) = Due(H) /\ \A x \in Headers : Unready(K, x) <=> Unready(H, x)
    BY <1>3, KeepsFacts
  <2>2. \A x \in Headers : Unready(H, x) => K[x].body = H[x].body /\ K[x].status = H[x].status
    BY <1>3 DEF Keeps, Alike
  <2>3. \A x \in Due(H) : Unready(H, x) /\ x \in Headers
    BY DEF Due
  <2>4. QED
    BY <2>1, <2>2, <2>3 DEF Rest
<1>4. QED
  BY <1>1, <1>2, <1>3

\* What the steps say of values: h is deleted, h is deleted or ready with result r, h is a proxy of b.
Vanishes(H, K, h)      == Alters(H, K, {h}, h, h, FALSE) /\ K[h].kind = "dead"
Resolves(H, K, S, h, r) ==
  /\ Alters(H, K, S, h, r, FALSE)
  /\ K[h].kind = "dead" \/ (K[h].result = r /\ K[h].body = "none" /\ K[h].deps = <<>>)
Redirects(H, K, h, b) ==
  Alters(H, K, {h}, h, b, TRUE) /\ K[h].body = "proxy" /\ K[h].deps = <<[dep |-> b, linked |-> TRUE]>>

\* The parts of the invariant, in the form the steps use.
LEMMA InvFacts ==
  ASSUME FutureInv
  PROVE  /\ hdr \in Heaps /\ user \in Tallies /\ HeapOK(hdr, user, Nil)
         /\ \A x \in Headers : user[x] \in Nat
         /\ \A x \in Headers \ {Always} : user[x] >= 0
         /\ active \in Seq(Headers) /\ Lists!IsInjective(active)
         /\ Lists!ToSet(active) = Due(hdr) \ {running} /\ Lists!ToSet(active) \subseteq Due(hdr)
         /\ running \in Headers \cup {Nil} /\ returning \in Headers \cup {Nil}
         /\ running # Nil => running \in Due(hdr)
         /\ \A x \in Headers : Holds(x) => user[x] >= 1
         /\ user \in [Headers -> Nat] /\ origin \in [Headers -> Headers] /\ args \in [Headers -> Seq(Headers)]
         /\ size \in Sizes /\ RoomKept /\ RunningOK
<1>1. TypeOK /\ HeapOK(hdr, user, Nil) /\ QueueExact /\ RunningOK /\ RoomKept
  BY DEF FutureInv
<1>2. /\ user \in [Headers -> Nat] /\ origin \in [Headers -> Headers] /\ args \in [Headers -> Seq(Headers)]
      /\ size \in Sizes /\ hdr \in Heaps /\ active \in Seq(Headers)
      /\ running \in Headers \cup {Nil} /\ returning \in Headers \cup {Nil}
  BY <1>1 DEF TypeOK, Heaps
<1>3. \A x \in Headers : user[x] \in Nat
  BY <1>2
<1>4. user \in Tallies
  BY <1>2 DEF Tallies
<1>5. Lists!IsInjective(active) /\ Lists!ToSet(active) = Due(hdr) \ {running} /\ Lists!ToSet(active) \subseteq Due(hdr)
  BY <1>1 DEF QueueExact
<1>6. running # Nil => running \in Due(hdr)
  BY <1>1, <1>2 DEF RunningOK, Due
<1>7. \A x \in Headers : Holds(x) => user[x] >= 1
  BY <1>3 DEF Holds
<1>8. \A x \in Headers \ {Always} : user[x] >= 0
  BY <1>3
<1>9. QED
  BY <1>1, <1>2, <1>3, <1>4, <1>5, <1>6, <1>7, <1>8

\* The bounds of the program that runs are within the constants.
LEMMA SizeFacts ==
  ASSUME FutureInv
  PROVE  /\ size.headers \in 1 .. MaxHeaders /\ size.countdown \in 1 .. MaxCountdown
         /\ size.args \in 1 .. MaxArgs /\ MaxHeaders - size.headers \in Nat
<1>1. size \in [headers : 1 .. MaxHeaders, refs : Nat \ {0}, countdown : 1 .. MaxCountdown, args : 1 .. MaxArgs]
  BY InvFacts, FutureAssumption
<1>2. QED
  BY <1>1, Constants

\* What is to be shown of the next state.
LEMMA InvNext ==
  ASSUME FutureInv, UNCHANGED size, HeapOK(hdr', user', Nil), user' \in [Headers -> Nat],
         origin' \in [Headers -> Headers], args' \in [Headers -> Seq(Headers)], active' \in Seq(Headers),
         running' \in Headers \cup {Nil}, returning' \in Headers \cup {Nil}, Lists!IsInjective(active'),
         Lists!ToSet(active') = Due(hdr') \ {running'}, RunningOK', RoomKept'
  PROVE  FutureInv'
<1>1. \A h \in Headers : hdr'[h].ref = -1 <=> h = Always
  <2>1. ASSUME NEW h \in Headers, h # Always
        PROVE  hdr'[h].ref # -1
    BY <2>1, KindFacts
  <2>2. hdr'[Always].ref = -1
    BY Constants, HeapHeader
  <2>3. QED
    BY <2>1, <2>2
<1>2. hdr' \in [Headers -> HeaderType]
  BY DEF HeapOK
<1>3. size' \in Sizes
  BY InvFacts
<1>4. TypeOK'
  BY <1>1, <1>2, <1>3 DEF TypeOK
<1>5. QueueExact'
  BY DEF QueueExact
<1>6. QED
  BY <1>4, <1>5 DEF FutureInv

\* The steps that only move references.
LEMMA KeepsStep ==
  ASSUME FutureInv, UNCHANGED <<size, active, running, returning, origin, args>>,
         HeapOK(hdr', user', Nil), user' \in [Headers -> Nat], Keeps(hdr, hdr')
  PROVE  FutureInv'
<1>1. Due(hdr') = Due(hdr)
  BY KeepsFacts
<1>2. Alls(hdr') = Alls(hdr)
  BY InvFacts, KeepsFacts
<1>3. IsFree(hdr') = IsFree(hdr)
  BY DEF Keeps
<1>4. RoomKept'
  <2>1. Cardinality(IsFree(hdr)) >= MaxHeaders - size.headers + Cardinality(Alls(hdr))
    BY InvFacts DEF RoomKept
  <2>2. QED
    BY <1>2, <1>3, <2>1 DEF RoomKept
<1>5. RunningOK'
  <2> SUFFICES ASSUME running # Nil
               PROVE  Unready(hdr', running) /\ hdr'[running].body = "then" /\ hdr'[running].status = StatusActive
    BY DEF RunningOK
  <2>1. Unready(hdr, running) /\ hdr[running].body = "then" /\ hdr[running].status = StatusActive /\ running \in Headers
    BY InvFacts DEF RunningOK
  <2>2. Alike(hdr'[running], hdr[running]) /\ Unready(hdr', running)
    BY <2>1, KeepsFacts DEF Keeps
  <2>3. QED
    BY <2>1, <2>2 DEF Alike
<1>6. QED
  <2>1. /\ origin' \in [Headers -> Headers] /\ args' \in [Headers -> Seq(Headers)] /\ active' \in Seq(Headers)
        /\ running' \in Headers \cup {Nil} /\ returning' \in Headers \cup {Nil} /\ Lists!IsInjective(active')
        /\ Lists!ToSet(active') = Due(hdr') \ {running'}
    BY <1>1, InvFacts
  <2>2. QED
    BY <1>4, <1>5, <2>1, InvNext

-----------------------------------------------------------------------------
(* Steps of user code                                                      *)

\* An update of the count of user futures is one of the tally.
LEMMA UserGives ==
  ASSUME FutureInv, NEW h \in Headers, NEW n \in Int, user[h] + n \in Nat
  PROVE  /\ [user EXCEPT ![h] = @ + n] \in [Headers -> Nat] /\ [user EXCEPT ![h] = @ + n] = Give(user, h, n)
<1>1. user \in [Headers -> Nat]
  BY InvFacts
<1>2. QED
  BY <1>1 DEF Give

\* Copying a reference that user code holds keeps the invariant.
LEMMA Shared ==
  ASSUME FutureInv, NEW h \in Headers, Holds(h), hdr' = AddRef(hdr, h, 1), user' = [user EXCEPT ![h] = @ + 1],
         UNCHANGED <<size, active, running, returning, origin, args>>
  PROVE  FutureInv'
<1>1. HeapOK(hdr, user, Nil) /\ user \in Tallies /\ user[h] \in Nat /\ user[h] >= 1
  BY InvFacts
<1>2. Allocated(hdr, h)
  BY <1>1, HeldAllocated
<1>3. h # Always => hdr[h].ref + 1 > 0
  BY <1>1, <1>2, KindFacts
<1>4. HeapOK(AddRef(hdr, h, 1), Give(user, h, 1), Nil) /\ Keeps(hdr, AddRef(hdr, h, 1))
  BY <1>1, <1>2, <1>3, AddRefOK
<1>5. user' = Give(user, h, 1) /\ user' \in [Headers -> Nat]
  <2>1. 1 \in Int /\ user[h] + 1 \in Nat
    BY <1>1
  <2>2. QED
    BY <2>1, UserGives
<1>6. HeapOK(hdr', user', Nil) /\ Keeps(hdr, hdr')
  BY <1>4, <1>5
<1>7. QED
  BY <1>5, <1>6, KeepsStep

\* Copying a future keeps the invariant.
LEMMA CopyFutureStep ==
  ASSUME FutureInv, UNCHANGED size, NEW h \in Headers, CopyFuture(h)
  PROVE  FutureInv'
<1>1. Holds(h) /\ hdr' = AddRef(hdr, h, 1) /\ user' = [user EXCEPT ![h] = @ + 1] /\ UNCHANGED <<size, active, running, returning, origin, args>>
  BY DEF CopyFuture
<1>2. QED
  BY <1>1, Shared

\* A when_all that is its representative keeps the invariant.
LEMMA WhenAllStealStep ==
  ASSUME FutureInv, UNCHANGED size, NEW fs, NEW rep \in DOMAIN fs, fs[rep] \in Headers, WhenAllSteal(fs, rep)
  PROVE  FutureInv'
<1> DEFINE h == fs[rep]
<1>1. Holds(h) /\ hdr' = AddRef(hdr, h, 1) /\ user' = [user EXCEPT ![h] = @ + 1] /\ UNCHANGED <<size, active, running, returning, origin, args>>
  BY DEF WhenAllSteal
<1>2. h \in Headers
  OBVIOUS
<1> HIDE DEF h
<1>3. QED
  BY <1>1, <1>2, Shared

\* ~future_impl_shref keeps the invariant.
LEMMA DropFutureStep ==
  ASSUME FutureInv, UNCHANGED size, NEW h \in Headers, DropFuture(h)
  PROVE  FutureInv'
<1>1. HeapOK(hdr, user, Nil) /\ user \in Tallies /\ user[h] \in Nat /\ (Holds(h) => user[h] >= 1)
      /\ \A x \in Headers \ {Always} : user[x] >= 0
  BY InvFacts
<1>2. Holds(h) /\ hdr' = Drop(hdr, h) /\ user' = [user EXCEPT ![h] = @ - 1] /\ UNCHANGED <<size, active, running, returning, origin, args>>
  BY DEF DropFuture
<1>3. HeapOK(Drop(hdr, h), Give(user, h, -1), Nil) /\ Keeps(hdr, Drop(hdr, h))
  BY <1>1, <1>2, DropOK
<1>4. user' = Give(user, h, -1) /\ user' \in [Headers -> Nat]
  <2>1. -1 \in Int /\ user[h] + (-1) \in Nat /\ user[h] - 1 = user[h] + (-1)
    BY <1>1, <1>2
  <2>2. user' = [user EXCEPT ![h] = @ + (-1)]
    BY <1>2, <2>1
  <2>3. QED
    BY <2>1, <2>2, UserGives
<1>5. HeapOK(hdr', user', Nil) /\ Keeps(hdr, hdr')
  BY <1>2, <1>3, <1>4
<1>6. QED
  BY <1>2, <1>4, <1>5, KeepsStep

OpenPromise(H, p, c) == H[p].kind = "promise" /\ H[p].countdown = c /\ ~ Ready(H, p) /\ Bodiless(H, p)

\* The counter of a promise that is not ready changes.
LEMMA CountdownOK ==
  ASSUME NEW H, NEW X \in Tallies, HeapOK(H, X, Nil), NEW p \in Headers, H[p].kind = "promise",
         H[p].countdown # 0, NEW c \in 0 .. MaxCountdown
  PROVE  LET K == [H EXCEPT ![p].countdown = c]
         IN  /\ HeapOK(K, X, Nil) /\ Keeps(H, K) /\ K \in Heaps /\ p \in Headers \ {Always}
             /\ \A x \in Headers : Alike(K[x], H[x])
             /\ OpenPromise(K, p, c)
<1> DEFINE K == [H EXCEPT ![p].countdown = c]
<1>1. H \in Heaps /\ HeaderOK(H, p, Nil) /\ Always \in Headers
  BY HeapHeader, Constants
<1>2. p # Always
  BY HeapHeader
<1>3. H[p].status = StatusActive + 1 /\ Bodiless(H, p)
  BY <1>1 DEF HeaderOK
<1>4. H[p] \in HeaderType /\ H \in [Headers -> HeaderType]
  BY <1>1 DEF Heaps
<1>5. [H[p] EXCEPT !.countdown = c] \in HeaderType /\ Alike([H[p] EXCEPT !.countdown = c], H[p])
      /\ [H[p] EXCEPT !.countdown = c].ref = H[p].ref /\ [H[p] EXCEPT !.countdown = c].countdown = c
  <2> DEFINE a == H[p]
  <2> HIDE DEF a
  <2>1. a \in HeaderType
    BY <1>4 DEF a
  <2>2. [a EXCEPT !.countdown = c] \in HeaderType /\ Alike([a EXCEPT !.countdown = c], a)
        /\ [a EXCEPT !.countdown = c].ref = a.ref /\ [a EXCEPT !.countdown = c].countdown = c
    BY <2>1 DEF HeaderType, Alike
  <2>3. QED
    BY <2>2 DEF a
<1>6. K[p] = [H[p] EXCEPT !.countdown = c] /\ \A x \in Headers \ {p} : K[x] = H[x]
  BY <1>4
<1>7. K \in Heaps
  <2>1. K = [x \in Headers |-> K[x]]
    BY <1>4
  <2>2. \A x \in Headers : K[x] \in HeaderType
    BY <1>4, <1>5, <1>6
  <2> HIDE DEF K
  <2>3. QED
    BY <2>1, <2>2 DEF Heaps
<1> HIDE DEF K
<1>8. \A x \in Headers : Alike(K[x], H[x]) /\ K[x].ref = H[x].ref /\ (x # p => K[x] = H[x])
  <2>1. \A x \in Headers : Alike(H[x], H[x])
    BY DEF Alike
  <2>2. QED
    BY <1>5, <1>6, <2>1
<1>9. HeapOK(K, X, Nil) /\ Keeps(H, K)
  <2> DEFINE D == {}
  <2>1. D \in SUBSET (Headers \ {Always}) /\ \A x \in D : FALSE
    OBVIOUS
  <2> HIDE DEF D
  <2>2. \A x \in Headers \ D : Alike(K[x], H[x]) /\ (K[x].countdown = H[x].countdown \/ H[x].status = StatusActive + 1)
    BY <1>3, <1>8
  <2>3. K[Always] = H[Always]
    BY <1>1, <1>2, <1>8
  <2>4. ASSUME NEW x \in Headers \ {Always}, x \notin D
        PROVE  /\ K[x].ref = H[x].ref + X[x] - X[x]
               /\ Allocated(H, x) => K[x].ref > 0
               /\ ~ Allocated(H, x) => X[x] = X[x]
    <3>1. K[x].ref = H[x].ref /\ H[x].ref \in Nat /\ X[x] \in Int
      BY <1>8, KindFacts DEF Tallies
    <3>2. Allocated(H, x) => H[x].ref > 0
      BY KindFacts
    <3>3. QED
      BY <3>1, <3>2
  <2>5. QED
    BY <1>7, <2>1, <2>2, <2>3, <2>4, Release
<1>10. OpenPromise(K, p, c)
  <2>1. K[p].countdown = c
    BY <1>5, <1>6
  <2>2. Alike(K[p], H[p])
    BY <1>8
  <2>3. K[p].status = StatusActive + 1
    BY <1>3, <2>2 DEF Alike
  <2>4. QED
    BY <1>3, <2>1, <2>2, <2>3 DEF Alike, Bodiless, Ready, StatusActive, StatusReady, OpenPromise
<1>11. QED
  BY <1>2, <1>7, <1>8, <1>9, <1>10 DEF K

\* promise::require_anonymous keeps the invariant.
LEMMA RequireAnonymousStep ==
  ASSUME FutureInv, UNCHANGED size, NEW p \in Headers, RequireAnonymous(p)
  PROVE  FutureInv'
<1> DEFINE c == hdr[p].countdown + 1
<1>1. HeapOK(hdr, user, Nil) /\ user \in Tallies /\ hdr \in Heaps /\ user \in [Headers -> Nat]
  BY InvFacts
<1>2. hdr[p].kind = "promise" /\ hdr[p].countdown \in 1 .. size.countdown - 1 /\ UNCHANGED <<size, active, running, returning, user, origin, args>>
  BY DEF RequireAnonymous
<1>3. hdr' = [hdr EXCEPT ![p].countdown = c]
  BY DEF RequireAnonymous
<1>4. c \in 0 .. MaxCountdown /\ hdr[p].countdown # 0
  <2>1. size.countdown \in 1 .. MaxCountdown /\ MaxCountdown \in Nat
    BY SizeFacts, Constants
  <2>2. QED
    BY <1>2, <2>1
<1> HIDE DEF c
<1>5. LET K == [hdr EXCEPT ![p].countdown = c] IN HeapOK(K, user, Nil) /\ Keeps(hdr, K)
  BY <1>1, <1>2, <1>4, CountdownOK
<1>6. HeapOK(hdr', user', Nil) /\ Keeps(hdr, hdr') /\ user' \in [Headers -> Nat]
  BY <1>1, <1>2, <1>3, <1>5
<1>7. QED
  BY <1>2, <1>6, KeepsStep

\* The free headers and the when_alls can be counted.
LEMMA FreeFinite ==
  ASSUME NEW H
  PROVE  /\ IsFiniteSet(IsFree(H)) /\ Cardinality(IsFree(H)) \in Nat
         /\ IsFiniteSet(Alls(H)) /\ Cardinality(Alls(H)) \in Nat
         /\ \A S : S \subseteq Alls(H) => IsFiniteSet(S) /\ Cardinality(S) \in Nat /\ Cardinality(S) <= Cardinality(Alls(H))
<1>1. IsFiniteSet(Headers) /\ IsFree(H) \subseteq Headers /\ Alls(H) \subseteq Headers
  BY FiniteCounts DEF IsFree, Alls
<1>2. IsFiniteSet(IsFree(H)) /\ IsFiniteSet(Alls(H))
  BY <1>1, FS_Subset
<1>3. Cardinality(IsFree(H)) \in Nat /\ Cardinality(Alls(H)) \in Nat
  BY <1>2, FS_CardinalityType
<1>4. ASSUME NEW S, S \subseteq Alls(H)
      PROVE  IsFiniteSet(S) /\ Cardinality(S) \in Nat /\ Cardinality(S) <= Cardinality(Alls(H))
  <2>1. IsFiniteSet(S) /\ Cardinality(S) <= Cardinality(Alls(H))
    BY <1>2, <1>4, FS_Subset
  <2>2. QED
    BY <2>1, FS_CardinalityType
<1>5. QED
  BY <1>2, <1>3, <1>4

\* Room for n headers, while the when_alls under way keep theirs.
LEMMA RoomFacts ==
  ASSUME FutureInv, NEW n \in Nat \ {0}, Room(n)
  PROVE  /\ Cardinality(IsFree(hdr)) >= MaxHeaders - size.headers + n + Cardinality(Alls(hdr))
         /\ NewHeader(hdr) \in IsFree(hdr)
<1>1. Cardinality(IsFree(hdr)) - (MaxHeaders - size.headers) >= n + Cardinality(Alls(hdr))
  BY DEF Room, Alls
<1>2. Cardinality(IsFree(hdr)) \in Nat /\ Cardinality(Alls(hdr)) \in Nat /\ MaxHeaders - size.headers \in Nat
  BY FreeFinite, SizeFacts
<1>3. Cardinality(IsFree(hdr)) >= MaxHeaders - size.headers + n + Cardinality(Alls(hdr)) /\ Cardinality(IsFree(hdr)) # 0
  BY <1>1, <1>2
<1>4. IsFree(hdr) # {}
  BY <1>3, FS_EmptySet
<1>5. QED
  BY <1>3, <1>4, NewHeaderFree

\* One free header is used up.
LEMMA FreeLess ==
  ASSUME NEW H, NEW h \in IsFree(H)
  PROVE  Cardinality(IsFree(H) \ {h}) = Cardinality(IsFree(H)) - 1
BY FreeFinite, FS_RemoveElement

\* K is H with a new header h.
Made(H, K, X, h, N) ==
  /\ HeapOK(K, Give(X, h, 1), Nil) /\ K \in Heaps
  /\ K[h] = N /\ (\A x \in Headers \ {h} : K[x] = H[x])
  /\ IsFree(K) = IsFree(H) \ {h} /\ h \in Headers \ {Always}
  /\ X[h] = 0 /\ H[h] = FreeHeader

\* Making a header in a heap without a destroyed body.
LEMMA NewMade ==
  ASSUME NEW H, NEW X \in Tallies, HeapOK(H, X, Nil), NEW h \in IsFree(H), X[h] \in Nat, NEW N, IsNew(N, h)
  PROVE  Made(H, [H EXCEPT ![h] = N], X, h, N)
<1> DEFINE K == [H EXCEPT ![h] = N]
<1>1. h \in Headers /\ H[h].kind = "free"
  BY DEF IsFree
<1>2. h # Nil /\ X[h] >= 0
  BY <1>1, Constants
<1>3. HeapOK(K, Give(X, h, 1), Nil) /\ K \in Heaps
  BY <1>2, NewOK
<1>4. K[h] = N /\ \A x \in Headers \ {h} : K[x] = H[x]
  <2>1. H \in [Headers -> HeaderType]
    BY DEF HeapOK
  <2>2. QED
    BY <1>1, <2>1
<1>5. IsFree(K) = IsFree(H) \ {h} /\ h \in Headers \ {Always}
  BY <1>2, NewOK
<1>6. H[h] = FreeHeader
  <2>1. HeaderOK(H, h, Nil)
    BY <1>1, HeapHeader
  <2>2. QED
    BY <1>1, <2>1 DEF HeaderOK
<1>7. X[h] = 0
  <2>1. CountOK(H, X, Nil, h) /\ H[h].ref = 0
    BY <1>5, <1>6, HeapHeader, MadeFields
  <2>2. Cardinality(LinksTo(H, h)) \in Nat /\ Cardinality(ResultFor(H, h)) \in Nat /\ Own(H, h, Nil) \in Nat
    BY FiniteCounts DEF Own
  <2>3. H[h].ref = X[h] + Cardinality(LinksTo(H, h)) + Cardinality(ResultFor(H, h)) + Own(H, h, Nil)
    BY <2>1 DEF CountOK
  <2>4. QED
    BY <2>1, <2>2, <2>3
<1> HIDE DEF K
<1>8. Made(H, K, X, h, N)
  BY <1>3, <1>4, <1>5, <1>6, <1>7 DEF Made
<1>9. QED
  BY <1>8 DEF K

\* A promise or a result is made.
LEMMA NewStep ==
  ASSUME FutureInv, Room(1), NEW N, N = PromiseHeader(NewHeader(hdr)) \/ N = ResultHeader(NewHeader(hdr), 1),
         hdr' = [hdr EXCEPT ![NewHeader(hdr)] = N], user' = [user EXCEPT ![NewHeader(hdr)] = 1],
         UNCHANGED <<size, active, running, returning, origin, args>>
  PROVE  FutureInv'
<1> DEFINE h == NewHeader(hdr)
           K == [hdr EXCEPT ![h] = N]
<1>1. Cardinality(IsFree(hdr)) >= MaxHeaders - size.headers + 1 + Cardinality(Alls(hdr)) /\ h \in IsFree(hdr)
  BY RoomFacts
<1>2. HeapOK(hdr, user, Nil) /\ user \in Tallies /\ hdr \in Heaps /\ user \in [Headers -> Nat]
  BY InvFacts
<1>3. h \in Headers /\ hdr[h].kind = "free"
  BY <1>1 DEF IsFree
<1>4. user[h] >= 0 /\ h # Nil
  <2> HIDE DEF h
  <2>1. user[h] \in Nat
    BY <1>2, <1>3
  <2>2. QED
    BY <1>3, <2>1, Constants
<1>5. IsNew(N, h)
  BY DEF IsNew
<1>5a. N.kind # "dependent" /\ N.body = "none"
  BY MadeFields
<1>5b. hdr' = K /\ user' = [user EXCEPT ![h] = 1]
  OBVIOUS
<1> HIDE DEF h
<1>6. /\ HeapOK(K, Give(user, h, 1), Nil) /\ K \in Heaps
      /\ K[h] = N /\ (\A x \in Headers \ {h} : K[x] = hdr[x])
      /\ IsFree(K) = IsFree(hdr) \ {h} /\ h \in Headers \ {Always}
      /\ user[h] = 0 /\ hdr[h] = FreeHeader
  <2>1. h \in IsFree(hdr) /\ user[h] \in Nat /\ IsNew(N, h)
    BY <1>1, <1>2, <1>3, <1>5
  <2>2. Made(hdr, K, user, h, N)
    BY <1>2, <2>1, NewMade
  <2> HIDE DEF K
  <2>3. QED
    BY <2>2 DEF Made
<1> HIDE DEF K
<1>7. user' = Give(user, h, 1) /\ user' \in [Headers -> Nat]
  <2>1. 1 \in Int /\ user[h] + 1 \in Nat /\ user[h] + 1 = 1
    BY <1>6
  <2>2. user' = [user EXCEPT ![h] = @ + 1]
    BY <1>5b, <2>1
  <2>3. QED
    BY <1>6, <2>1, <2>2, UserGives
<1>8. HeapOK(hdr', user', Nil)
  BY <1>5b, <1>6, <1>7
<1>9. ~ Unready(K, h) /\ ~ Unready(hdr, h)
  BY <1>3, <1>5a, <1>6 DEF Unready
<1>10. Due(K) = Due(hdr)
  BY <1>6, <1>9 DEF Due, Unready, Ready
<1>11. Alls(K) = Alls(hdr)
  <2>1. K[h].body # "all" /\ hdr[h].body # "all"
    BY <1>5a, <1>6, MadeFields
  <2>2. QED
    BY <1>6, <2>1 DEF Alls
<1>12. RoomKept'
  <2>1. Cardinality(IsFree(K)) = Cardinality(IsFree(hdr)) - 1
    BY <1>1, <1>6, FreeLess
  <2>2. Cardinality(IsFree(hdr)) \in Nat /\ Cardinality(Alls(hdr)) \in Nat /\ MaxHeaders - size.headers \in Nat
    BY FreeFinite, SizeFacts
  <2>3. Cardinality(IsFree(K)) >= MaxHeaders - size.headers + Cardinality(Alls(K))
    BY <1>1, <1>11, <2>1, <2>2
  <2>4. QED
    BY <1>5b, <2>3 DEF RoomKept
<1>13. RunningOK'
  <2> SUFFICES ASSUME running # Nil
               PROVE  Unready(K, running) /\ K[running].body = "then" /\ K[running].status = StatusActive
    BY <1>5b DEF RunningOK
  <2>1. Unready(hdr, running) /\ hdr[running].body = "then" /\ hdr[running].status = StatusActive /\ running \in Headers
    BY InvFacts DEF RunningOK
  <2>2. K[running] = hdr[running]
    BY <1>6, <1>9, <2>1
  <2>3. QED
    BY <2>1, <2>2 DEF Unready, Ready
<1>14. QED
  <2>1. /\ origin' \in [Headers -> Headers] /\ args' \in [Headers -> Seq(Headers)] /\ active' \in Seq(Headers)
        /\ running' \in Headers \cup {Nil} /\ returning' \in Headers \cup {Nil} /\ Lists!IsInjective(active')
        /\ Lists!ToSet(active') = Due(hdr') \ {running'}
    BY <1>5b, <1>10, InvFacts
  <2>2. QED
    BY <1>7, <1>8, <1>12, <1>13, <2>1, InvNext

\* promise() keeps the invariant.
LEMMA NewPromiseStep ==
  ASSUME FutureInv, UNCHANGED size, NewPromise
  PROVE  FutureInv'
<1> DEFINE N == PromiseHeader(NewHeader(hdr))
<1>1. /\ Room(1) /\ hdr' = [hdr EXCEPT ![NewHeader(hdr)] = N] /\ user' = [user EXCEPT ![NewHeader(hdr)] = 1]
      /\ UNCHANGED <<size, active, running, returning, origin, args>>
  BY DEF NewPromise
<1>2. N = PromiseHeader(NewHeader(hdr))
  OBVIOUS
<1> HIDE DEF N
<1>3. QED
  BY <1>1, <1>2, NewStep

\* make_future keeps the invariant.
LEMMA MakeFutureStep ==
  ASSUME FutureInv, UNCHANGED size, MakeFuture
  PROVE  FutureInv'
<1> DEFINE N == ResultHeader(NewHeader(hdr), 1)
<1>1. /\ Room(1) /\ hdr' = [hdr EXCEPT ![NewHeader(hdr)] = N] /\ user' = [user EXCEPT ![NewHeader(hdr)] = 1]
      /\ UNCHANGED <<size, active, running, returning, origin, args>>
  BY DEF MakeFuture
<1>2. N = ResultHeader(NewHeader(hdr), 1)
  OBVIOUS
<1> HIDE DEF N
<1>3. QED
  BY <1>1, <1>2, NewStep

\* No when_all is made by a step that leaves the other dependents alone.
LEMMA RestAlls ==
  ASSUME NEW H, NEW K, NEW X, NEW Y, NEW h, HeapOK(H, X, Nil), HeapOK(K, Y, Nil), Rest(H, K, h), h \notin Alls(K)
  PROVE  Alls(K) \subseteq Alls(H) \ {h}
<1> SUFFICES ASSUME NEW x \in Alls(K)
             PROVE  x \in Alls(H) \ {h}
  OBVIOUS
<1>1. x \in Headers \ {h} /\ K[x].body = "all"
  BY DEF Alls
<1>2. Unready(K, x)
  <2>1. ~ Bodiless(K, x)
    BY <1>1 DEF Bodiless
  <2>2. QED
    BY <1>1, <2>1, KindFacts
<1>3. Unready(H, x) /\ H[x].body = K[x].body
  BY <1>1, <1>2 DEF Rest
<1>4. QED
  BY <1>1, <1>3 DEF Alls

\* The steps by which a header leaves its state: h is ready, a proxy or deleted after it.
LEMMA LeaveStep ==
  ASSUME FutureInv, UNCHANGED size, NEW h \in Headers, Rest(hdr, hdr', h), h \notin Due(hdr'), h \notin Alls(hdr'),
         HeapOK(hdr', user', Nil), user' \in [Headers -> Nat], origin' \in [Headers -> Headers],
         args' \in [Headers -> Seq(Headers)], returning' \in Headers \cup {Nil},
         active' \in Seq(Headers), Lists!IsInjective(active'),
         Lists!ToSet(active') = (Due(hdr) \ {running, h}) \cup (Due(hdr') \ Due(hdr)),
         (running' = running /\ running # h) \/ (running' = Nil /\ running \in {Nil, h}),
         Cardinality(IsFree(hdr')) >= MaxHeaders - size.headers + Cardinality(Alls(hdr) \ {h})
  PROVE  FutureInv'
<1>1. /\ HeapOK(hdr, user, Nil) /\ running \in Headers \cup {Nil} /\ (running # Nil => running \in Due(hdr)) /\ RunningOK
      /\ Nil \notin Headers
  BY InvFacts, Constants
<1>2. running' \in Headers \cup {Nil} /\ (running' # Nil => running' \in Due(hdr) /\ running' # h /\ running' = running)
  BY <1>1
<1>3. \A x \in Due(hdr) : x \in Headers /\ Unready(hdr, x)
  BY DEF Due
<1>4. \A x \in Due(hdr') : x \in Headers
  BY DEF Due
<1>5. \A x \in Due(hdr) : x # h => x \in Due(hdr') /\ hdr'[x].status = hdr[x].status /\ Unready(hdr', x) /\ hdr'[x].body = hdr[x].body
  BY <1>3 DEF Rest
<1>6. Lists!ToSet(active') = Due(hdr') \ {running'}
  BY <1>1, <1>2, <1>3, <1>4, <1>5
<1>7. RunningOK'
  <2> SUFFICES ASSUME running' # Nil
               PROVE  Unready(hdr', running') /\ hdr'[running'].body = "then" /\ hdr'[running'].status = StatusActive
    BY DEF RunningOK
  <2>1. running' = running /\ running' \in Due(hdr) /\ running' # h
    BY <1>2
  <2>2. hdr[running].body = "then" /\ hdr[running].status = StatusActive
    BY <1>1, <2>1 DEF RunningOK
  <2>3. QED
    BY <1>5, <2>1, <2>2
<1>8. RoomKept'
  <2>1. Alls(hdr') \subseteq Alls(hdr) \ {h}
    BY <1>1, RestAlls
  <2>2. IsFiniteSet(Alls(hdr) \ {h}) /\ Cardinality(Alls(hdr) \ {h}) \in Nat
    BY FreeFinite
  <2>3. Cardinality(Alls(hdr')) <= Cardinality(Alls(hdr) \ {h})
    BY <2>1, <2>2, FS_Subset
  <2>4. Cardinality(Alls(hdr')) \in Nat /\ Cardinality(IsFree(hdr')) \in Nat /\ MaxHeaders - size.headers \in Nat
    BY FreeFinite, SizeFacts
  <2>5. Cardinality(IsFree(hdr')) >= MaxHeaders - size.headers + Cardinality(Alls(hdr'))
    BY <2>2, <2>3, <2>4
  <2>6. QED
    BY <2>5 DEF RoomKept
<1>9. QED
  BY <1>2, <1>6, <1>7, <1>8, InvNext

\* No header is made by a step that keeps the free ones.
LEMMA SameRoom ==
  ASSUME FutureInv, NEW h
  PROVE  Cardinality(IsFree(hdr)) >= MaxHeaders - size.headers + Cardinality(Alls(hdr) \ {h})
<1>1. Cardinality(IsFree(hdr)) >= MaxHeaders - size.headers + Cardinality(Alls(hdr))
  BY InvFacts DEF RoomKept
<1>2. Cardinality(IsFree(hdr)) \in Nat /\ Cardinality(Alls(hdr)) \in Nat /\ MaxHeaders - size.headers \in Nat
  BY FreeFinite, SizeFacts
<1>3. Cardinality(Alls(hdr) \ {h}) \in Nat /\ Cardinality(Alls(hdr) \ {h}) <= Cardinality(Alls(hdr))
  BY FreeFinite
<1>4. QED
  BY <1>1, <1>2, <1>3

\* promise::fulfill_anonymous keeps the invariant, the last decrement included.
LEMMA FulfillStep ==
  ASSUME FutureInv, UNCHANGED size, NEW p \in Headers, NEW n \in 1 .. size.countdown, Fulfill(p, n)
  PROVE  /\ FutureInv' /\ Alters(hdr, hdr', {p}, p, p, FALSE)
         /\ hdr'[p].kind = "dead" \/ (hdr'[p].kind = "promise" /\ (Ready(hdr', p) \/ hdr'[p].countdown > 0))
<1> DEFINE c == hdr[p].countdown - n
           H == [hdr EXCEPT ![p].countdown = c]
           E == EnterReady(H, active, p, p)
<1>1. /\ HeapOK(hdr, user, Nil) /\ user \in Tallies /\ hdr \in Heaps /\ user \in [Headers -> Nat]
      /\ active \in Seq(Headers) /\ Lists!IsInjective(active) /\ Lists!ToSet(active) = Due(hdr) \ {running}
      /\ Lists!ToSet(active) \subseteq Due(hdr) /\ returning \in Headers \cup {Nil}
      /\ origin \in [Headers -> Headers] /\ args \in [Headers -> Seq(Headers)]
  BY InvFacts
<1>2. hdr[p].kind = "promise" /\ n <= hdr[p].countdown /\ UNCHANGED <<size, running, returning, user, origin, args>>
      /\ IF n = hdr[p].countdown THEN hdr' = E.heap /\ active' = E.queue ELSE hdr' = H /\ UNCHANGED active
  BY DEF Fulfill
<1>3. hdr[p].countdown \in 0 .. MaxCountdown /\ size.countdown \in 1 .. MaxCountdown /\ MaxCountdown \in Nat
  BY <1>1, FieldTypes, SizeFacts, Constants
<1>4. c \in 0 .. MaxCountdown /\ hdr[p].countdown # 0 /\ (IF n = hdr[p].countdown THEN c = 0 ELSE c > 0)
  BY <1>2, <1>3
<1> HIDE DEF c
<1>5. /\ HeapOK(H, user, Nil) /\ Keeps(hdr, H) /\ H \in Heaps /\ p \in Headers \ {Always}
  BY <1>1, <1>2, <1>4, CountdownOK
<1>6. H[p].kind = "promise" /\ H[p].countdown = c /\ ~ Ready(H, p) /\ Bodiless(H, p)
  <2>1. OpenPromise(H, p, c)
    BY <1>1, <1>2, <1>4, CountdownOK
  <2> HIDE DEF H
  <2>2. QED
    BY <2>1 DEF OpenPromise
<1>6a. \A x \in Headers \ {p} : H[x] = hdr[x]
  BY <1>1 DEF Heaps
<1> HIDE DEF H
<1>6b. Spares(hdr, H, {p})
  BY <1>6a, SparesExcept
<1>7. CASE n # hdr[p].countdown
  <2>1. hdr' = H /\ UNCHANGED active
    BY <1>2, <1>7
  <2>2. HeapOK(hdr', user', Nil) /\ Keeps(hdr, hdr') /\ user' \in [Headers -> Nat]
    BY <1>1, <1>2, <1>5, <2>1
  <2>3. FutureInv'
    BY <1>2, <2>1, <2>2, KeepsStep
  <2>4. Alters(hdr, hdr', {p}, p, p, FALSE) /\ hdr'[p].kind = "promise" /\ hdr'[p].countdown > 0
    BY <1>4, <1>6, <1>6b, <1>7, <2>1, SparesFacts
  <2>5. QED
    BY <2>3, <2>4
<1>8. CASE n = hdr[p].countdown
  <2>1. hdr' = E.heap /\ active' = E.queue
    BY <1>2, <1>8
  <2>2. Cleared(H, p) = H
    BY <1>5, <1>6, ClearedSame
  <2>3. Readied(Cleared(H, p), user, Nil, p, p)
    BY <1>4, <1>5, <1>6, <1>8, <2>2 DEF Readied
  <2>4. Due(H) = Due(hdr)
    BY <1>5, KeepsFacts
  <2>5. Lists!ToSet(active) \subseteq Due(Cleared(H, p))
    BY <1>1, <2>2, <2>4
  <2>6. LET C == Cleared(H, p)
        IN  /\ HeapOK(E.heap, user, Nil)
            /\ E.queue \in Seq(Headers) /\ Lists!IsInjective(E.queue)
            /\ Lists!ToSet(E.queue) = Lists!ToSet(active) \cup (Due(E.heap) \ Due(C))
            /\ Moves(C, E.heap, p) /\ ~ Unready(E.heap, p)
    BY <1>1, <1>5, <2>3, <2>5, EnterReadyOK
  <2>6a. Alters(H, E.heap, {p}, p, p, FALSE) /\ TurnedReady(H[p], E.heap[p], p)
    BY <1>1, <1>5, <2>3, EnterReadyAlters
  <2> HIDE DEF E
  <2>7. p \notin Due(hdr) /\ p # running
    <3>1. p \notin Due(hdr)
      BY <1>2 DEF Due, Unready
    <3>2. running # Nil => running \in Due(hdr)
      BY InvFacts
    <3>3. QED
      BY <3>1, <3>2, Constants
  <2>8. Lists!ToSet(active') = (Due(hdr) \ {running, p}) \cup (Due(hdr') \ Due(hdr))
    BY <1>1, <2>1, <2>2, <2>4, <2>6, <2>7
  <2>9. Rest(hdr, hdr', p)
    <3>1. Moves(H, hdr', p)
      BY <2>1, <2>2, <2>6
    <3>2. QED
      BY <1>5, <3>1, RestFacts
  <2>10. p \notin Due(hdr') /\ p \notin Alls(hdr')
    <3>1. Bodiless(hdr', p) /\ ~ Unready(hdr', p)
      BY <2>1, <2>6, KindFacts
    <3>2. QED
      BY <3>1 DEF Bodiless, Due, Alls
  <2>11. IsFree(hdr') = IsFree(hdr)
    BY <1>5, <2>1, <2>2, <2>6 DEF Moves, Keeps
  <2>12. Cardinality(IsFree(hdr')) >= MaxHeaders - size.headers + Cardinality(Alls(hdr) \ {p})
    BY <2>11, SameRoom
  <2>13. /\ HeapOK(hdr', user', Nil) /\ user' \in [Headers -> Nat] /\ origin' \in [Headers -> Headers]
         /\ args' \in [Headers -> Seq(Headers)] /\ returning' \in Headers \cup {Nil}
         /\ active' \in Seq(Headers) /\ Lists!IsInjective(active')
         /\ running' = running /\ running # p
    BY <1>1, <1>2, <2>1, <2>6, <2>7
  <2>14. FutureInv'
    BY <2>8, <2>9, <2>10, <2>12, <2>13, LeaveStep
  <2>15. Alters(hdr, hdr', {p}, p, p, FALSE)
    BY <1>6b, <2>1, <2>6a, SparesFacts
  <2>16. hdr'[p].kind = "dead" \/ (hdr'[p].kind = "promise" /\ Ready(hdr', p))
    BY <1>6, <2>1, <2>6a DEF TurnedReady, Ready
  <2>17. QED
    BY <2>14, <2>15, <2>16
<1>9. QED
  BY <1>7, <1>8

-----------------------------------------------------------------------------
(* Steps of the drain                                                      *)

\* The rest of a queue of distinct headers.
LEMMA TailFacts ==
  ASSUME NEW T, NEW s \in Seq(T), Lists!IsInjective(s), s # <<>>
  PROVE  /\ Tail(s) \in Seq(T) /\ Lists!IsInjective(Tail(s)) /\ Head(s) \in T
         /\ Lists!ToSet(Tail(s)) = Lists!ToSet(s) \ {Head(s)} /\ Head(s) \in Lists!ToSet(s)
<1> DEFINE n == Len(s)
           t == Tail(s)
<1>1. n \in Nat /\ DOMAIN s = 1 .. n /\ n # 0 /\ Head(s) = s[1] /\ \A i \in 1 .. n : s[i] \in T
  BY LenProperties, ElementOfSeq, EmptySeq, HeadTailProperties
<1>2. t \in Seq(T) /\ Len(t) = n - 1 /\ \A i \in 1 .. n - 1 : t[i] = s[i + 1]
  BY <1>1, HeadTailProperties
<1> HIDE DEF t, n
<1>3. DOMAIN t = 1 .. n - 1
  BY <1>1, <1>2, LenProperties
<1>4. Lists!IsInjective(t)
  <2>1. ASSUME NEW i \in 1 .. n - 1, NEW j \in 1 .. n - 1, t[i] = t[j]
        PROVE  i = j
    <3>1. s[i + 1] = s[j + 1] /\ i + 1 \in DOMAIN s /\ j + 1 \in DOMAIN s
      BY <1>1, <1>2, <2>1
    <3>2. i + 1 = j + 1
      BY <3>1 DEF Lists!IsInjective
    <3>3. QED
      BY <1>1, <3>2
  <2>2. QED
    BY <1>3, <2>1 DEF Lists!IsInjective
<1>5. Head(s) \in T /\ Head(s) \in Lists!ToSet(s)
  BY <1>1 DEF Lists!ToSet
<1>6. Lists!ToSet(t) = Lists!ToSet(s) \ {Head(s)}
  <2>1. ASSUME NEW i \in 1 .. n - 1
        PROVE  t[i] \in Lists!ToSet(s) \ {s[1]}
    <3>1. i + 1 \in DOMAIN s /\ 1 \in DOMAIN s /\ i + 1 # 1 /\ t[i] = s[i + 1]
      BY <1>1, <1>2
    <3>2. s[i + 1] # s[1]
      BY <3>1 DEF Lists!IsInjective
    <3>3. QED
      BY <3>1, <3>2 DEF Lists!ToSet
  <2>2. ASSUME NEW i \in 1 .. n, s[i] # s[1]
        PROVE  s[i] \in Lists!ToSet(t)
    <3>1. i - 1 \in 1 .. n - 1
      BY <1>1, <2>2
    <3>2. t[i - 1] = s[i]
      BY <1>1, <1>2, <3>1
    <3>3. QED
      BY <1>3, <3>1, <3>2 DEF Lists!ToSet
  <2>3. QED
    BY <1>1, <1>3, <2>1, <2>2 DEF Lists!ToSet
<1>7. QED
  BY <1>2, <1>4, <1>5, <1>6 DEF t

\* A header that is due is a dependent all of whose links are resolved.
LEMMA DueFacts ==
  ASSUME NEW H, NEW X, HeapOK(H, X, Nil), NEW h \in Due(H)
  PROVE  /\ h \in Headers \ {Always} /\ Unready(H, h) /\ OpenOf(H, h) = {} /\ BodyOK(H, h) /\ H[h].result = Nil
         /\ H[h].body # "proxy" => H[h].status = StatusActive
<1>1. h \in Headers /\ Unready(H, h) /\ H[h].status \in {0, -3}
  BY DEF Due, StatusActive, StatusProxyingActive
<1>2. BodyOK(H, h) /\ H[h].result = Nil /\ h # Always
  BY <1>1, KindFacts, Constants, HeapHeader
<1>3. IsFiniteSet(OpenOf(H, h)) /\ Cardinality(OpenOf(H, h)) \in Nat
  BY <1>1, HitsFacts
<1>4. CASE H[h].body = "proxy"
  <2>1. Len(H[h].deps) = 1 /\ ~ H[h].deps[1].linked
    BY <1>1, <1>2, <1>4 DEF BodyOK, StatusProxying
  <2>2. DOMAIN H[h].deps = {1}
    <3>1. DOMAIN H[h].deps = 1 .. Len(H[h].deps)
      BY <1>1, FieldTypes, HeapHeader
    <3>2. QED
      BY <2>1, <3>1
  <2>3. OpenOf(H, h) = {}
    BY <2>1, <2>2 DEF OpenOf
  <2>4. QED
    BY <1>1, <1>2, <1>4, <2>3
<1>5. CASE H[h].body # "proxy"
  <2>1. H[h].status = Cardinality(OpenOf(H, h))
    BY <1>2, <1>5 DEF BodyOK
  <2>2. H[h].status = 0 /\ Cardinality(OpenOf(H, h)) = 0
    BY <1>1, <1>3, <2>1
  <2>3. OpenOf(H, h) = {}
    BY <1>3, <2>2, FS_EmptySet
  <2>4. QED
    BY <1>1, <1>2, <2>2, <2>3 DEF StatusActive
<1>6. QED
  BY <1>4, <1>5

Buried(H, X, h, K) ==
  /\ HeapOK(K, BuryTally(H, X, h), Nil) /\ K[h] = DeadHeader /\ (\A x \in Headers \ {h} : K[x] = H[x])
  /\ IsFree(K) = IsFree(H) /\ Due(K) = Due(H) \ {h}

\* Deleting the header whose body was just destroyed.
LEMMA BuryLast ==
  ASSUME NEW H, NEW X \in Tallies, NEW h \in Headers \ {Always}, HeapOK(H, X, h), X[h] >= H[h].ref, Allocated(H, h)
  PROVE  Buried(H, X, h, [H EXCEPT ![h] = DeadHeader])
<1> DEFINE K == [H EXCEPT ![h] = DeadHeader]
<1>1. /\ HeapOK(K, BuryTally(H, X, h), Nil) /\ K[h] = DeadHeader /\ (\A x \in Headers \ {h} : K[x] = H[x])
  BY BuryOK
<1>2. /\ IsFree(K) = IsFree(H) /\ Due(K) = Due(H) \ {h}
  BY BuryOK
<1> HIDE DEF K
<1>3. QED
  BY <1>1, <1>2 DEF Buried, K

\* The body of h is destroyed, and h with it: nobody watches it.
LEMMA DieOK ==
  ASSUME NEW H, NEW X \in Tallies, HeapOK(H, X, Nil), NEW h \in Due(H), H[h].ref = 1,
         \A x \in Headers \ {Always} : X[x] >= 0
  PROVE  LET D == [DropDeps(H, h) EXCEPT ![h] = DeadHeader]
         IN  /\ HeapOK(D, X, Nil) /\ IsFree(D) = IsFree(H) /\ Due(D) = Due(H) \ {h} /\ Rest(H, D, h)
             /\ h \notin Alls(D) /\ D = [Cleared(DropDeps(H, h), h) EXCEPT ![h] = DeadHeader]
<1> DEFINE G == DropDeps(H, h)
           K == Cleared(G, h)
           D == [G EXCEPT ![h] = DeadHeader]
           L == [K EXCEPT ![h] = DeadHeader]
           Y == Give(X, h, 1)
           Z == BuryTally(K, Y, h)
<1>1. h \in Headers \ {Always} /\ Unready(H, h) /\ OpenOf(H, h) = {} /\ h \in Headers
  BY DueFacts
<1>2. /\ HeapOK(K, Y, h) /\ Y \in Tallies /\ K \in Heaps /\ G \in Heaps /\ G[h] = H[h]
      /\ IsFree(K) = IsFree(H) /\ Due(K) = Due(H)
      /\ \A x \in Headers \ {h} : Unready(H, x) \/ Unready(K, x) => Alike(K[x], H[x])
  BY <1>1, DropDepsOK
<1>3. Unready(K, h) /\ K[h].ref = H[h].ref
  BY <1>1, DropDepsOK
<1>4. \A x \in Headers \ {h} : K[x] = G[x]
  BY <1>1, <1>2, ClearedFields
<1> HIDE DEF G, K
<1>5. D = L
  <2>1. G \in [Headers -> HeaderType] /\ K \in [Headers -> HeaderType]
    BY <1>2 DEF Heaps
  <2>2. \A x \in Headers : D[x] = L[x]
    BY <1>4, <2>1
  <2>3. D = [x \in Headers |-> D[x]] /\ L = [x \in Headers |-> L[x]]
    BY <2>1
  <2> HIDE DEF D, L
  <2>4. QED
    BY <2>2, <2>3
<1>6. Y[h] = X[h] + 1 /\ (\A x \in Headers \ {h} : Y[x] = X[x]) /\ X[h] \in Int
  BY <1>1, GiveFacts
<1>7. Y[h] >= K[h].ref /\ Allocated(K, h) /\ K[h].result = Nil
  BY <1>1, <1>2, <1>3, <1>6, KindFacts
<1> HIDE DEF Y
<1>8. /\ HeapOK(L, Z, Nil) /\ L[h] = DeadHeader /\ (\A x \in Headers \ {h} : L[x] = K[x])
      /\ IsFree(L) = IsFree(K) /\ Due(L) = Due(K) \ {h}
  <2>1. Buried(K, Y, h, [K EXCEPT ![h] = DeadHeader])
    BY <1>1, <1>2, <1>7, BuryLast
  <2>2. Buried(K, Y, h, L)
    BY <2>1
  <2> HIDE DEF L
  <2>3. QED
    BY <2>2 DEF Buried
<1>9. X[h] = 0
  <2>1. Y[h] = K[h].ref
    BY <1>1, <1>2, <1>7, Unshared
  <2>2. QED
    BY <1>3, <1>6, <2>1
<1>10. \A x \in Headers \ {Always} : X[x] = Z[x]
  <2>1. Nil \notin Headers
    BY Constants
  <2>2. QED
    BY <1>6, <1>7, <1>9, <2>1 DEF BuryTally
<1>11. HeapOK(L, X, Nil)
  <2> HIDE DEF L, Z
  <2>1. QED
    BY <1>8, <1>10, HeapTally
<1> HIDE DEF L
<1>12. h \notin Alls(L)
  BY <1>8, MadeFields DEF Alls
<1>13. Rest(H, L, h)
  <2>1. ASSUME NEW x \in Headers \ {h}
        PROVE  /\ Unready(L, x) <=> Unready(H, x)
               /\ Unready(H, x) => L[x].body = H[x].body
               /\ x \in Due(H) => x \in Due(L) /\ L[x].status = H[x].status
    <3>1. L[x] = K[x]
      BY <1>8
    <3>2. Unready(L, x) <=> Unready(K, x)
      BY <3>1 DEF Unready, Ready
    <3>3. Unready(K, x) <=> Unready(H, x)
      BY <1>2 DEF Alike, Unready, Ready
    <3>4. Unready(H, x) => K[x].body = H[x].body /\ K[x].status = H[x].status
      BY <1>2 DEF Alike
    <3>5. x \in Due(H) => Unready(H, x) /\ x \in Due(L)
      BY <1>2, <1>8 DEF Due
    <3>6. QED
      BY <3>1, <3>2, <3>3, <3>4, <3>5
  <2>2. QED
    BY <2>1 DEF Rest
<1> HIDE DEF D
<1>14. HeapOK(D, X, Nil) /\ IsFree(D) = IsFree(H) /\ Due(D) = Due(H) \ {h} /\ Rest(H, D, h) /\ h \notin Alls(D)
  BY <1>2, <1>5, <1>8, <1>11, <1>12, <1>13
<1>15. D = [Cleared(DropDeps(H, h), h) EXCEPT ![h] = DeadHeader] /\ D = [DropDeps(H, h) EXCEPT ![h] = DeadHeader]
  BY <1>5 DEF D, L, G, K
<1>16. QED
  BY <1>14, <1>15, Zenon

\* EnterReady of a header whose body is still in place.
LEMMA EnterReadyClears ==
  ASSUME NEW H \in Heaps, NEW X \in Tallies, NEW h \in Headers \ {Always}, HeapOK(Cleared(H, h), X, h),
         Unready(Cleared(H, h), h), X[h] >= 0, NEW r \in Headers, IsResult(Cleared(H, h), r),
         NEW q \in Seq(Headers), Lists!IsInjective(q), Lists!ToSet(q) \subseteq Due(Cleared(H, h))
  PROVE  Left(Cleared(H, h), q, h, EnterReady(H, q, h, r), Give(X, r, -1))
<1> DEFINE E == EnterReady(H, q, h, r)
           C == Cleared(H, h)
<1>1. r # h /\ h \in Headers
  BY KindFacts
<1>2. Readied(Cleared(H, h), X, h, h, r)
  BY <1>1 DEF Readied
<1>3. /\ HeapOK(E.heap, Give(X, r, -1), Nil)
      /\ E.queue \in Seq(Headers) /\ Lists!IsInjective(E.queue)
      /\ Lists!ToSet(E.queue) = Lists!ToSet(q) \cup (Due(E.heap) \ Due(C))
      /\ Moves(C, E.heap, h) /\ ~ Unready(E.heap, h)
  BY <1>1, <1>2, EnterReadyOK
<1> HIDE DEF E, C
<1>4. h \notin Due(E.heap) /\ h \notin Alls(E.heap)
  <2>1. Bodiless(E.heap, h)
    BY <1>1, <1>3, KindFacts
  <2>2. QED
    BY <1>3, <2>1 DEF Due, Alls, Bodiless
<1>5. QED
  BY <1>3, <1>4 DEF Left, E, C

\* The steps of the drain after which h is ready or a proxy.
LEMMA LeftStep ==
  ASSUME FutureInv, UNCHANGED size, NEW h \in Headers, NEW K, NEW q, NEW E, Left(K, q, h, E, user'),
         Rest(hdr, K, h), Due(K) = Due(hdr), Lists!ToSet(q) = Due(hdr) \ {running, h},
         hdr' = E.heap, active' = E.queue, user' \in [Headers -> Nat], origin' \in [Headers -> Headers],
         args' \in [Headers -> Seq(Headers)], returning' \in Headers \cup {Nil},
         (running' = running /\ running # h) \/ (running' = Nil /\ running \in {Nil, h}),
         Cardinality(IsFree(K)) >= MaxHeaders - size.headers + Cardinality(Alls(hdr) \ {h})
  PROVE  FutureInv'
<1>1. /\ HeapOK(hdr', user', Nil) /\ active' \in Seq(Headers) /\ Lists!IsInjective(active')
      /\ Lists!ToSet(active') = Lists!ToSet(q) \cup (Due(hdr') \ Due(K))
      /\ Moves(K, hdr', h) /\ h \notin Due(hdr') /\ h \notin Alls(hdr')
  BY DEF Left
<1>2. Rest(hdr, hdr', h)
  BY <1>1, RestFacts
<1>3. IsFree(hdr') = IsFree(K)
  BY <1>1 DEF Moves
<1>4. Lists!ToSet(active') = (Due(hdr) \ {running, h}) \cup (Due(hdr') \ Due(hdr))
  BY <1>1
<1>5. Cardinality(IsFree(hdr')) >= MaxHeaders - size.headers + Cardinality(Alls(hdr) \ {h})
  BY <1>3
<1>6. QED
  BY <1>1, <1>2, <1>4, <1>5, LeaveStep

\* The header at the head of the active queue, and the queue behind it.
LEMMA PoppedFacts ==
  ASSUME FutureInv, NEW h, Popped(h)
  PROVE  /\ h \in Due(hdr) /\ h \in Headers \ {Always} /\ running = Nil /\ running # h
         /\ Tail(active) \in Seq(Headers) /\ Lists!IsInjective(Tail(active))
         /\ Lists!ToSet(Tail(active)) = Due(hdr) \ {running, h} /\ Lists!ToSet(Tail(active)) \subseteq Due(hdr)
         /\ \A q : Settled(q) \in Headers \cup {Nil}
<1>1. running = Nil /\ active # <<>> /\ h = Head(active)
  BY DEF Popped
<1>2. active \in Seq(Headers) /\ Lists!IsInjective(active) /\ Lists!ToSet(active) = Due(hdr) \ {running} /\ HeapOK(hdr, user, Nil)
  BY InvFacts
<1>3. /\ Tail(active) \in Seq(Headers) /\ Lists!IsInjective(Tail(active))
      /\ Lists!ToSet(Tail(active)) = Lists!ToSet(active) \ {h} /\ h \in Lists!ToSet(active)
  BY <1>1, <1>2, TailFacts
<1>4. h \in Due(hdr) /\ h # running
  BY <1>2, <1>3
<1>5. h \in Headers \ {Always}
  BY <1>2, <1>4, DueFacts
<1>6. \A q : Settled(q) \in Headers \cup {Nil}
  BY InvFacts DEF Settled
<1>7. QED
  BY <1>1, <1>2, <1>3, <1>4, <1>5, <1>6

\* Calling the callback of a then keeps the invariant.
LEMMA CallbackBeginStep ==
  ASSUME FutureInv, UNCHANGED size, NEW h, CallbackBegin(h)
  PROVE  FutureInv'
<1>1. /\ Popped(h) /\ hdr[h].body = "then" /\ running' = h /\ active' = Tail(active)
      /\ UNCHANGED <<hdr, returning, user, origin, args>>
  BY DEF CallbackBegin
<1>2. /\ h \in Due(hdr) /\ h \in Headers /\ running = Nil
      /\ Tail(active) \in Seq(Headers) /\ Lists!IsInjective(Tail(active))
      /\ Lists!ToSet(Tail(active)) = Due(hdr) \ {running, h}
  BY <1>1, PoppedFacts
<1>3. /\ HeapOK(hdr, user, Nil) /\ user \in [Headers -> Nat] /\ origin \in [Headers -> Headers]
      /\ args \in [Headers -> Seq(Headers)] /\ returning \in Headers \cup {Nil} /\ RoomKept
  BY InvFacts
<1>4. Unready(hdr, h) /\ hdr[h].status = StatusActive
  BY <1>1, <1>2, <1>3, DueFacts
<1>5. RunningOK'
  BY <1>1, <1>4 DEF RunningOK
<1>6. RoomKept'
  BY <1>1, <1>3 DEF RoomKept
<1>7. Lists!ToSet(active') = Due(hdr') \ {running'}
  <2>1. \A x \in Due(hdr) : x # Nil
    BY Constants DEF Due
  <2>2. QED
    BY <1>1, <1>2, <2>1
<1>8. QED
  <2>1. /\ HeapOK(hdr', user', Nil) /\ user' \in [Headers -> Nat] /\ origin' \in [Headers -> Headers]
        /\ args' \in [Headers -> Seq(Headers)] /\ active' \in Seq(Headers)
        /\ running' \in Headers \cup {Nil} /\ returning' \in Headers \cup {Nil} /\ Lists!IsInjective(active')
    BY <1>1, <1>2, <1>3
  <2>2. QED
    BY <1>5, <1>6, <1>7, <2>1, InvNext

\* The body of h is destroyed and h deleted: what other headers stand for stays.
LEMMA DieVanishes ==
  ASSUME NEW H \in Heaps, NEW h \in Headers
  PROVE  Vanishes(H, [DropDeps(H, h) EXCEPT ![h] = DeadHeader], h)
<1> DEFINE D == DropDeps(H, h)
           K == [D EXCEPT ![h] = DeadHeader]
<1>1. D \in Sketches /\ Sheds(H, D)
  BY HeapsSketches, DropDepsSheds
<1> HIDE DEF D
<1>2. Sheds(D, K)
  BY <1>1, BurySheds
<1>3. K[h].kind = "dead"
  BY <1>1 DEF Sketches, DeadHeader, BlankHeader
<1> HIDE DEF K
<1>4. Sheds(H, K)
  BY <1>1, <1>2, ShedsFacts
<1>5. Alters(H, K, {h}, h, h, FALSE)
  BY <1>4, SparesFacts
<1>6. QED
  BY <1>3, <1>5 DEF Vanishes, K, D

\* The steps of the drain after which h is deleted.
LEMMA DieStep ==
  ASSUME FutureInv, UNCHANGED <<size, user, running>>, NEW h, Popped(h), hdr[h].ref = 1,
         hdr' = [DropDeps(hdr, h) EXCEPT ![h] = DeadHeader], active' = Tail(active), returning' = Settled(active'),
         origin' \in [Headers -> Headers], args' \in [Headers -> Seq(Headers)]
  PROVE  FutureInv' /\ Vanishes(hdr, hdr', h)
<1>1. /\ h \in Due(hdr) /\ h \in Headers /\ running # h
      /\ Tail(active) \in Seq(Headers) /\ Lists!IsInjective(Tail(active))
      /\ Lists!ToSet(Tail(active)) = Due(hdr) \ {running, h} /\ returning' \in Headers \cup {Nil}
  BY PoppedFacts
<1>2. /\ HeapOK(hdr, user, Nil) /\ user \in Tallies /\ user \in [Headers -> Nat]
      /\ \A x \in Headers \ {Always} : user[x] >= 0
  BY InvFacts
<1>3. /\ HeapOK(hdr', user, Nil) /\ IsFree(hdr') = IsFree(hdr) /\ Due(hdr') = Due(hdr) \ {h} /\ Rest(hdr, hdr', h)
      /\ h \notin Alls(hdr')
  BY <1>1, <1>2, DieOK
<1>4. Lists!ToSet(active') = (Due(hdr) \ {running, h}) \cup (Due(hdr') \ Due(hdr)) /\ h \notin Due(hdr')
  BY <1>1, <1>3
<1>5. Cardinality(IsFree(hdr')) >= MaxHeaders - size.headers + Cardinality(Alls(hdr) \ {h})
  BY <1>3, SameRoom
<1>6. HeapOK(hdr', user', Nil) /\ user' \in [Headers -> Nat] /\ active' \in Seq(Headers) /\ Lists!IsInjective(active')
      /\ running' = running
  BY <1>1, <1>2, <1>3
<1>7. FutureInv'
  BY <1>1, <1>3, <1>4, <1>5, <1>6, LeaveStep
<1>8. Vanishes(hdr, hdr', h)
  BY <1>1, InvFacts, DieVanishes
<1>9. QED
  BY <1>7, <1>8

\* Destroying the body of h leaves the other dependents alone.
LEMMA ClearedRest ==
  ASSUME NEW H \in Heaps, NEW h \in Headers, Due(Cleared(H, h)) = Due(H)
  PROVE  Rest(H, Cleared(H, h), h) /\ IsFree(Cleared(H, h)) = IsFree(H)
<1> DEFINE C == Cleared(H, h)
<1>1. (\A x \in Headers \ {h} : C[x] = H[x]) /\ C[h].kind = H[h].kind
  BY ClearedFields
<1> HIDE DEF C
<1>2. Due(C) = Due(H)
  BY DEF C
<1>3. Rest(H, C, h)
  BY <1>1, <1>2 DEF Rest, Unready, Ready
<1>4. IsFree(C) = IsFree(H)
  BY <1>1 DEF IsFree
<1>5. QED
  BY <1>3, <1>4 DEF C

\* The reference that a proxy holds, once its body is destroyed.
LEMMA ProxyTally ==
  ASSUME NEW H \in Heaps, NEW X \in Tallies, NEW h \in Headers, Len(H[h].deps) = 1, Proxied(H, h) \in Headers \ {h}
  PROVE  LET r == Proxied(H, h)
             Y == DetachTally(H, Give(X, h, -1), h)
         IN  Y[h] = X[h] /\ \A x \in Headers : Give(Y, r, -1)[x] = X[x]
<1> DEFINE r == Proxied(H, h)
           W == Give(X, h, -1)
           Y == DetachTally(H, W, h)
<1>1. -1 \in Int /\ r \in Headers \ {h} /\ h \in Headers /\ r \in Headers
  OBVIOUS
<1>2. W \in Tallies /\ W[h] = X[h] + (-1) /\ (\A x \in Headers \ {h} : W[x] = X[x]) /\ \A x \in Headers : X[x] \in Int
  BY <1>1, GiveFacts
<1>3. DOMAIN H[h].deps = {1}
  <2>1. DOMAIN H[h].deps = 1 .. Len(H[h].deps)
    BY FieldTypes
  <2>2. QED
    BY <2>1
<1>4. \A x : Args(H, h, x) = IF x = r THEN {1} ELSE {}
  BY <1>3 DEF Args, Proxied
<1> HIDE DEF r, W
<1>5. Held(H, h, r) = 1 /\ \A x \in Headers \ {r} : Held(H, h, x) = 0
  BY <1>4, FS_Singleton, FS_EmptySet DEF Held
<1>6. \A x \in Headers : Y[x] = W[x] + Held(H, h, x) + (IF x = h THEN 1 ELSE 0)
  BY DEF DetachTally
<1>7. Y \in Tallies
  <2>1. \A x \in Headers : Held(H, h, x) \in Int
    BY HeldFacts
  <2>2. \A x \in Headers : W[x] + Held(H, h, x) + (IF x = h THEN 1 ELSE 0) \in Int
    BY <1>2, <2>1 DEF Tallies
  <2>3. QED
    BY <2>2 DEF DetachTally, Tallies
<1> HIDE DEF Y
<1>8. Y[h] = X[h] /\ Y[r] = X[r] + 1 /\ \A x \in Headers \ {h, r} : Y[x] = X[x]
  <2>1. Y[h] = X[h]
    BY <1>1, <1>2, <1>5, <1>6
  <2>2. Y[r] = X[r] + 1
    BY <1>1, <1>2, <1>5, <1>6
  <2>3. ASSUME NEW x \in Headers \ {h, r}
        PROVE  Y[x] = X[x]
    BY <1>2, <1>5, <1>6
  <2>4. QED
    BY <2>1, <2>2, <2>3
<1> DEFINE Z == Give(Y, r, -1)
<1>9. Z[r] = Y[r] + (-1) /\ \A x \in Headers \ {r} : Z[x] = Y[x]
  BY <1>1, <1>7, GiveFacts
<1> HIDE DEF Z
<1>10. \A x \in Headers : Z[x] = X[x]
  BY <1>1, <1>2, <1>8, <1>9
<1>11. QED
  BY <1>8, <1>10 DEF Z, Y, W, r

\* future_body_proxy::leave_active keeps the invariant.
LEMMA LeaveActiveProxyStep ==
  ASSUME FutureInv, UNCHANGED size, NEW h, LeaveActiveProxy(h)
  PROVE  /\ FutureInv'
         /\ \/ Vanishes(hdr, hdr', h)
            \/ Proxied(hdr, h) \in Headers /\ IsResult(hdr, Proxied(hdr, h)) /\ Resolves(hdr, hdr', {h}, h, Proxied(hdr, h))
<1> DEFINE A == AddRef(hdr, h, -1)
           r == Proxied(hdr, h)
           q == Tail(active)
           E == EnterReady(A, q, h, r)
<1>1. /\ Popped(h) /\ hdr[h].body = "proxy"
      /\ IF hdr[h].ref = 1
         THEN hdr' = [DropDeps(hdr, h) EXCEPT ![h] = DeadHeader] /\ active' = q
         ELSE hdr' = E.heap /\ active' = E.queue
      /\ returning' = Settled(active') /\ UNCHANGED <<running, user, origin, args>>
  BY DEF LeaveActiveProxy
<1>2. /\ HeapOK(hdr, user, Nil) /\ user \in Tallies /\ user \in [Headers -> Nat] /\ origin' \in [Headers -> Headers]
      /\ args' \in [Headers -> Seq(Headers)] /\ \A x \in Headers : user[x] \in Nat
  BY <1>1, InvFacts
<1>3. CASE hdr[h].ref = 1
  <2>1. hdr' = [DropDeps(hdr, h) EXCEPT ![h] = DeadHeader] /\ active' = q
    BY <1>1, <1>3
  <2>2. QED
    BY <1>1, <1>2, <1>3, <2>1, DieStep
<1>4. CASE hdr[h].ref # 1
  <2>1. hdr' = E.heap /\ active' = E.queue
    BY <1>1, <1>4
  <2>2. /\ h \in Due(hdr) /\ h \in Headers \ {Always} /\ h \in Headers /\ running = Nil /\ running # h
        /\ q \in Seq(Headers) /\ Lists!IsInjective(q) /\ Lists!ToSet(q) = Due(hdr) \ {running, h}
        /\ Lists!ToSet(q) \subseteq Due(hdr) /\ returning' \in Headers \cup {Nil}
    BY <1>1, PoppedFacts
  <2>3. Unready(hdr, h) /\ OpenOf(hdr, h) = {} /\ BodyOK(hdr, h)
    BY <1>2, <2>2, DueFacts
  <2>4. Proxying(hdr, h) /\ hdr[h].status = StatusProxyingActive
    <3>1. Len(hdr[h].deps) = 1 /\ hdr[h].status \in {0, -3}
      BY <1>1, <2>2, <2>3 DEF BodyOK, Due, StatusActive, StatusProxyingActive
    <3>2. hdr[h].status # 0
      BY <1>1, <2>3 DEF BodyOK, StatusProxying, StatusProxyingActive
    <3>3. QED
      BY <3>1, <3>2 DEF Proxying, StatusProxyingActive
  <2>5. r \in Headers \ {h} /\ IsResult(hdr, r) /\ Len(hdr[h].deps) = 1
    <3>1. h # Nil
      BY <2>2, Constants
    <3>5. Len(hdr[h].deps) = 1
      BY <1>1, <2>3 DEF BodyOK
    <3>2. Proxied(hdr, h) \in Headers \ {h}
      BY <1>2, <2>2, <2>4, <3>1, ProxiedFacts
    <3>3. hdr[h].status = StatusProxyingActive => IsResult(hdr, Proxied(hdr, h))
      BY <1>2, <2>2, <2>4, <3>1, ProxiedFacts
    <3>4. QED
      BY <2>4, <3>2, <3>3, <3>5
  <2>6. Allocated(hdr, h) /\ hdr[h].ref > 0 /\ hdr[h].ref \in Nat
    BY <1>2, <2>2, <2>3, KindFacts
  <2>7. -1 \in Int /\ hdr[h].ref + (-1) > 0
    BY <1>4, <2>6
  <2>8. /\ HeapOK(A, Give(user, h, -1), Nil) /\ Keeps(hdr, A) /\ A \in Heaps
        /\ \A x \in Headers : Alike(A[x], hdr[x])
    BY <1>2, <2>2, <2>6, <2>7, AddRefOK
  <2>9. Give(user, h, -1) \in Tallies
    BY <1>2, <2>2, <2>7, GiveFacts
  <2> HIDE DEF A
  <2>10. Unready(A, h) /\ OpenOf(A, h) = {} /\ Len(A[h].deps) = 1 /\ Proxied(A, h) = r /\ IsResult(A, r)
    BY <2>2, <2>3, <2>5, <2>8 DEF Alike, Unready, Ready, OpenOf, Proxied, IsResult
  <2> HIDE DEF r
  <2> DEFINE C == Cleared(A, h)
             Y == DetachTally(A, Give(user, h, -1), h)
  <2>11. HeapOK(C, Y, h) /\ Y \in Tallies /\ Unready(C, h) /\ Due(C) = Due(A)
    BY <2>2, <2>8, <2>9, <2>10, DetachOK
  <2>12. Y[h] = user[h] /\ \A x \in Headers : Give(Y, r, -1)[x] = user[x]
    <3>1. Proxied(A, h) \in Headers \ {h}
      BY <2>5, <2>10
    <3>2. LET b == Proxied(A, h)
              Z == DetachTally(A, Give(user, h, -1), h)
          IN  Z[h] = user[h] /\ \A x \in Headers : Give(Z, b, -1)[x] = user[x]
      BY <1>2, <2>2, <2>8, <2>10, <3>1, ProxyTally
    <3>3. QED
      BY <2>10, <3>2
  <2>13. IsResult(C, r)
    <3>1. C[r] = A[r]
      BY <2>2, <2>5, <2>8, ClearedFields
    <3>2. QED
      BY <2>10, <3>1 DEF IsResult, Ready
  <2>14. Due(C) = Due(hdr) /\ Lists!ToSet(q) \subseteq Due(C)
    BY <2>2, <2>8, <2>11, KeepsFacts
  <2> HIDE DEF Y
  <2>15. Y[h] >= 0
    BY <1>2, <2>2, <2>12
  <2> HIDE DEF q
  <2>15a. Alters(A, E.heap, {h}, h, r, FALSE) /\ TurnedReady(A[h], E.heap[h], r)
    <3>1. Readied(Cleared(A, h), Y, h, h, r)
      BY <2>2, <2>5, <2>11, <2>13 DEF Readied
    <3>2. QED
      BY <2>2, <2>5, <2>8, <3>1, EnterReadyAlters
  <2>16. Left(C, q, h, E, Give(Y, r, -1))
    BY <2>2, <2>5, <2>8, <2>11, <2>13, <2>14, <2>15, EnterReadyClears
  <2>17. Rest(A, C, h) /\ IsFree(C) = IsFree(A)
    BY <2>2, <2>8, <2>11, ClearedRest
  <2> HIDE DEF C, E
  <2>18. Left(C, q, h, E, user')
    <3>1. \A x \in Headers \ {Always} : user'[x] = Give(Y, r, -1)[x]
      BY <1>1, <2>12
    <3>2. QED
      BY <2>16, <3>1, LeftTally
  <2>19. Rest(hdr, C, h)
    BY <2>8, <2>17, RestFacts
  <2>20. Cardinality(IsFree(C)) >= MaxHeaders - size.headers + Cardinality(Alls(hdr) \ {h})
    <3>1. IsFree(C) = IsFree(hdr)
      BY <2>8, <2>17 DEF Keeps
    <3>2. QED
      BY <3>1, SameRoom
  <2>21. user' \in [Headers -> Nat] /\ running' = running
    BY <1>1, <1>2
  <2>22. FutureInv'
    BY <1>2, <2>1, <2>2, <2>14, <2>18, <2>19, <2>20, <2>21, LeftStep
  <2>23. Spares(hdr, A, {h})
    <3>1. hdr \in Sketches /\ h \in Headers /\ -1 \in Int
      BY <2>2, InvFacts, HeapsSketches
    <3>2. QED
      BY <3>1, AddRefSheds, SparesFacts DEF A
  <2>24. Resolves(hdr, hdr', {h}, h, r)
    <3>1. Alters(hdr, hdr', {h}, h, r, FALSE)
      BY <2>1, <2>15a, <2>23, SparesFacts
    <3>2. QED
      BY <2>1, <2>15a, <3>1 DEF Resolves, TurnedReady
  <2>25. QED
    BY <2>5, <2>22, <2>24 DEF r
<1>5. QED
  BY <1>3, <1>4

\* Headers with the same fields are the same.
LEMMA SameRecord ==
  ASSUME NEW a \in HeaderType, NEW b \in HeaderType, Alike(a, b), a.ref = b.ref, a.countdown = b.countdown
  PROVE  a = b
BY SMTT(30) DEF Alike, HeaderType

\* Dropping a reference to h and destroying its body, in either order.
LEMMA AddRefCleared ==
  ASSUME NEW H \in Heaps, NEW h \in Headers, H[h].ref \in Nat, H[h].ref > 0
  PROVE  /\ Cleared(AddRef(H, h, -1), h) = AddRef(Cleared(H, h), h, -1)
         /\ AddRef(H, h, -1) \in Heaps /\ AddRef(H, h, -1)[h].ref = H[h].ref - 1
<1> DEFINE C == Cleared(H, h)
           A == AddRef(H, h, -1)
           L == Cleared(A, h)
           R == AddRef(C, h, -1)
<1>1. C \in Heaps /\ C[h].ref = H[h].ref /\ C[h].countdown = H[h].countdown /\ (\A x \in Headers \ {h} : C[x] = H[x])
      /\ C[h].body = "none" /\ C[h].deps = <<>> /\ C[h].kind = H[h].kind
      /\ C[h].status = H[h].status /\ C[h].sucs = H[h].sucs /\ C[h].result = H[h].result
  BY ClearedFields
<1>2. ASSUME NEW G \in Heaps, G[h].ref = H[h].ref
      PROVE  LET B == AddRef(G, h, -1)
             IN  /\ B \in Heaps /\ (\A x \in Headers \ {h} : B[x] = G[x]) /\ Alike(B[h], G[h])
                 /\ B[h].countdown = G[h].countdown /\ B[h].ref = H[h].ref - 1
  <2> DEFINE B == AddRef(G, h, -1)
             n == G[h].ref + (-1)
  <2>1. B = [G EXCEPT ![h].ref = n]
    BY <1>2 DEF AddRef
  <2>2. n \in Nat /\ n = H[h].ref - 1
    BY <1>2
  <2> HIDE DEF B, n
  <2>3. /\ B \in Heaps /\ (\A x \in Headers \ {h} : B[x] = G[x]) /\ Alike(B[h], G[h])
        /\ B[h].countdown = G[h].countdown /\ B[h].ref = n
    BY <1>2, <2>1, <2>2, ZenonT(60) DEF Heaps, HeaderType, Alike
  <2>4. QED
    BY <2>2, <2>3 DEF B
<1>3. /\ A \in Heaps /\ (\A x \in Headers \ {h} : A[x] = H[x]) /\ Alike(A[h], H[h])
      /\ A[h].countdown = H[h].countdown /\ A[h].ref = H[h].ref - 1
  BY <1>2
<1>4. /\ R \in Heaps /\ (\A x \in Headers \ {h} : R[x] = C[x]) /\ Alike(R[h], C[h])
      /\ R[h].countdown = C[h].countdown /\ R[h].ref = H[h].ref - 1
  BY <1>1, <1>2
<1> HIDE DEF A
<1>5. L \in Heaps /\ L[h].ref = A[h].ref /\ L[h].countdown = A[h].countdown /\ (\A x \in Headers \ {h} : L[x] = A[x])
      /\ L[h].body = "none" /\ L[h].deps = <<>> /\ L[h].kind = A[h].kind
      /\ L[h].status = A[h].status /\ L[h].sucs = A[h].sucs /\ L[h].result = A[h].result
  BY <1>3, ClearedFields
<1> HIDE DEF L, R, C
<1>6. L[h] = R[h]
  <2>1. L[h] \in HeaderType /\ R[h] \in HeaderType
    BY <1>4, <1>5 DEF Heaps
  <2>2. Alike(L[h], R[h]) /\ L[h].ref = R[h].ref /\ L[h].countdown = R[h].countdown
    BY <1>1, <1>3, <1>4, <1>5 DEF Alike
  <2>3. QED
    BY <2>1, <2>2, SameRecord
<1>7. \A x \in Headers : L[x] = R[x]
  BY <1>1, <1>3, <1>4, <1>5, <1>6
<1>8. L = R
  BY <1>4, <1>5, <1>7 DEF Heaps
<1>9. QED
  BY <1>3, <1>8 DEF L, R, C, A

\* Dropping a reference to h and releasing its arguments, in either order.
LEMMA AddRefDropDeps ==
  ASSUME NEW H \in Heaps, NEW h \in Headers, H[h].ref \in Nat, H[h].ref > 0, Held(H, h, h) = 0,
         DropDeps(H, h) \in Heaps, DropDeps(H, h)[h] = H[h]
  PROVE  DropDeps(AddRef(H, h, -1), h) = AddRef(DropDeps(H, h), h, -1)
<1> DEFINE A == AddRef(H, h, -1)
           D == DropDeps(H, h)
           L == DropDeps(A, h)
           R == AddRef(D, h, -1)
<1>1. A = [H EXCEPT ![h].ref = H[h].ref + (-1)] /\ R = [D EXCEPT ![h].ref = H[h].ref + (-1)]
  BY DEF AddRef
<1>2. A[h].deps = H[h].deps /\ (\A x \in Headers \ {h} : A[x] = H[x]) /\ A[h] = [H[h] EXCEPT !.ref = H[h].ref + (-1)]
  BY <1>1 DEF Heaps, HeaderType
<1>3. R \in [Headers -> HeaderType] /\ (\A x \in Headers \ {h} : R[x] = D[x]) /\ R[h] = [H[h] EXCEPT !.ref = H[h].ref + (-1)]
  <2>1. H[h] \in HeaderType /\ D \in [Headers -> HeaderType] /\ D[h] = H[h]
    BY DEF Heaps
  <2> HIDE DEF D
  <2>2. [H[h] EXCEPT !.ref = H[h].ref + (-1)] \in HeaderType
    <3> DEFINE n == H[h].ref + (-1)
    <3>1. n \in Nat
      OBVIOUS
    <3> HIDE DEF n
    <3>2. [H[h] EXCEPT !.ref = n] \in HeaderType
      BY <2>1, <3>1 DEF HeaderType
    <3>3. QED
      BY <3>2 DEF n
  <2>3. R = [D EXCEPT ![h] = [H[h] EXCEPT !.ref = H[h].ref + (-1)]]
    BY <1>1, <2>1, Zenon
  <2> HIDE DEF R
  <2>4. QED
    BY <2>1, <2>2, <2>3
<1> HIDE DEF A, R
<1>4. \A x : Held(A, h, x) = Held(H, h, x)
  BY <1>2 DEF Held, Args
<1>5. \A x \in Headers : L[x] = IF Held(A, h, x) = 0 \/ A[x].ref < 0 THEN A[x]
                                ELSE IF A[x].ref = Held(A, h, x) THEN DeadHeader
                                ELSE [A[x] EXCEPT !.ref = @ - Held(A, h, x)]
  BY DEF DropDeps, Held, Args
<1>6. \A x \in Headers : D[x] = IF Held(H, h, x) = 0 \/ H[x].ref < 0 THEN H[x]
                                ELSE IF H[x].ref = Held(H, h, x) THEN DeadHeader
                                ELSE [H[x] EXCEPT !.ref = @ - Held(H, h, x)]
  BY DEF DropDeps, Held, Args
<1>7. L = [x \in Headers |-> L[x]]
  BY DEF DropDeps
<1> HIDE DEF L, D
<1>8. \A x \in Headers \ {h} : L[x] = D[x]
  <2> TAKE x \in Headers \ {h}
  <2> DEFINE n == Held(H, h, x)
             a == H[x]
  <2>1. A[x] = a /\ Held(A, h, x) = n
    BY <1>2, <1>4
  <2>2. D[x] = IF n = 0 \/ a.ref < 0 THEN a ELSE IF a.ref = n THEN DeadHeader ELSE [a EXCEPT !.ref = @ - n]
    BY <1>6
  <2>3. L[x] = IF n = 0 \/ a.ref < 0 THEN a ELSE IF a.ref = n THEN DeadHeader ELSE [a EXCEPT !.ref = @ - n]
    <3> HIDE DEF n, a
    <3>1. QED
      BY <1>5, <2>1, Zenon
  <2> HIDE DEF n, a
  <2>4. QED
    BY <2>2, <2>3, Zenon
<1>9. L[h] = A[h]
  BY <1>4, <1>5
<1>10. \A x \in Headers : L[x] = R[x]
  BY <1>2, <1>3, <1>8, <1>9
<1>11. L = R
  BY <1>3, <1>7, <1>10
<1>12. QED
  BY <1>11 DEF L, R, D, A

\* Destroying the body of h and making another header, in either order.
LEMMA ClearedElsewhere ==
  ASSUME NEW H \in Heaps, NEW h \in Headers, NEW r \in Headers \ {h}, NEW N \in HeaderType
  PROVE  /\ Cleared([H EXCEPT ![r] = N], h) = [Cleared(H, h) EXCEPT ![r] = N]
         /\ [H EXCEPT ![r] = N] \in Heaps
<1> DEFINE K == [H EXCEPT ![r] = N]
           L == Cleared(K, h)
           C == Cleared(H, h)
           R == [C EXCEPT ![r] = N]
<1>1. K \in Heaps /\ K[h] = H[h] /\ K[r] = N /\ \A x \in Headers \ {r} : K[x] = H[x]
  BY DEF Heaps
<1>2. C \in Heaps /\ (\A x \in Headers \ {h} : C[x] = H[x]) /\ C[h] = [H[h] EXCEPT !.body = "none", !.deps = <<>>]
  <2>1. C[h] = [H[h] EXCEPT !.body = "none", !.deps = <<>>]
    BY DEF Cleared, Heaps
  <2>2. QED
    BY <2>1, ClearedFields
<1> HIDE DEF K
<1>3. L \in Heaps /\ (\A x \in Headers \ {h} : L[x] = K[x]) /\ L[h] = [K[h] EXCEPT !.body = "none", !.deps = <<>>]
  <2>1. L[h] = [K[h] EXCEPT !.body = "none", !.deps = <<>>]
    BY <1>1 DEF Cleared, Heaps
  <2>2. QED
    BY <1>1, <2>1, ClearedFields
<1> HIDE DEF C
<1>4. R \in Heaps /\ R[r] = N /\ \A x \in Headers \ {r} : R[x] = C[x]
  BY <1>2 DEF Heaps
<1> HIDE DEF L, R
<1>5. \A x \in Headers : L[x] = R[x]
  BY <1>1, <1>2, <1>3, <1>4
<1>6. L = R
  BY <1>3, <1>4, <1>5 DEF Heaps
<1>7. QED
  BY <1>1, <1>6 DEF L, R, K, C

\* A body whose links are all resolved holds results, so not its own header.
LEMMA HeldSelf ==
  ASSUME NEW H, NEW X \in Tallies, HeapOK(H, X, Nil), NEW h \in Headers, Unready(H, h), OpenOf(H, h) = {}
  PROVE  Held(H, h, h) = 0
<1>1. \A k \in DOMAIN H[h].deps : IsResult(H, H[h].deps[k].dep)
  BY DetachOK
<1>2. ~ IsResult(H, h)
  BY KindFacts
<1>3. Args(H, h, h) = {}
  BY <1>1, <1>2 DEF Args
<1>4. QED
  BY <1>3, FS_EmptySet DEF Held

\* The heap in which the when_all h takes the new header r as its result.
LEMMA LeaveAllOK ==
  ASSUME NEW H, NEW X \in Tallies, HeapOK(H, X, Nil), NEW h \in Due(H), H[h].ref # 1,
         \A x \in Headers : X[x] \in Nat, NEW r \in IsFree(H)
  PROVE  LET K == [DropDeps(AddRef(H, h, -1), h) EXCEPT ![r] = ResultHeader(r, 1)]
             C == Cleared(K, h)
         IN  /\ K \in Heaps /\ HeapOK(C, Give(X, r, 1), h) /\ Give(X, r, 1) \in Tallies /\ Unready(C, h)
             /\ Due(C) = Due(H) /\ IsResult(C, r) /\ r \in Headers \ {h} /\ IsFree(C) = IsFree(H) \ {r} /\ Rest(H, C, h)
<1> DEFINE D == DropDeps(H, h)
           G == Cleared(D, h)
           A == AddRef(G, h, -1)
           N == ResultHeader(r, 1)
           M == [A EXCEPT ![r] = N]
           P == AddRef(D, h, -1)
           K == [P EXCEPT ![r] = N]
           Y == Give(X, h, 1)
           Z == Give(Y, h, -1)
<1>1. h \in Headers \ {Always} /\ h \in Headers /\ Unready(H, h) /\ OpenOf(H, h) = {} /\ H \in Heaps
  BY DueFacts, HeapHeader
<1>2. Allocated(H, h) /\ H[h].ref \in Nat /\ H[h].ref > 0 /\ H[h].kind = "dependent"
  BY <1>1, KindFacts DEF Unready
<1>3. r \in Headers \ {h} /\ H[r].kind = "free" /\ r \in Headers
  BY <1>2 DEF IsFree
<1>4. Held(H, h, h) = 0
  BY <1>1, HeldSelf
<1>5. \A x \in Headers \ {Always} : X[x] >= 0
  OBVIOUS
<1>6. /\ HeapOK(G, Y, h) /\ Y \in Tallies /\ G \in Heaps /\ D \in Heaps /\ D[h] = H[h]
      /\ IsFree(G) = IsFree(H) /\ Due(G) = Due(H)
      /\ \A x \in Headers \ {h} : Unready(H, x) \/ Unready(G, x) => Alike(G[x], H[x])
  BY <1>1, <1>5, DropDepsOK
<1>7. Unready(G, h) /\ G[h].ref = H[h].ref
  BY <1>1, <1>5, DropDepsOK
<1>8. DropDeps(AddRef(H, h, -1), h) = P
  BY <1>1, <1>2, <1>4, <1>6, AddRefDropDeps
<1> HIDE DEF D
<1>9. Cleared(P, h) = A /\ P \in Heaps
  BY <1>1, <1>2, <1>6, AddRefCleared
<1> HIDE DEF G, P
<1>10. N \in HeaderType /\ N.kind = "result" /\ N.status = StatusReady /\ N.result = r
  BY <1>3, HeaderTypes, MadeFields
<1> HIDE DEF N
<1>11. Cleared(K, h) = M /\ K \in Heaps
  BY <1>1, <1>3, <1>9, <1>10, ClearedElsewhere
<1>12. HeapOK(A, X, h) /\ A \in Heaps /\ Unready(A, h) /\ IsFree(A) = IsFree(H) /\ Due(A) = Due(H) /\ Keeps(G, A)
  <2>1. -1 \in Int /\ G[h].ref + (-1) > 0 /\ Allocated(G, h)
    BY <1>1, <1>2, <1>6, <1>7, KindFacts
  <2>2. HeapOK(A, Z, h) /\ Keeps(G, A) /\ A \in Heaps
    BY <1>1, <1>6, <2>1, AddRefOK
  <2>3. \A x \in Headers \ {Always} : X[x] = Z[x]
    <3>0. 1 \in Int
      OBVIOUS
    <3>1. Y[h] = X[h] + 1 /\ (\A x \in Headers \ {h} : Y[x] = X[x]) /\ X[h] \in Int
      BY <1>1, <3>0, GiveFacts
    <3> HIDE DEF Y
    <3>2. Z[h] = Y[h] + (-1) /\ \A x \in Headers \ {h} : Z[x] = Y[x]
      BY <1>1, <1>6, <2>1, GiveFacts
    <3> HIDE DEF Z
    <3>3. QED
      BY <3>1, <3>2
  <2> HIDE DEF A, Z
  <2>4. HeapOK(A, X, h)
    BY <2>2, <2>3, HeapTally
  <2>5. Unready(A, h) /\ IsFree(A) = IsFree(G) /\ Due(A) = Due(G)
    BY <1>1, <1>7, <2>2, KeepsFacts DEF Keeps
  <2>6. QED
    BY <1>6, <2>2, <2>4, <2>5
<1>13. IsNew(N, r)
  BY DEF IsNew, N
<1> HIDE DEF A
<1>14. /\ HeapOK(M, Give(X, r, 1), h) /\ Give(X, r, 1) \in Tallies /\ IsFree(M) = IsFree(A) \ {r}
  <2>1. r \in IsFree(A) /\ X[r] >= 0 /\ r # h
    BY <1>3, <1>12
  <2>2. HeapOK(M, Give(X, r, 1), h)
    BY <1>12, <1>13, <2>1, NewOK
  <2>3. IsFree(M) = IsFree(A) \ {r}
    BY <1>12, <1>13, <2>1, NewOK
  <2>4. 1 \in Int
    OBVIOUS
  <2>5. Give(X, r, 1) \in Tallies
    BY <1>3, <2>4, GiveFacts
  <2>6. QED
    BY <2>2, <2>3, <2>5
<1>15. M \in Heaps /\ M[r] = N /\ \A x \in Headers \ {r} : M[x] = A[x]
  BY <1>3, <1>10, <1>12 DEF Heaps
<1> HIDE DEF M
<1>16. Unready(M, h) /\ IsResult(M, r)
  BY <1>1, <1>3, <1>10, <1>12, <1>15 DEF Unready, Ready, IsResult
<1>17. A[r].kind = "free"
  BY <1>3, <1>12 DEF IsFree
<1>18. ~ Unready(A, r) /\ ~ Unready(M, r)
  BY <1>10, <1>15, <1>17 DEF Unready
<1>19. Due(M) = Due(A)
  <2>1. ASSUME NEW x \in Headers
        PROVE  x \in Due(M) <=> x \in Due(A)
    <3>1. CASE x = r
      BY <1>18, <3>1 DEF Due
    <3>2. CASE x # r
      <4>1. M[x] = A[x]
        BY <1>15, <3>2
      <4>2. QED
        BY <4>1 DEF Due, Unready, Ready
    <3>3. QED
      BY <3>1, <3>2
  <2>2. QED
    BY <2>1 DEF Due
<1>20. Rest(H, M, h)
  <2>1. Rest(H, G, h)
    <3>1. \A x \in Headers \ {h} : Unready(G, x) <=> Unready(H, x)
      BY <1>6 DEF Alike, Unready, Ready
    <3>2. \A x \in Headers \ {h} : Unready(H, x) => G[x].body = H[x].body /\ G[x].status = H[x].status
      BY <1>6 DEF Alike
    <3>3. \A x \in Due(H) : Unready(H, x)
      BY DEF Due
    <3>4. QED
      BY <1>6, <3>1, <3>2, <3>3 DEF Rest
  <2>2. Rest(G, A, h)
    BY <1>12, RestFacts
  <2>3. Rest(A, M, h)
    <3>1. ASSUME NEW x \in Headers \ {h}
          PROVE  /\ Unready(M, x) <=> Unready(A, x)
                 /\ Unready(A, x) => M[x].body = A[x].body
                 /\ x \in Due(A) => x \in Due(M) /\ M[x].status = A[x].status
      <4>1. CASE x = r
        BY <1>18, <4>1 DEF Due
      <4>2. CASE x # r
        <5>1. M[x] = A[x]
          BY <1>15, <4>2
        <5>2. QED
          BY <1>19, <5>1 DEF Unready, Ready
      <4>3. QED
        BY <4>1, <4>2
    <3>2. QED
      BY <3>1 DEF Rest
  <2>4. QED
    BY <2>1, <2>2, <2>3, RestFacts
<1>21. K = [DropDeps(AddRef(H, h, -1), h) EXCEPT ![r] = ResultHeader(r, 1)]
  BY <1>8 DEF N
<1> HIDE DEF K
<1>22. QED
  <2>1. /\ K \in Heaps /\ HeapOK(Cleared(K, h), Give(X, r, 1), h) /\ Give(X, r, 1) \in Tallies /\ Unready(Cleared(K, h), h)
        /\ Due(Cleared(K, h)) = Due(H) /\ IsResult(Cleared(K, h), r) /\ r \in Headers \ {h}
        /\ IsFree(Cleared(K, h)) = IsFree(H) \ {r} /\ Rest(H, Cleared(K, h), h)
    BY <1>3, <1>11, <1>12, <1>14, <1>16, <1>19, <1>20
  <2>2. QED
    BY <1>21, <2>1, Zenon

\* A when_all that leaves the queue finds a header for its result.
LEMMA ResultRoom ==
  ASSUME FutureInv, NEW h \in Alls(hdr)
  PROVE  /\ NewHeader(hdr) \in IsFree(hdr)
         /\ Cardinality(IsFree(hdr) \ {NewHeader(hdr)}) >= MaxHeaders - size.headers + Cardinality(Alls(hdr) \ {h})
<1> DEFINE f == Cardinality(IsFree(hdr))
           a == Cardinality(Alls(hdr))
           m == MaxHeaders - size.headers
<1>1. f >= m + a
  BY InvFacts DEF RoomKept
<1>2. f \in Nat /\ a \in Nat /\ m \in Nat /\ IsFiniteSet(Alls(hdr)) /\ IsFiniteSet(IsFree(hdr))
  BY FreeFinite, SizeFacts
<1>3. Cardinality(Alls(hdr) \ {h}) = a - 1
  BY <1>2, FS_RemoveElement
<1>4. a # 0
  BY <1>2, FS_EmptySet
<1>5. IsFree(hdr) # {}
  <2>1. f # 0
    BY <1>1, <1>2, <1>4
  <2>2. QED
    BY <2>1, FS_EmptySet
<1>6. NewHeader(hdr) \in IsFree(hdr)
  BY <1>5, NewHeaderFree
<1>7. Cardinality(IsFree(hdr) \ {NewHeader(hdr)}) = f - 1
  BY <1>6, FreeLess
<1> HIDE DEF f, a, m
<1>8. f - 1 >= m + (a - 1)
  BY <1>1, <1>2
<1>9. QED
  BY <1>3, <1>6, <1>7, <1>8 DEF m

\* The heap in which a when_all takes its result spares the other headers.
LEMMA LeaveAllSpares ==
  ASSUME NEW H \in Heaps, NEW h \in Headers, NEW r \in Headers
  PROVE  LET K == [DropDeps(AddRef(H, h, -1), h) EXCEPT ![r] = ResultHeader(r, 1)]
         IN  Spares(H, K, {h, r}) /\ K[r].kind = "result"
<1> DEFINE A == AddRef(H, h, -1)
           D == DropDeps(A, h)
           K == [D EXCEPT ![r] = ResultHeader(r, 1)]
<1>1. A \in Sketches /\ Sheds(H, A)
  <2>1. -1 \in Int
    OBVIOUS
  <2>2. QED
    BY <2>1, HeapsSketches, AddRefSheds
<1> HIDE DEF A
<1>2. D \in Sketches /\ Sheds(A, D)
  BY <1>1, DropDepsSheds
<1> HIDE DEF D
<1>3. K[r].kind = "result" /\ \A d \in Headers \ {h, r} : K[d] = D[d]
  BY <1>2, MadeFields DEF Sketches
<1> HIDE DEF K
<1>4. Spares(D, K, {h, r})
  BY <1>3, SparesExcept
<1>5. Spares(H, K, {h, r})
  BY <1>1, <1>2, <1>4, ShedsFacts, SparesFacts
<1>6. QED
  BY <1>3, <1>5 DEF K, D, A

\* future_body_identity::leave_active keeps the invariant.
LEMMA LeaveActiveAllStep ==
  ASSUME FutureInv, UNCHANGED size, NEW h, LeaveActiveAll(h)
  PROVE  /\ FutureInv'
         /\ IF hdr[h].ref = 1 THEN Vanishes(hdr, hdr', h)
            ELSE /\ NewHeader(hdr) \in IsFree(hdr) /\ Resolves(hdr, hdr', {h, NewHeader(hdr)}, h, NewHeader(hdr))
                 /\ hdr'[NewHeader(hdr)].kind \in {"dead", "result"}
<1> DEFINE r == NewHeader(hdr)
           q == Tail(active)
           H == [DropDeps(AddRef(hdr, h, -1), h) EXCEPT ![r] = ResultHeader(r, 1)]
           E == EnterReady(H, q, h, r)
<1>1. /\ Popped(h) /\ hdr[h].body = "all"
      /\ IF hdr[h].ref = 1
         THEN hdr' = [DropDeps(hdr, h) EXCEPT ![h] = DeadHeader] /\ active' = q /\ UNCHANGED origin
         ELSE hdr' = E.heap /\ active' = E.queue /\ origin' = StandFor(h, r)
      /\ returning' = Settled(active') /\ args' = [args EXCEPT ![h] = <<>>] /\ UNCHANGED <<running, user>>
  BY DEF LeaveActiveAll
<1>2. /\ HeapOK(hdr, user, Nil) /\ user \in Tallies /\ user \in [Headers -> Nat] /\ origin \in [Headers -> Headers]
      /\ args \in [Headers -> Seq(Headers)] /\ \A x \in Headers : user[x] \in Nat
  BY <1>1, InvFacts
<1>3. args' \in [Headers -> Seq(Headers)]
  <2>1. <<>> \in Seq(Headers)
    OBVIOUS
  <2>2. QED
    BY <1>1, <1>2, <2>1
<1>4. CASE hdr[h].ref = 1
  <2>1. hdr' = [DropDeps(hdr, h) EXCEPT ![h] = DeadHeader] /\ active' = q /\ origin' \in [Headers -> Headers]
    BY <1>1, <1>2, <1>4
  <2>2. QED
    BY <1>1, <1>3, <1>4, <2>1, DieStep
<1>5. CASE hdr[h].ref # 1
  <2>1. hdr' = E.heap /\ active' = E.queue /\ origin' = StandFor(h, r)
    BY <1>1, <1>5
  <2>2. /\ h \in Due(hdr) /\ h \in Headers \ {Always} /\ h \in Headers /\ running # h
        /\ q \in Seq(Headers) /\ Lists!IsInjective(q) /\ Lists!ToSet(q) = Due(hdr) \ {running, h}
        /\ Lists!ToSet(q) \subseteq Due(hdr) /\ returning' \in Headers \cup {Nil}
    BY <1>1, PoppedFacts
  <2>3. h \in Alls(hdr)
    BY <1>1, <2>2 DEF Alls
  <2>4. r \in IsFree(hdr) /\ Cardinality(IsFree(hdr) \ {r}) >= MaxHeaders - size.headers + Cardinality(Alls(hdr) \ {h})
    BY <2>3, ResultRoom
  <2> HIDE DEF r, q
  <2> DEFINE C == Cleared(H, h)
             Y == Give(user, r, 1)
  <2>5. /\ H \in Heaps /\ HeapOK(C, Y, h) /\ Y \in Tallies /\ Unready(C, h)
        /\ Due(C) = Due(hdr) /\ IsResult(C, r) /\ r \in Headers \ {h} /\ IsFree(C) = IsFree(hdr) \ {r} /\ Rest(hdr, C, h)
    BY <1>2, <1>5, <2>2, <2>4, LeaveAllOK
  <2>5a. Spares(hdr, H, {h, r}) /\ H[r].kind = "result"
    BY <2>2, <2>5, InvFacts, LeaveAllSpares
  <2> HIDE DEF H
  <2>6. 1 \in Int /\ -1 \in Int /\ r \in Headers
    BY <2>5
  <2>7. Y[r] = user[r] + 1 /\ (\A x \in Headers \ {r} : Y[x] = user[x])
    BY <1>2, <2>6, GiveFacts
  <2> HIDE DEF Y
  <2>8. Y[h] >= 0 /\ Lists!ToSet(q) \subseteq Due(C)
    BY <1>2, <2>2, <2>5, <2>7
  <2>9. Left(C, q, h, E, Give(Y, r, -1))
    BY <2>2, <2>5, <2>6, <2>8, EnterReadyClears
  <2>9a. Alters(H, E.heap, {h}, h, r, FALSE) /\ TurnedReady(H[h], E.heap[h], r)
    <3>1. Readied(Cleared(H, h), Y, h, h, r)
      BY <2>2, <2>5 DEF Readied
    <3>2. QED
      BY <2>2, <2>5, <3>1, EnterReadyAlters
  <2> HIDE DEF C, E
  <2>10. \A x \in Headers \ {Always} : user'[x] = Give(Y, r, -1)[x]
    <3> DEFINE Z == Give(Y, r, -1)
    <3>1. Z[r] = Y[r] + (-1) /\ \A x \in Headers \ {r} : Z[x] = Y[x]
      BY <2>5, <2>6, GiveFacts
    <3> HIDE DEF Z
    <3>4. user[r] \in Nat
      BY <1>2, <2>6
    <3>5. user[r] = Z[r]
      BY <2>7, <3>1, <3>4
    <3>2. \A x \in Headers : user[x] = Z[x]
      BY <2>7, <3>1, <3>5
    <3>3. QED
      BY <1>1, <3>2 DEF Z
  <2>11. Left(C, q, h, E, user')
    BY <2>9, <2>10, LeftTally
  <2>12. origin' \in [Headers -> Headers]
    BY <1>2, <2>1, <2>6 DEF StandFor
  <2>13. user' \in [Headers -> Nat] /\ running' = running
    BY <1>1, <1>2
  <2>14. Cardinality(IsFree(C)) >= MaxHeaders - size.headers + Cardinality(Alls(hdr) \ {h})
    BY <2>4, <2>5
  <2>15. FutureInv'
    BY <1>3, <2>1, <2>2, <2>5, <2>11, <2>12, <2>13, <2>14, LeftStep
  <2>16. Resolves(hdr, hdr', {h, r}, h, r)
    <3>1. Alters(H, hdr', {h, r}, h, r, FALSE)
      BY <2>1, <2>9a DEF Alters
    <3>2. Alters(hdr, hdr', {h, r}, h, r, FALSE)
      BY <2>5a, <3>1, SparesFacts
    <3>3. QED
      BY <2>1, <2>9a, <3>2 DEF Resolves, TurnedReady
  <2>17. hdr'[r].kind \in {"dead", "result"}
    BY <2>1, <2>5, <2>5a, <2>9a DEF Alters, Moved
  <2>18. QED
    BY <1>5, <2>4, <2>15, <2>16, <2>17 DEF r
<1>6. QED
  BY <1>4, <1>5

-----------------------------------------------------------------------------
(* The return of a callback                                                *)

\* The reference to the future r that a callback returns, in the hands of leave_active.
ReturnHeap(r, move)  == IF move THEN hdr ELSE AddRef(hdr, r, 1)
ReturnTally(r, move) == IF move THEN user ELSE Give(user, r, 1)
ReturnUser(r, move)  == IF move THEN [user EXCEPT ![r] = @ - 1] ELSE user

\* The references of user code while a callback returns r.
LEMMA ReturnTallyFacts ==
  ASSUME FutureInv, NEW r \in Headers, NEW move \in BOOLEAN, IF r = Always THEN ~ move ELSE Holds(r)
  PROVE  LET X == ReturnTally(r, move)
         IN  /\ X \in Tallies /\ (\A x \in Headers : X[x] \in Nat) /\ X[r] >= 1
             /\ \A x \in Headers : Give(X, r, -1)[x] = ReturnUser(r, move)[x]
             /\ ReturnUser(r, move) \in [Headers -> Nat]
<1> DEFINE X == ReturnTally(r, move)
<1>1. user \in Tallies /\ user \in [Headers -> Nat] /\ user[r] \in Nat /\ (Holds(r) => user[r] >= 1) /\ \A x \in Headers : user[x] \in Nat
  BY InvFacts
<1>2. 1 \in Int /\ -1 \in Int
  OBVIOUS
<1>3. CASE move
  <2>1. user[r] >= 1 /\ X = user /\ ReturnUser(r, move) = [user EXCEPT ![r] = @ - 1]
    BY <1>1, <1>3 DEF ReturnTally, ReturnUser
  <2> HIDE DEF X
  <2> DEFINE Z == Give(X, r, -1)
  <2>7. X \in Tallies
    BY <1>1, <2>1
  <2>2. Z[r] = X[r] + (-1) /\ \A x \in Headers \ {r} : Z[x] = X[x]
    BY <1>2, <2>7, GiveFacts
  <2> HIDE DEF Z
  <2>3. \A x \in Headers : Z[x] = ReturnUser(r, move)[x]
    BY <1>1, <2>1, <2>2
  <2>4. user[r] - 1 \in Nat
    BY <1>1, <2>1
  <2>5. ReturnUser(r, move) \in [Headers -> Nat]
    BY <1>1, <2>1, <2>4
  <2>6. QED
    BY <1>1, <2>1, <2>3, <2>5 DEF Z, X
<1>4. CASE ~ move
  <2>1. X = Give(user, r, 1) /\ ReturnUser(r, move) = user
    BY <1>4 DEF ReturnTally, ReturnUser
  <2> HIDE DEF X
  <2>9. Give(user, r, 1) \in Tallies /\ Give(user, r, 1)[r] = user[r] + 1 /\ \A x \in Headers \ {r} : Give(user, r, 1)[x] = user[x]
    BY <1>1, <1>2, GiveFacts
  <2>2. X \in Tallies /\ X[r] = user[r] + 1 /\ \A x \in Headers \ {r} : X[x] = user[x]
    BY <2>1, <2>9
  <2> DEFINE Z == Give(X, r, -1)
  <2>3. Z[r] = X[r] + (-1) /\ \A x \in Headers \ {r} : Z[x] = X[x]
    BY <1>2, <2>2, GiveFacts
  <2> HIDE DEF Z
  <2>4. Z[r] = user[r]
    BY <1>1, <2>2, <2>3
  <2>5. \A x \in Headers : Z[x] = ReturnUser(r, move)[x]
    BY <2>1, <2>2, <2>3, <2>4
  <2>6. X[r] >= 1 /\ X[r] \in Nat
    BY <1>1, <2>2
  <2>7. \A x \in Headers : X[x] \in Nat
    BY <1>1, <2>2, <2>6
  <2>8. QED
    BY <1>1, <2>1, <2>2, <2>5, <2>6, <2>7 DEF Z, X
<1>5. QED
  BY <1>3, <1>4

\* The heap in which the returned future is copied or moved.
LEMMA ReturnHeapOK ==
  ASSUME FutureInv, NEW r \in Headers, NEW move \in BOOLEAN, IF r = Always THEN ~ move ELSE Holds(r),
         NEW h \in Headers \ {r}
  PROVE  LET H == ReturnHeap(r, move)
         IN  /\ HeapOK(H, ReturnTally(r, move), Nil) /\ Keeps(hdr, H) /\ H \in Heaps /\ H[h] = hdr[h]
             /\ \A x \in Headers : Alike(H[x], hdr[x])
<1> DEFINE H == ReturnHeap(r, move)
<1>1. /\ user \in Tallies /\ user[r] \in Nat /\ (Holds(r) => user[r] >= 1) /\ HeapOK(hdr, user, Nil) /\ hdr \in Heaps
  BY InvFacts
<1>2. CASE move
  <2>1. H = hdr /\ ReturnTally(r, move) = user
    BY <1>2 DEF ReturnHeap, ReturnTally
  <2>2. Keeps(hdr, hdr) /\ \A x \in Headers : Alike(hdr[x], hdr[x])
    BY KeepsSame DEF Alike
  <2>3. QED
    BY <1>1, <2>1, <2>2
<1>3. CASE ~ move
  <2>1. H = AddRef(hdr, r, 1) /\ ReturnTally(r, move) = Give(user, r, 1)
    BY <1>3 DEF ReturnHeap, ReturnTally
  <2>2. r # Always => user[r] >= 1
    BY <1>1
  <2>3. Allocated(hdr, r)
    BY <1>1, <2>2, HeldAllocated
  <2>4. r # Always => hdr[r].ref + 1 > 0
    BY <1>1, <2>3, KindFacts
  <2>5. 1 \in Int
    OBVIOUS
  <2>6. /\ HeapOK(AddRef(hdr, r, 1), Give(user, r, 1), Nil) /\ Keeps(hdr, AddRef(hdr, r, 1)) /\ AddRef(hdr, r, 1) \in Heaps
        /\ (\A x \in Headers : Alike(AddRef(hdr, r, 1)[x], hdr[x]))
        /\ AddRef(hdr, r, 1)[h] = hdr[h]
    BY <1>1, <2>3, <2>4, <2>5, AddRefOK
  <2>7. QED
    BY <2>1, <2>6
<1>4. QED
  BY <1>2, <1>3

\* The future that a callback returns does not wait for the header of the callback.
LEMMA ReturnTarget ==
  ASSUME FutureInv, NEW r \in Headers, NEW h \in Headers, Unready(hdr, h), h \notin Upstream(r)
  PROVE  r # h /\ (Proxying(hdr, r) => Proxied(hdr, r) # h)
<1>1. r \in Upstream(r) /\ WaitsOn(r) \subseteq Upstream(r)
  BY UpstreamFacts
<1>2. r # h
  BY <1>1
<1>3. ASSUME Proxying(hdr, r)
      PROVE  Proxied(hdr, r) # h
  <2>1. HeapOK(hdr, user, Nil) /\ hdr \in Heaps /\ r # Nil
    BY InvFacts, Constants
  <2>8. IsProxy(hdr, r) /\ BodyOK(hdr, r)
    BY <1>3, <2>1, ProxyBody, KindFacts
  <2>9. hdr[r].body = "proxy" /\ Len(hdr[r].deps) = 1
    BY <2>8 DEF IsProxy
  <2>2. hdr[r].deps[1].linked \/ hdr[r].status = StatusProxyingActive
    BY <2>8, <2>9 DEF BodyOK
  <2>3. hdr[r].status = StatusProxyingActive => IsResult(hdr, Proxied(hdr, r))
    BY <1>3, <2>1, ProxiedFacts
  <2>5. CASE hdr[r].deps[1].linked
    <3>1. DOMAIN hdr[r].deps = 1 .. Len(hdr[r].deps)
      BY <2>1, FieldTypes
    <3>2. 1 \in DOMAIN hdr[r].deps
      BY <2>9, <3>1
    <3>3. Proxied(hdr, r) \in WaitsOn(r)
      BY <2>5, <3>2 DEF WaitsOn, Proxied
    <3>4. QED
      BY <1>1, <3>3
  <2>6. CASE ~ hdr[r].deps[1].linked
    <3>1. IsResult(hdr, Proxied(hdr, r))
      BY <2>2, <2>3, <2>6
    <3>2. ~ IsResult(hdr, h)
      BY <2>1, KindFacts
    <3>3. QED
      BY <3>1, <3>2
  <2>7. QED
    BY <2>5, <2>6
<1>4. QED
  BY <1>2, <1>3

\* A ready header has a result.
LEMMA ReadyResult ==
  ASSUME NEW H, NEW X, NEW z, HeapOK(H, X, z), NEW x \in Headers, Allocated(H, x), Ready(H, x)
  PROVE  H[x].result \in Headers
<1>1. HeaderOK(H, x, z) /\ H \in Heaps
  BY HeapHeader
<1>2. H[x].kind \in {"promise", "result", "dependent"}
  BY <1>1, FieldTypes DEF Allocated
<1>3. QED
  BY <1>1, <1>2 DEF HeaderOK, IsResult

\* What becomes of the header of a callback that returned r: it takes the result of what r stands
\* for, or stands for it.
Returns(r) ==
  LET b == Target(hdr, r)
  IN  /\ b \in Headers \ {running}
      /\ IF Ready(hdr, b)
         THEN hdr[b].result \in Headers /\ Resolves(hdr, hdr', {running}, running, hdr[b].result)
         ELSE Redirects(hdr, hdr', running, b)

\* A callback returns a copy of a future, or the future itself.
LEMMA ReturnSheds ==
  ASSUME hdr \in Heaps, NEW r \in Headers, NEW move \in BOOLEAN
  PROVE  Sheds(hdr, ReturnHeap(r, move))
<1>1. 1 \in Int /\ hdr \in Sketches
  BY HeapsSketches
<1>2. Sheds(hdr, AddRef(hdr, r, 1)) /\ Sheds(hdr, hdr)
  BY <1>1, AddRefSheds, ShedsFacts
<1>3. QED
  BY <1>2 DEF ReturnHeap

\* Destroying the body of the callback spares the other headers.
LEMMA ReturnSpares ==
  ASSUME hdr \in Heaps, NEW r \in Headers, NEW move \in BOOLEAN, ReturnHeap(r, move) \in Heaps, NEW h \in Headers
  PROVE  Spares(hdr, Cleared(DropDeps(ReturnHeap(r, move), h), h), {h})
<1> DEFINE H == ReturnHeap(r, move)
           G == DropDeps(H, h)
           K == Cleared(G, h)
<1>1. Sheds(hdr, H)
  BY ReturnSheds
<1>2. G \in Sketches /\ Sheds(H, G)
  BY HeapsSketches, DropDepsSheds
<1> HIDE DEF H, G
<1>3. \A d \in Headers \ {h} : K[d] = G[d]
  BY <1>2 DEF Cleared, Sketches
<1> HIDE DEF K
<1>4. Spares(G, K, {h})
  BY <1>3, SparesExcept
<1>5. Spares(hdr, K, {h})
  BY <1>1, <1>2, <1>4, ShedsFacts, SparesFacts
<1>6. QED
  BY <1>5 DEF K, G, H

\* What the header of the callback turned into, in terms of the heap before the return.
LEMMA TurnedReturns ==
  ASSUME NEW r \in Headers, NEW K, r # running, Spares(hdr, K, {running}), Turned(K, hdr', running, Target(K, r)),
         Target(K, r) \in Headers \ {running}, Allocated(K, r), Allocated(K, Target(K, r))
  PROVE  Returns(r)
<1> DEFINE b == Target(K, r)
<1>1. K[r].status = hdr[r].status /\ K[r].deps = hdr[r].deps
  BY DEF Spares, Spared, Allocated
<1>2. Target(hdr, r) = b
  BY <1>1 DEF Target, Proxying, Proxied
<1> HIDE DEF b
<1>3. K[b].status = hdr[b].status /\ K[b].result = hdr[b].result
  BY DEF Spares, Spared, Allocated, b
<1>4. Turned(K, hdr', running, b)
  BY DEF b
<1>5. b \in Headers \ {running}
  BY DEF b
<1>6. CASE Ready(K, b)
  <2>1. /\ Alters(K, hdr', {running}, running, K[b].result, FALSE) /\ K[b].result \in Headers
        /\ TurnedReady(K[running], hdr'[running], K[b].result)
    BY <1>4, <1>6 DEF Turned
  <2>2. Resolves(hdr, hdr', {running}, running, K[b].result)
    BY <2>1, SparesFacts DEF Resolves, TurnedReady
  <2>3. Ready(hdr, b)
    BY <1>3, <1>6 DEF Ready
  <2>4. QED
    BY <1>2, <1>3, <1>5, <2>1, <2>2, <2>3 DEF Returns
<1>7. CASE ~ Ready(K, b)
  <2>1. Alters(K, hdr', {running}, running, b, TRUE) /\ TurnedProxy(K[running], hdr'[running], b)
    BY <1>4, <1>7 DEF Turned
  <2>2. Redirects(hdr, hdr', running, b)
    BY <2>1, SparesFacts DEF Redirects, TurnedProxy
  <2>3. ~ Ready(hdr, b)
    BY <1>3, <1>7 DEF Ready
  <2>4. QED
    BY <1>2, <1>5, <2>2, <2>3 DEF Returns
<1>8. QED
  BY <1>6, <1>7

\* The return of a callback keeps the invariant: its header dies, becomes ready or stands for the
\* future it returned.
LEMMA CallbackReturnStep ==
  ASSUME FutureInv, UNCHANGED size, NEW r \in Headers, NEW move \in BOOLEAN, CallbackReturn(r, move)
  PROVE  /\ FutureInv'
         /\ IF hdr[running].ref = 1 THEN Vanishes(hdr, hdr', running) ELSE Returns(r)
<1> DEFINE h  == running
           H  == ReturnHeap(r, move)
           X  == ReturnTally(r, move)
           G  == DropDeps(H, h)
           K  == Cleared(G, h)
           E  == EnterProxying(K, active, h, r)
<1>1. /\ running # Nil /\ (IF r = Always THEN ~ move ELSE Holds(r)) /\ running \notin Upstream(r)
      /\ user' = ReturnUser(r, move)
      /\ IF hdr[h].ref = 1
         THEN hdr' = Drop([K EXCEPT ![h] = DeadHeader], r) /\ UNCHANGED <<active, origin>>
         ELSE hdr' = E.heap /\ active' = E.queue /\ origin' = StandFor(h, r)
      /\ running' = Nil /\ returning' = Settled(active') /\ args' = [args EXCEPT ![h] = <<>>]
  BY DEF CallbackReturn, ReturnHeap, ReturnUser, Cleared
<1>2. /\ HeapOK(hdr, user, Nil) /\ origin \in [Headers -> Headers] /\ args \in [Headers -> Seq(Headers)]
      /\ running \in Headers /\ h \in Due(hdr) /\ returning \in Headers \cup {Nil}
      /\ active \in Seq(Headers) /\ Lists!IsInjective(active) /\ Lists!ToSet(active) = Due(hdr) \ {running}
  BY <1>1, InvFacts
<1> HIDE DEF h
<1>3. h = running /\ h \in Headers
  BY <1>2 DEF h
<1>4. args' \in [Headers -> Seq(Headers)] /\ returning' \in Headers \cup {Nil}
  <2>1. <<>> \in Seq(Headers)
    OBVIOUS
  <2>2. args' \in [Headers -> Seq(Headers)]
    BY <1>1, <1>2, <2>1
  <2>3. QED
    BY <1>1, <1>2, <2>2 DEF Settled
<1>5. h \in Headers \ {Always} /\ Unready(hdr, h) /\ OpenOf(hdr, h) = {}
  BY <1>2, DueFacts
<1>6. r # h /\ (Proxying(hdr, r) => Proxied(hdr, r) # h) /\ h \in Headers \ {r}
  BY <1>1, <1>3, <1>5, ReturnTarget
<1>7. /\ X \in Tallies /\ (\A x \in Headers : X[x] \in Nat) /\ X[r] >= 1
      /\ (\A x \in Headers : Give(X, r, -1)[x] = user'[x]) /\ user' \in [Headers -> Nat]
  BY <1>1, ReturnTallyFacts
<1>8. /\ HeapOK(H, X, Nil) /\ Keeps(hdr, H) /\ H \in Heaps /\ H[h] = hdr[h]
      /\ \A x \in Headers : Alike(H[x], hdr[x])
  BY <1>1, <1>6, ReturnHeapOK
<1> HIDE DEF H, X
<1>9. Due(H) = Due(hdr) /\ IsFree(H) = IsFree(hdr) /\ Unready(H, h) /\ OpenOf(H, h) = {} /\ Rest(hdr, H, h)
  <2>1. Due(H) = Due(hdr) /\ IsFree(H) = IsFree(hdr) /\ Rest(hdr, H, h)
    BY <1>8, KeepsFacts, RestFacts DEF Keeps
  <2>2. QED
    BY <1>5, <1>8, <2>1 DEF Unready, Ready, OpenOf
<1>10. h \in Due(H) /\ \A x \in Headers \ {Always} : X[x] >= 0
  <2>1. h \in Due(H)
    BY <1>2, <1>3, <1>9
  <2>2. \A x \in Headers : X[x] >= 0
    BY <1>7
  <2>3. QED
    BY <2>1, <2>2
<1>11. CASE hdr[h].ref = 1
  <2> DEFINE D == [K EXCEPT ![h] = DeadHeader]
             B == [G EXCEPT ![h] = DeadHeader]
  <2>1. hdr' = Drop(D, r) /\ active' = active /\ origin' = origin
    BY <1>1, <1>11
  <2>2. /\ HeapOK(B, X, Nil) /\ IsFree(B) = IsFree(H) /\ Due(B) = Due(H) \ {h} /\ Rest(H, B, h)
        /\ h \notin Alls(B) /\ B = D
    <3>1. H[h].ref = 1
      BY <1>8, <1>11
    <3>2. QED
      BY <1>7, <1>8, <1>10, <3>1, DieOK
  <2> HIDE DEF B, D
  <2>3. HeapOK(D, X, Nil) /\ IsFree(D) = IsFree(H) /\ Due(D) = Due(H) \ {h} /\ Rest(H, D, h) /\ h \notin Alls(D)
    BY <2>2
  <2>4. HeapOK(Drop(D, r), Give(X, r, -1), Nil) /\ Keeps(D, Drop(D, r))
    BY <1>7, <1>10, <2>3, DropOK
  <2>5. HeapOK(hdr', user', Nil)
    <3>1. \A x \in Headers \ {Always} : user'[x] = Give(X, r, -1)[x]
      BY <1>7
    <3>2. HeapOK(Drop(D, r), user', Nil)
      BY <2>4, <3>1, HeapTally
    <3>3. QED
      BY <2>1, <3>2
  <2>6. Keeps(D, hdr')
    BY <2>1, <2>4
  <2>7. Due(hdr') = Due(D) /\ IsFree(hdr') = IsFree(D) /\ Alls(hdr') = Alls(D) /\ Rest(D, hdr', h)
    BY <2>3, <2>5, <2>6, KeepsFacts, RestFacts DEF Keeps
  <2>8. Rest(hdr, hdr', h)
    BY <1>9, <2>3, <2>7, RestFacts
  <2>9. h \notin Due(hdr') /\ h \notin Alls(hdr') /\ Due(hdr') = Due(hdr) \ {h} /\ IsFree(hdr') = IsFree(hdr)
    BY <1>9, <2>3, <2>7
  <2>10. Cardinality(IsFree(hdr')) >= MaxHeaders - size.headers + Cardinality(Alls(hdr) \ {h})
    BY <2>9, SameRoom
  <2>11. Lists!ToSet(active') = (Due(hdr) \ {running, h}) \cup (Due(hdr') \ Due(hdr))
    BY <1>2, <1>3, <2>1, <2>9
  <2>12. /\ origin' \in [Headers -> Headers] /\ active' \in Seq(Headers) /\ Lists!IsInjective(active')
         /\ running' = Nil /\ running \in {Nil, h} /\ user' \in [Headers -> Nat]
    BY <1>1, <1>2, <1>3, <1>7, <2>1
  <2>13. FutureInv'
    BY <1>3, <1>4, <2>5, <2>8, <2>9, <2>10, <2>11, <2>12, LeaveStep
  <2>14. Vanishes(hdr, hdr', h)
    <3>0. Sheds(hdr, H)
      BY InvFacts, ReturnSheds DEF H
    <3>1. Vanishes(H, D, h)
      <4>1. Vanishes(H, B, h)
        BY <1>3, <1>8, DieVanishes DEF B
      <4>2. QED
        BY <2>2, <4>1
    <3>2. D \in Heaps /\ (Ready(D, r) /\ D[r].result # r => D[r].result \in Headers)
      BY <1>7, <2>3, HeapHeader, HeldAllocated, ReadyResult
    <3>3. Sheds(D, hdr')
      BY <2>1, <3>2, HeapsSketches, DropSheds
    <3>4. Alters(hdr, D, {h}, h, h, FALSE) /\ D[h].kind = "dead"
      BY <3>0, <3>1, SparesFacts DEF Vanishes
    <3>5. Alters(hdr, hdr', {h}, h, h, FALSE)
      BY <3>3, <3>4, SparesFacts
    <3>6. hdr'[h].kind = "dead"
      BY <1>3, <3>3, <3>4 DEF Sheds, Alike
    <3>7. QED
      BY <3>5, <3>6 DEF Vanishes
  <2>15. QED
    BY <1>3, <1>11, <2>13, <2>14
<1>12. CASE hdr[h].ref # 1
  <2>1. hdr' = E.heap /\ active' = E.queue /\ origin' = StandFor(h, r)
    BY <1>1, <1>12
  <2> DEFINE Y == Give(X, h, 1)
             W == Give(Give(Y, h, -1), r, -1)
  <2>2. /\ HeapOK(K, Y, h) /\ Y \in Tallies /\ K \in Heaps
        /\ IsFree(K) = IsFree(H) /\ Due(K) = Due(H)
        /\ \A x \in Headers \ {h} : Unready(H, x) \/ Unready(K, x) => Alike(K[x], H[x])
    BY <1>3, <1>7, <1>8, <1>9, <1>10, DropDepsOK
  <2>3. Unready(K, h) /\ K[h].ref = H[h].ref
    BY <1>3, <1>7, <1>8, <1>9, <1>10, DropDepsOK
  <2>3a. Spares(hdr, K, {h})
    <3>1. hdr \in Heaps /\ ReturnHeap(r, move) \in Heaps
      BY <1>8, InvFacts DEF H
    <3>2. Spares(hdr, Cleared(DropDeps(ReturnHeap(r, move), h), h), {h})
      BY <1>3, <3>1, ReturnSpares
    <3>3. QED
      BY <3>2 DEF H
  <2> HIDE DEF K
  <2>4. Y[h] = X[h] + 1 /\ (\A x \in Headers \ {h} : Y[x] = X[x]) /\ X[h] \in Nat
    <3>1. 1 \in Int
      OBVIOUS
    <3>2. QED
      BY <1>3, <1>7, <3>1, GiveFacts, ZenonT(60)
  <2>5. \A x \in Headers \ {Always} : user'[x] = W[x]
    <3>1. -1 \in Int
      OBVIOUS
    <3> HIDE DEF Y
    <3> DEFINE V == Give(Y, h, -1)
               U == Give(V, r, -1)
               T == Give(X, r, -1)
    <3>2. V \in Tallies /\ V[h] = Y[h] + (-1) /\ \A x \in Headers \ {h} : V[x] = Y[x]
      BY <1>3, <2>2, <3>1, GiveFacts
    <3> HIDE DEF V
    <3>3. V[h] = X[h]
      BY <2>4, <3>2
    <3>4. \A x \in Headers : V[x] = X[x]
      BY <2>4, <3>2, <3>3
    <3>5. U[r] = V[r] + (-1) /\ \A x \in Headers \ {r} : U[x] = V[x]
      BY <3>1, <3>2, GiveFacts
    <3>6. T[r] = X[r] + (-1) /\ \A x \in Headers \ {r} : T[x] = X[x]
      BY <1>7, <3>1, GiveFacts
    <3>7. \A x \in Headers : T[x] = user'[x]
      BY <1>7
    <3> HIDE DEF U, T
    <3>8. \A x \in Headers : user'[x] = U[x]
      BY <3>4, <3>5, <3>6, <3>7
    <3>9. QED
      BY <3>8 DEF U, V
  <2> HIDE DEF Y
  <2>6. Y[h] >= 1 /\ (r # Always => Y[r] >= 1) /\ \A x \in Headers \ {Always} : Y[x] >= 0
    <3>1. Y[h] >= 1
      BY <2>4
    <3>2. Y[r] >= 1
      BY <1>6, <1>7, <2>4
    <3>3. \A x \in Headers \ {Always} : Y[x] >= 0
      BY <1>10, <2>4, <3>1
    <3>4. QED
      BY <3>1, <3>2, <3>3
  <2>7. Target(K, r) # h
    <3>1. CASE ~ Proxying(K, r)
      BY <1>6, <3>1 DEF Target
    <3>2. CASE Proxying(K, r)
      <4>1. Unready(K, r)
        BY <2>2, <3>2, KindFacts
      <4>2. Alike(K[r], H[r]) /\ Alike(H[r], hdr[r])
        BY <1>6, <1>8, <2>2, <4>1
      <4>3. Proxying(hdr, r) /\ Proxied(K, r) = Proxied(hdr, r)
        BY <3>2, <4>2 DEF Alike, Proxying, Proxied
      <4>4. QED
        BY <1>6, <3>2, <4>3 DEF Target
    <3>3. QED
      BY <3>1, <3>2
  <2>8. Lists!ToSet(active) \subseteq Due(K) /\ K[h].ref # 1 /\ r \in Headers \ {h}
    BY <1>2, <1>6, <1>8, <1>9, <1>12, <2>2, <2>3
  <2>9. Left(K, active, h, E, W)
    BY <1>2, <1>5, <2>2, <2>3, <2>6, <2>7, <2>8, EnterProxyingOK
  <2>9a. Turned(K, E.heap, h, Target(K, r))
    BY <1>2, <1>5, <2>2, <2>3, <2>6, <2>7, <2>8, EnterProxyingAlters
  <2>9b. Target(K, r) \in Headers \ {h} /\ Allocated(K, r) /\ Allocated(K, Target(K, r))
    <3>1. Allocated(K, r)
      BY <2>2, <2>6, HeldAllocated
    <3>2. CASE Proxying(K, r)
      <4>1. Proxied(K, r) \in Headers /\ Allocated(K, Proxied(K, r))
        BY <1>6, <2>2, <3>2, ProxiedFacts
      <4>2. QED
        BY <2>7, <3>1, <3>2, <4>1 DEF Target
    <3>3. CASE ~ Proxying(K, r)
      BY <1>6, <3>1, <3>3 DEF Target
    <3>4. QED
      BY <3>2, <3>3
  <2> HIDE DEF E, W
  <2>10. Left(K, active, h, E, user')
    BY <2>5, <2>9, LeftTally
  <2>11. Rest(hdr, K, h)
    <3>1. \A x \in Headers \ {h} : Unready(K, x) <=> Unready(H, x)
      BY <2>2 DEF Alike, Unready, Ready
    <3>2. \A x \in Headers \ {h} : Unready(H, x) => K[x].body = H[x].body /\ K[x].status = H[x].status
      BY <2>2 DEF Alike
    <3>3. \A x \in Due(H) : Unready(H, x)
      BY DEF Due
    <3>4. Rest(H, K, h)
      BY <2>2, <3>1, <3>2, <3>3 DEF Rest
    <3>5. QED
      BY <1>9, <3>4, RestFacts
  <2>12. Cardinality(IsFree(K)) >= MaxHeaders - size.headers + Cardinality(Alls(hdr) \ {h})
    <3>1. IsFree(K) = IsFree(hdr)
      BY <1>9, <2>2
    <3>2. QED
      BY <3>1, SameRoom
  <2>13. origin' \in [Headers -> Headers]
    BY <1>2, <1>3, <2>1 DEF StandFor
  <2>14. Due(K) = Due(hdr) /\ Lists!ToSet(active) = Due(hdr) \ {running, h} /\ running' = Nil /\ running \in {Nil, h}
    BY <1>1, <1>2, <1>3, <1>9, <2>2
  <2>15. FutureInv'
    BY <1>3, <1>4, <1>7, <2>1, <2>10, <2>11, <2>12, <2>13, <2>14, LeftStep
  <2>16. Returns(r)
    BY <1>3, <1>6, <2>1, <2>3a, <2>9a, <2>9b, TurnedReturns
  <2>17. QED
    BY <1>3, <1>12, <2>15, <2>16
<1>13. QED
  BY <1>11, <1>12

-----------------------------------------------------------------------------
(* Making a dependent                                                      *)

\* The references that user code is left with once it gave the arguments fs away.
Kept(fs, move) == IF move THEN [user EXCEPT ![fs[1]] = @ - 1] ELSE user

\* What user code keeps, with the references that its arguments carry, is what it had.
LEMMA KeptFacts ==
  ASSUME FutureInv, NEW fs \in Seq(Headers), \A k \in DOMAIN fs : Holds(fs[k]), NEW move \in BOOLEAN, move => Len(fs) = 1
  PROVE  /\ Kept(fs, move) \in [Headers -> Nat]
         /\ \A x \in Headers : Cardinality(Uses(fs, 0, x)) \in Nat
         /\ move => \A x \in Headers : Owed(Kept(fs, move), fs, 0)[x] = user[x]
         /\ ~ move => Kept(fs, move) = user
<1>0. user \in [Headers -> Nat] /\ (\A x \in Headers : user[x] \in Nat) /\ \A x \in Headers : Holds(x) => user[x] >= 1
  BY InvFacts
<1>1. Len(fs) \in Nat /\ DOMAIN fs = 1 .. Len(fs) /\ \A k \in DOMAIN fs : fs[k] \in Headers
  BY LenProperties, ElementOfSeq
<1>2. 0 \in 0 .. Len(fs)
  BY <1>1
<1>3. \A x \in Headers : Cardinality(Uses(fs, 0, x)) \in Nat
  BY <1>2, UsesFacts
<1>4. CASE ~ move
  <2>1. Kept(fs, move) = user
    BY <1>4 DEF Kept
  <2>2. QED
    BY <1>0, <1>3, <1>4, <2>1
<1>5. CASE move
  <2> DEFINE a == fs[1]
             B == Kept(fs, move)
  <2>1. Len(fs) = 1 /\ a \in Headers /\ user[a] >= 1 /\ user[a] \in Nat
    <3>1. Len(fs) = 1 /\ 1 \in DOMAIN fs
      BY <1>1, <1>5
    <3>2. QED
      BY <1>0, <1>1, <3>1
  <2>2. B = [user EXCEPT ![a] = user[a] - 1]
    BY <1>5 DEF Kept
  <2>3. user[a] - 1 \in Nat
    BY <2>1
  <2>4. B \in [Headers -> Nat] /\ B[a] = user[a] - 1 /\ \A x \in Headers \ {a} : B[x] = user[x]
    BY <1>0, <2>1, <2>2, <2>3
  <2>5. \A x : Uses(fs, 0, x) = IF x = a THEN {1} ELSE {}
    <3>1. 0 + 1 .. Len(fs) = {1}
      BY <2>1
    <3>2. QED
      BY <3>1 DEF Uses
  <2> HIDE DEF a, B
  <2>6. Cardinality(Uses(fs, 0, a)) = 1 /\ \A x \in Headers \ {a} : Cardinality(Uses(fs, 0, x)) = 0
    BY <2>5, FS_Singleton, FS_EmptySet
  <2>7. \A x \in Headers : Owed(B, fs, 0)[x] = B[x] + Cardinality(Uses(fs, 0, x))
    BY DEF Owed
  <2>8. Owed(B, fs, 0)[a] = user[a]
    BY <2>1, <2>4, <2>6, <2>7
  <2>9. \A x \in Headers \ {a} : Owed(B, fs, 0)[x] = user[x]
    BY <1>0, <2>4, <2>6, <2>7
  <2>10. \A x \in Headers : Owed(B, fs, 0)[x] = user[x]
    BY <2>8, <2>9
  <2>11. QED
    BY <1>3, <1>5, <2>4, <2>10 DEF B
<1>6. QED
  BY <1>4, <1>5

\* Copying futures on x changes its reference count only.
LEMMA CopiedHeader ==
  ASSUME NEW H \in Heaps, NEW x \in Headers, NEW n \in Nat
  PROVE  LET a == AddRef(H, x, n)[x]
         IN  /\ a \in HeaderType /\ Alike(a, H[x]) /\ a.countdown = H[x].countdown
             /\ H[x].ref < 0 => a = H[x]
             /\ H[x].ref >= 0 => a.ref = H[x].ref + n
<1>1. H[x] \in HeaderType /\ H[x].ref \in Nat \cup {-1}
  BY FieldTypes DEF Heaps
<1>2. CASE H[x].ref < 0
  BY <1>1, <1>2 DEF AddRef, Alike
<1>3. CASE H[x].ref >= 0
  <2> DEFINE m == H[x].ref + n
             a == [H[x] EXCEPT !.ref = m]
  <2>1. m \in Nat
    BY <1>1, <1>3
  <2>2. AddRef(H, x, n)[x] = a
    BY <1>1, <1>3 DEF AddRef, Heaps
  <2> HIDE DEF m
  <2>3. a \in HeaderType /\ Alike(a, H[x]) /\ a.countdown = H[x].countdown /\ a.ref = m
    BY <1>1, <2>1 DEF HeaderType, Alike
  <2> HIDE DEF a
  <2>4. ~ (H[x].ref < 0)
    BY <1>1, <1>3
  <2>5. QED
    BY <2>2, <2>3, <2>4 DEF m
<1>4. QED
  BY <1>1, <1>2, <1>3

\* Copying or moving the arguments keeps the heap whole.
LEMMA TakeArgsOK ==
  ASSUME FutureInv, NEW fs \in Seq(Headers), \A k \in DOMAIN fs : Holds(fs[k]), NEW move \in BOOLEAN, move => Len(fs) = 1
  PROVE  /\ HeapOK(TakeArgs(fs, move), Owed(Kept(fs, move), fs, 0), Nil) /\ Keeps(hdr, TakeArgs(fs, move))
         /\ Owed(Kept(fs, move), fs, 0) \in [Headers -> Nat]
<1> DEFINE J == TakeArgs(fs, move)
           B == Kept(fs, move)
           O == Owed(B, fs, 0)
<1>1. /\ HeapOK(hdr, user, Nil) /\ hdr \in Heaps /\ user \in Tallies
      /\ (\A x \in Headers : user[x] \in Nat) /\ \A x \in Headers : Holds(x) => user[x] >= 1
  BY InvFacts
<1>2. /\ B \in [Headers -> Nat] /\ (\A x \in Headers : Cardinality(Uses(fs, 0, x)) \in Nat)
      /\ (move => \A x \in Headers : O[x] = user[x]) /\ (~ move => B = user)
  BY KeptFacts
<1> HIDE DEF B
<1>3. O \in [Headers -> Nat] /\ \A x \in Headers : O[x] = B[x] + Cardinality(Uses(fs, 0, x))
  BY <1>2 DEF Owed
<1> HIDE DEF O
<1>4. CASE move
  <2>1. J = hdr
    BY <1>4 DEF TakeArgs
  <2>2. HeapOK(hdr, O, Nil)
    <3>1. \A x \in Headers \ {Always} : O[x] = user[x]
      BY <1>2, <1>4
    <3>2. QED
      BY <1>1, <3>1, HeapTally
  <2>3. QED
    BY <1>3, <2>1, <2>2, KeepsSame DEF O, B
<1>5. CASE ~ move
  <2> DEFINE u(x) == Cardinality(Uses(fs, 0, x))
  <2>1. J = [x \in Headers |-> AddRef(hdr, x, u(x))[x]]
    <3>1. DOMAIN fs = 1 .. Len(fs) /\ 0 + 1 = 1
      BY LenProperties
    <3>2. \A x : {k \in DOMAIN fs : fs[k] = x} = Uses(fs, 0, x)
      BY <3>1 DEF Uses
    <3>3. QED
      BY <1>5, <3>2 DEF TakeArgs
  <2>2. \A x \in Headers : u(x) \in Nat /\ O[x] = user[x] + u(x)
    BY <1>2, <1>3, <1>5
  <2>3. \A x \in Headers : ~ Allocated(hdr, x) => u(x) = 0
    <3> SUFFICES ASSUME NEW x \in Headers, ~ Allocated(hdr, x)
                 PROVE  Uses(fs, 0, x) = {}
      BY FS_EmptySet
    <3> SUFFICES ASSUME NEW j \in Uses(fs, 0, x)
                 PROVE  FALSE
      OBVIOUS
    <3>1. j \in DOMAIN fs /\ fs[j] = x
      <4>1. DOMAIN fs = 1 .. Len(fs) /\ 0 + 1 = 1
        BY LenProperties
      <4>2. QED
        BY <4>1 DEF Uses
    <3>2. user[x] >= 1
      BY <1>1, <3>1
    <3>3. QED
      BY <1>1, <3>2, HeldAllocated
  <2> HIDE DEF u
  <2>4. ASSUME NEW x \in Headers
        PROVE  /\ J[x] \in HeaderType /\ Alike(J[x], hdr[x]) /\ J[x].countdown = hdr[x].countdown
               /\ hdr[x].ref < 0 => J[x] = hdr[x]
               /\ hdr[x].ref >= 0 => J[x].ref = hdr[x].ref + u(x)
    <3>1. J[x] = AddRef(hdr, x, u(x))[x] /\ u(x) \in Nat
      BY <2>1, <2>2
    <3> HIDE DEF J
    <3>2. QED
      BY <1>1, <3>1, CopiedHeader
  <2>5. J \in Heaps
    <3>1. J = [x \in Headers |-> J[x]]
      BY <2>1
    <3> HIDE DEF J
    <3>2. QED
      BY <2>4, <3>1 DEF Heaps
  <2> HIDE DEF J
  <2>6. J[Always] = hdr[Always]
    <3>1. Always \in Headers /\ hdr[Always].ref = -1
      BY <1>1, Constants, HeapHeader
    <3>2. QED
      BY <2>4, <3>1
  <2>7. ASSUME NEW x \in Headers \ {Always}
        PROVE  /\ J[x].ref = hdr[x].ref + O[x] - user[x]
               /\ Allocated(hdr, x) => J[x].ref > 0
               /\ ~ Allocated(hdr, x) => O[x] = user[x]
    <3>1. hdr[x].ref \in Nat /\ (Allocated(hdr, x) => hdr[x].ref > 0)
      BY <1>1, KindFacts
    <3>2. u(x) \in Nat /\ O[x] = user[x] + u(x) /\ user[x] \in Nat /\ (~ Allocated(hdr, x) => u(x) = 0)
      BY <1>1, <2>2, <2>3
    <3>3. J[x].ref = hdr[x].ref + u(x)
      BY <2>4, <3>1
    <3>4. QED
      BY <3>1, <3>2, <3>3
  <2>8. O \in Tallies
    BY <1>3 DEF Tallies
  <2>9. HeapOK(J, O, Nil) /\ Keeps(hdr, J)
    <3>1. {} \in SUBSET (Headers \ {Always})
      OBVIOUS
    <3>2. \A x \in Headers \ {} : Alike(J[x], hdr[x]) /\ (J[x].countdown = hdr[x].countdown \/ hdr[x].status = StatusActive + 1)
      BY <2>4
    <3>3. QED
      BY <1>1, <2>5, <2>6, <2>7, <2>8, <3>1, <3>2, Release
  <2>10. QED
    BY <1>3, <2>9 DEF J, O, B
<1>6. QED
  BY <1>4, <1>5

\* A new element at the end of a queue of distinct headers.
LEMMA AppendFacts ==
  ASSUME NEW T, NEW s \in Seq(T), Lists!IsInjective(s), NEW e \in T, e \notin Lists!ToSet(s)
  PROVE  /\ Append(s, e) \in Seq(T) /\ Lists!IsInjective(Append(s, e))
         /\ Lists!ToSet(Append(s, e)) = Lists!ToSet(s) \cup {e}
<1>1. Append(s, e) = s \o <<e>>
  BY AppendIsConcat
<1>2. <<e>> \in Seq(T) /\ Lists!ToSet(<<e>>) = {e} /\ Lists!IsInjective(<<e>>)
  BY SingletonSeq
<1>3. Lists!ToSet(s) \cap Lists!ToSet(<<e>>) = {}
  BY <1>2
<1>4. QED
  BY <1>1, <1>2, <1>3, ConcatFacts

\* A new dependent h, before its first argument is linked; J is the heap in which the
\* arguments fs are taken and B what user code holds afterwards.
Founded(J, K, B, h, body, fs) ==
  /\ HeapOK(K, Owed(B, fs, 0), Nil) /\ Building(K, Owed(B, fs, 0), h, 0) /\ K \in Heaps
  /\ h \in Headers \ {Always} /\ K[h].body = body /\ IsFree(K) = IsFree(J) \ {h}
  /\ (\A x \in Headers \ {h} : K[x] = J[x]) /\ \A j \in DOMAIN fs : fs[j] # h

\* Making the dependent keeps the heap whole; its one user reference is the one that is returned.
LEMMA FoundOK ==
  ASSUME NEW J, NEW A \in [Headers -> Nat], NEW fs \in Seq(Headers), HeapOK(J, Owed(A, fs, 0), Nil),
         Owed(A, fs, 0) \in [Headers -> Nat], \A x \in Headers : Cardinality(Uses(fs, 0, x)) \in Nat,
         NEW h \in IsFree(J), NEW body \in {"then", "all"},
         NEW B, B = [A EXCEPT ![h] = 1]
  PROVE  Founded(J, [J EXCEPT ![h] = DependentHeader(body)], B, h, body, fs)
<1> DEFINE O == Owed(A, fs, 0)
           P == Owed(B, fs, 0)
           N == DependentHeader(body)
           K == [J EXCEPT ![h] = N]
<1>1. h \in Headers /\ O \in Tallies /\ O[h] \in Nat
  BY DEF IsFree, Tallies
<1>2. IsNew(N, h)
  BY DEF IsNew
<1>3. \A x \in Headers : O[x] = A[x] + Cardinality(Uses(fs, 0, x)) /\ P[x] = B[x] + Cardinality(Uses(fs, 0, x))
  BY DEF Owed
<1>4. N.kind = "dependent" /\ N.ref = 2 /\ N.status = StatusActive /\ N.body = body /\ N.deps = <<>>
  BY MadeFields
<1> HIDE DEF O, P, N
<1>5. Made(J, K, O, h, N)
  <2>1. HeapOK(J, O, Nil)
    BY DEF O
  <2>2. QED
    BY <1>1, <1>2, <2>1, NewMade
<1> HIDE DEF K
<1>6. /\ HeapOK(K, Give(O, h, 1), Nil) /\ K \in Heaps /\ K[h] = N /\ (\A x \in Headers \ {h} : K[x] = J[x])
      /\ IsFree(K) = IsFree(J) \ {h} /\ h \in Headers \ {Always} /\ O[h] = 0
  BY <1>5 DEF Made
<1>7. A[h] = 0 /\ Cardinality(Uses(fs, 0, h)) = 0
  <2>1. A[h] \in Nat /\ Cardinality(Uses(fs, 0, h)) \in Nat
    BY <1>1
  <2>2. O[h] = A[h] + Cardinality(Uses(fs, 0, h))
    BY <1>1, <1>3
  <2>3. QED
    BY <1>6, <2>1, <2>2
<1>8. \A j \in DOMAIN fs : fs[j] # h
  <2>1. IsFiniteSet(Uses(fs, 0, h))
    <3>1. 0 \in 0 .. Len(fs)
      BY LenProperties
    <3>2. QED
      BY <3>1, UsesFacts
  <2>2. Uses(fs, 0, h) = {}
    BY <1>7, <2>1, FS_EmptySet
  <2>3. DOMAIN fs = 1 .. Len(fs) /\ 0 + 1 = 1
    BY LenProperties
  <2>4. QED
    BY <2>2, <2>3 DEF Uses
<1>9. P[h] = 1 /\ \A x \in Headers \ {h} : P[x] = O[x]
  <2>1. B[h] = 1 /\ \A x \in Headers \ {h} : B[x] = A[x]
    BY <1>1
  <2>2. P[h] = 1
    <3>1. P[h] = B[h] + Cardinality(Uses(fs, 0, h))
      BY <1>1, <1>3
    <3>2. QED
      BY <1>7, <2>1, <3>1
  <2>3. \A x \in Headers \ {h} : P[x] = O[x]
    BY <1>3, <2>1
  <2>4. QED
    BY <2>2, <2>3
<1>10. HeapOK(K, P, Nil)
  <2> DEFINE G == Give(O, h, 1)
  <2>0. 1 \in Int
    OBVIOUS
  <2>1. G[h] = O[h] + 1 /\ \A x \in Headers \ {h} : G[x] = O[x]
    BY <1>1, <2>0, GiveFacts
  <2>2. HeapOK(K, G, Nil)
    BY <1>6
  <2> HIDE DEF G
  <2>3. \A x \in Headers \ {Always} : P[x] = G[x]
    <3>1. P[h] = G[h]
      BY <1>6, <1>9, <2>1
    <3>2. QED
      BY <1>9, <2>1, <3>1
  <2>4. QED
    BY <2>2, <2>3, HeapTally
<1>11. Building(K, P, h, 0)
  <2>1. Unready(K, h)
    BY <1>4, <1>6 DEF Unready, Ready, StatusActive, StatusReady
  <2>2. Len(K[h].deps) = 0
    BY <1>4, <1>6
  <2>3. QED
    BY <1>4, <1>6, <1>9, <2>1, <2>2 DEF Building
<1>12. K[h].body = body
  BY <1>4, <1>6
<1>13. QED
  BY <1>6, <1>8, <1>10, <1>11, <1>12 DEF Founded, K, N, P

\* What a step that makes the dependent h on K leaves of the heap H.
Grown(H, K, X, h, body) ==
  /\ HeapOK(K, X, Nil) /\ h \in IsFree(H) /\ Unready(K, h) /\ K[h].body = body
  /\ IsFree(K) = IsFree(H) \ {h} /\ Due(K) \ {h} = Due(H) /\ Alls(K) \ {h} = Alls(H) /\ h \notin Alls(H)
  /\ \A x \in Headers \ {h} : Unready(H, x) =>
       Unready(K, x) /\ K[x].status = H[x].status /\ K[x].body = H[x].body
  /\ h \in Due(K) <=> K[h].status = StatusActive

\* Linking the arguments of the new dependent leaves every other dependent in its state.
LEMMA GrownOK ==
  ASSUME NEW H, NEW X, HeapOK(H, X, Nil), NEW J, NEW A \in [Headers -> Nat], NEW fs \in Seq(Headers), Len(fs) <= MaxArgs,
         HeapOK(J, Owed(A, fs, 0), Nil), Keeps(H, J), NEW h \in IsFree(H), NEW body \in {"then", "all"},
         NEW B \in [Headers -> Nat], NEW K, Founded(J, K, B, h, body, fs)
  PROVE  Grown(H, LinkAll(K, h, fs), B, h, body)
<1> DEFINE M == LinkAll(K, h, fs)
<1>1. /\ HeapOK(K, Owed(B, fs, 0), Nil) /\ Building(K, Owed(B, fs, 0), h, 0) /\ K \in Heaps
      /\ h \in Headers \ {Always} /\ h \in Headers /\ IsFree(K) = IsFree(J) \ {h}
      /\ (\A x \in Headers \ {h} : K[x] = J[x]) /\ \A j \in DOMAIN fs : fs[j] # h
  BY DEF Founded
<1>2. K[h].body = body
  BY DEF Founded
<1>3. B \in Tallies /\ \A x \in Headers \ {Always} : B[x] >= 0
  BY DEF Tallies
<1>4. HeapOK(M, B, Nil) /\ Building(M, B, h, Len(fs)) /\ Steady(K, M, h) /\ M[h].body = K[h].body
  BY <1>1, <1>3, LinkAllOK
<1> HIDE DEF M
<1>5. Unready(M, h) /\ M[h].body = body
  BY <1>2, <1>4 DEF Building
<1>6. H[h].kind = "free" /\ J[h].kind = "free" /\ IsFree(J) = IsFree(H)
  BY DEF Keeps, IsFree
<1>7. ~ Unready(H, h) /\ ~ Unready(J, h)
  BY <1>6 DEF Unready
<1>8. h \notin Due(H) /\ h \notin Due(J)
  BY <1>7 DEF Due
<1>9. Due(J) = Due(H) /\ Alls(J) = Alls(H)
  BY KeepsFacts
<1>10. h \notin Alls(H)
  <2>1. Bodiless(H, h)
    BY <1>1, <1>7, KindFacts
  <2>2. QED
    BY <2>1 DEF Alls, Bodiless
<1>11. Due(K) \ {h} = Due(J) /\ Alls(K) \ {h} = Alls(J)
  <2>1. Due(K) \ {h} = Due(J)
    BY <1>1, <1>8 DEF Due, Unready, Ready
  <2>2. Alls(K) \ {h} = Alls(J)
    BY <1>1, <1>9, <1>10 DEF Alls
  <2>3. QED
    BY <2>1, <2>2
<1>12. Due(M) \ {h} = Due(K) \ {h} /\ Alls(M) \ {h} = Alls(K) \ {h} /\ IsFree(M) = IsFree(K)
  <2>1. Due(M) \ {h} = Due(K) \ {h}
    BY <1>4, SteadyFacts
  <2>2. Alls(M) \ {h} = Alls(K) \ {h}
    BY <1>1, <1>4, SteadyFacts
  <2>3. QED
    BY <1>4, <2>1, <2>2 DEF Steady
<1>13. ASSUME NEW x \in Headers \ {h}, Unready(H, x)
       PROVE  Unready(M, x) /\ M[x].status = H[x].status /\ M[x].body = H[x].body
  <2>1. Alike(J[x], H[x]) /\ Unready(J, x)
    BY <1>13, KeepsFacts DEF Keeps
  <2>2. J[x].status = H[x].status /\ J[x].body = H[x].body
    BY <2>1 DEF Alike
  <2>3. K[x] = J[x]
    BY <1>1
  <2>4. Unready(K, x) /\ K[x].status = H[x].status /\ K[x].body = H[x].body
    BY <2>1, <2>2, <2>3 DEF Unready, Ready
  <2>5. QED
    BY <1>4, <2>4 DEF Steady
<1>14. h \in Due(M) <=> M[h].status = StatusActive
  <2>1. BodyOK(M, h) /\ h # Nil
    BY <1>1, <1>4, <1>5, KindFacts, Constants
  <2>2. M[h].status = Cardinality(OpenOf(M, h))
    BY <1>5, <2>1 DEF BodyOK
  <2>3. Cardinality(OpenOf(M, h)) \in Nat
    BY <1>1, <1>4, HitsFacts
  <2>4. M[h].status # StatusProxyingActive
    BY <2>2, <2>3 DEF StatusProxyingActive
  <2>5. QED
    BY <1>1, <1>5, <2>4 DEF Due
<1>15. QED
  BY <1>1, <1>4, <1>5, <1>6, <1>9, <1>10, <1>11, <1>12, <1>13, <1>14 DEF Grown, M

\* Making a dependent keeps the invariant.
LEMMA GrownStep ==
  ASSUME FutureInv, UNCHANGED <<size, running>>, NEW h \in Headers, NEW body \in {"then", "all"},
         Room(IF body = "all" THEN 2 ELSE 1), Grown(hdr, hdr', user', h, body), user' \in [Headers -> Nat],
         origin' \in [Headers -> Headers], args' \in [Headers -> Seq(Headers)], returning' \in Headers \cup {Nil},
         active' = IF hdr'[h].status = StatusActive THEN Append(active, h) ELSE active
  PROVE  FutureInv'
<1>1. /\ HeapOK(hdr', user', Nil) /\ h \in IsFree(hdr) /\ hdr'[h].body = body
      /\ IsFree(hdr') = IsFree(hdr) \ {h} /\ Due(hdr') \ {h} = Due(hdr) /\ Alls(hdr') \ {h} = Alls(hdr)
      /\ h \notin Alls(hdr) /\ (h \in Due(hdr') <=> hdr'[h].status = StatusActive)
      /\ \A x \in Headers \ {h} : Unready(hdr, x) =>
           Unready(hdr', x) /\ hdr'[x].status = hdr[x].status /\ hdr'[x].body = hdr[x].body
  BY DEF Grown
<1>2. /\ active \in Seq(Headers) /\ Lists!IsInjective(active) /\ Lists!ToSet(active) = Due(hdr) \ {running}
      /\ running \in Headers \cup {Nil} /\ (running # Nil => running \in Due(hdr)) /\ RunningOK
  BY InvFacts
<1>3. h \notin Due(hdr) /\ h # running /\ h \notin Lists!ToSet(active)
  <2>1. h \notin Due(hdr)
    BY <1>1 DEF Due, Unready, IsFree
  <2>2. QED
    BY <1>2, <2>1, Constants
<1>4. active' \in Seq(Headers) /\ Lists!IsInjective(active') /\ Lists!ToSet(active') = Due(hdr') \ {running'}
  <2>1. CASE hdr'[h].status = StatusActive
    <3>1. active' = Append(active, h) /\ h \in Due(hdr')
      BY <1>1, <2>1
    <3>2. /\ Append(active, h) \in Seq(Headers) /\ Lists!IsInjective(Append(active, h))
          /\ Lists!ToSet(Append(active, h)) = Lists!ToSet(active) \cup {h}
      BY <1>2, <1>3, AppendFacts
    <3>3. Lists!ToSet(active) \cup {h} = Due(hdr') \ {running}
      BY <1>1, <1>2, <1>3, <3>1
    <3>4. QED
      BY <3>1, <3>2, <3>3
  <2>2. CASE hdr'[h].status # StatusActive
    <3>1. active' = active /\ h \notin Due(hdr')
      BY <1>1, <2>2
    <3>2. Due(hdr') = Due(hdr)
      BY <1>1, <3>1
    <3>3. QED
      BY <1>2, <3>1, <3>2
  <2>3. QED
    BY <2>1, <2>2
<1>5. RunningOK'
  <2> SUFFICES ASSUME running # Nil
               PROVE  Unready(hdr', running) /\ hdr'[running].body = "then" /\ hdr'[running].status = StatusActive
    BY DEF RunningOK
  <2>1. Unready(hdr, running) /\ hdr[running].body = "then" /\ hdr[running].status = StatusActive /\ running \in Headers \ {h}
    BY <1>2, <1>3 DEF RunningOK
  <2>2. QED
    BY <1>1, <2>1
<1>6. RoomKept'
  <2> DEFINE f == Cardinality(IsFree(hdr))
             a == Cardinality(Alls(hdr))
             m == MaxHeaders - size.headers
             n == IF body = "all" THEN 2 ELSE 1
  <2>1. f >= m + n + a
    <3>1. n \in Nat \ {0} /\ Room(n)
      OBVIOUS
    <3> HIDE DEF n
    <3>2. QED
      BY <3>1, RoomFacts
  <2>2. f \in Nat /\ a \in Nat /\ m \in Nat /\ IsFiniteSet(Alls(hdr))
    BY FreeFinite, SizeFacts
  <2>3. Cardinality(IsFree(hdr')) = f - 1
    BY <1>1, FreeLess
  <2>4. Cardinality(Alls(hdr')) <= a + (n - 1)
    <3>1. CASE body = "all"
      <4>1. h \in Alls(hdr')
        BY <1>1, <3>1 DEF Alls
      <4>2. Alls(hdr') = Alls(hdr) \cup {h}
        BY <1>1, <4>1
      <4>3. Cardinality(Alls(hdr')) = a + 1
        BY <1>1, <2>2, <4>2, FS_AddElement
      <4>4. QED
        BY <2>2, <3>1, <4>3
    <3>2. CASE body = "then"
      <4>1. h \notin Alls(hdr')
        BY <1>1, <3>2 DEF Alls
      <4>2. Alls(hdr') = Alls(hdr)
        BY <1>1, <4>1
      <4>3. QED
        BY <2>2, <3>2, <4>2
    <3>3. QED
      BY <3>1, <3>2
  <2>5. n \in {1, 2} /\ Cardinality(Alls(hdr')) \in Nat
    BY FreeFinite
  <2> HIDE DEF f, a, m, n
  <2>6. f - 1 >= m + Cardinality(Alls(hdr'))
    BY <2>1, <2>2, <2>4, <2>5
  <2>7. Cardinality(IsFree(hdr')) >= MaxHeaders - size.headers + Cardinality(Alls(hdr'))
    BY <2>3, <2>6 DEF m
  <2>8. QED
    BY <2>7 DEF RoomKept
<1>7. QED
  BY <1>1, <1>2, <1>4, <1>5, <1>6, InvNext

\* make_header and steal_header keep the invariant.
LEMMA MakeDependentStep ==
  ASSUME FutureInv, UNCHANGED size, NEW body \in {"then", "all"}, NEW fs \in Seq(Headers), Len(fs) <= MaxArgs,
         NEW move \in BOOLEAN, MakeDependent(body, fs, move)
  PROVE  /\ FutureInv' /\ NewHeader(hdr) \in IsFree(hdr) /\ Grown(hdr, hdr', user', NewHeader(hdr), body)
         /\ LET h == NewHeader(hdr)
                J == TakeArgs(fs, move)
            IN  Founded(J, [J EXCEPT ![h] = DependentHeader(body)], user', h, body, fs)
<1> DEFINE h == NewHeader(hdr)
           J == TakeArgs(fs, move)
           A == Kept(fs, move)
           K == [J EXCEPT ![h] = DependentHeader(body)]
           B == [A EXCEPT ![h] = 1]
<1>1. /\ Room(IF body = "all" THEN 2 ELSE 1) /\ (\A k \in DOMAIN fs : Holds(fs[k])) /\ (move => Len(fs) = 1)
      /\ hdr' = LinkAll(K, h, fs)
      /\ active' = IF hdr'[h].status = StatusActive THEN Append(active, h) ELSE active
      /\ returning' \in {h, returning}
      /\ user' = [x \in Headers |-> IF x = h THEN 1 ELSE IF move /\ x = fs[1] THEN user[x] - 1 ELSE user[x]]
      /\ args' = [args EXCEPT ![h] = fs] /\ UNCHANGED <<running, origin>>
  BY DEF MakeDependent
<1>2. h \in IsFree(hdr) /\ h \in Headers
  <2> DEFINE n == IF body = "all" THEN 2 ELSE 1
  <2>1. n \in Nat \ {0} /\ Room(n)
    BY <1>1
  <2> HIDE DEF n
  <2>2. h \in IsFree(hdr)
    BY <2>1, RoomFacts
  <2>3. QED
    BY <2>2 DEF IsFree
<1>3. /\ HeapOK(hdr, user, Nil) /\ user \in [Headers -> Nat] /\ origin \in [Headers -> Headers]
      /\ args \in [Headers -> Seq(Headers)] /\ returning \in Headers \cup {Nil}
  BY InvFacts
<1> HIDE DEF h
<1>4. /\ A \in [Headers -> Nat] /\ \A x \in Headers : Cardinality(Uses(fs, 0, x)) \in Nat
  BY <1>1, KeptFacts
<1>5. HeapOK(J, Owed(A, fs, 0), Nil) /\ Keeps(hdr, J) /\ Owed(A, fs, 0) \in [Headers -> Nat]
  BY <1>1, TakeArgsOK
<1>6. user' = B
  <2>1. A = [x \in Headers |-> IF move /\ x = fs[1] THEN user[x] - 1 ELSE user[x]]
    <3>1. CASE move
      <4>1. A = [user EXCEPT ![fs[1]] = user[fs[1]] - 1]
        BY <3>1 DEF Kept
      <4>2. QED
        BY <1>3, <3>1, <4>1
    <3>2. CASE ~ move
      <4>1. A = user
        BY <3>2 DEF Kept
      <4>2. QED
        BY <1>3, <3>2, <4>1
    <3>3. QED
      BY <3>1, <3>2
  <2> HIDE DEF A
  <2>2. QED
    BY <1>1, <1>2, <2>1
<1> HIDE DEF J, A
<1>7. B \in [Headers -> Nat]
  BY <1>4
<1>8. h \in IsFree(J)
  BY <1>2, <1>5 DEF Keeps
<1>9. Founded(J, K, B, h, body, fs)
  BY <1>4, <1>5, <1>8, FoundOK
<1> HIDE DEF K, B
<1>10. Grown(hdr, LinkAll(K, h, fs), B, h, body)
  BY <1>2, <1>3, <1>4, <1>5, <1>7, <1>9, GrownOK
<1>11. Grown(hdr, hdr', user', h, body) /\ user' \in [Headers -> Nat]
  BY <1>1, <1>6, <1>7, <1>10
<1>12. args' \in [Headers -> Seq(Headers)] /\ origin' \in [Headers -> Headers] /\ returning' \in Headers \cup {Nil}
  BY <1>1, <1>2, <1>3
<1>13. FutureInv'
  BY <1>1, <1>2, <1>11, <1>12, GrownStep
<1>14. QED
  BY <1>2, <1>6, <1>9, <1>11, <1>13 DEF h, J, K

\* The arguments of then and when_all are a sequence within the bound.
LEMMA ArgListFacts ==
  ASSUME FutureInv, NEW fs \in ArgLists
  PROVE  fs \in Seq(Headers) /\ Len(fs) <= MaxArgs /\ Len(fs) \in Nat /\ DOMAIN fs = 1 .. Len(fs)
<1>1. PICK n \in 1 .. size.args : fs \in [1 .. n -> {h \in Headers : Holds(h)}]
  BY DEF ArgLists
<1>2. size.args \in 1 .. MaxArgs /\ MaxArgs \in Nat
  BY SizeFacts, Constants
<1>3. n \in Nat /\ n <= MaxArgs
  BY <1>2
<1>4. fs \in [1 .. n -> Headers]
  BY <1>1
<1>5. fs \in Seq(Headers) /\ Len(fs) = n /\ DOMAIN fs = 1 .. n
  BY <1>3, <1>4
<1>6. QED
  BY <1>3, <1>5

\* Every step keeps the invariant.
LEMMA NextStep ==
  ASSUME FutureInv, Next
  PROVE  FutureInv'
<1>1. Step /\ UNCHANGED size
  BY DEF Next
<1>2. CASE NewPromise
  BY <1>1, <1>2, NewPromiseStep
<1>3. CASE MakeFuture
  BY <1>1, <1>3, MakeFutureStep
<1>4. ASSUME NEW h \in Headers, CopyFuture(h)
      PROVE  FutureInv'
  BY <1>1, <1>4, CopyFutureStep
<1>5. ASSUME NEW h \in Headers, DropFuture(h)
      PROVE  FutureInv'
  BY <1>1, <1>5, DropFutureStep
<1>6. ASSUME NEW h \in Headers, RequireAnonymous(h)
      PROVE  FutureInv'
  BY <1>1, <1>6, RequireAnonymousStep
<1>7. ASSUME NEW h \in Headers, NEW n \in 1 .. size.countdown, Fulfill(h, n)
      PROVE  FutureInv'
  BY <1>1, <1>7, FulfillStep
<1>8. ASSUME NEW h \in Headers, LeaveActiveProxy(h)
      PROVE  FutureInv'
  BY <1>1, <1>8, LeaveActiveProxyStep
<1>9. ASSUME NEW h \in Headers, LeaveActiveAll(h)
      PROVE  FutureInv'
  BY <1>1, <1>9, LeaveActiveAllStep
<1>10. ASSUME NEW h \in Headers, CallbackBegin(h)
       PROVE  FutureInv'
  BY <1>1, <1>10, CallbackBeginStep
<1>11. ASSUME NEW h \in Headers, NEW move \in BOOLEAN, CallbackReturn(h, move)
       PROVE  FutureInv'
  BY <1>1, <1>11, CallbackReturnStep
<1>12. ASSUME NEW fs \in ArgLists, NEW move \in BOOLEAN, Then(fs, move)
       PROVE  FutureInv'
  <2>1. MakeDependent("then", fs, move)
    BY <1>12 DEF Then
  <2>2. fs \in Seq(Headers) /\ Len(fs) <= MaxArgs
    BY ArgListFacts
  <2>3. QED
    BY <1>1, <2>1, <2>2, MakeDependentStep
<1>13. ASSUME NEW fs \in ArgLists, WhenAll(fs)
       PROVE  FutureInv'
  <2>1. MakeDependent("all", fs, FALSE)
    BY <1>13 DEF WhenAll
  <2>2. fs \in Seq(Headers) /\ Len(fs) <= MaxArgs
    BY ArgListFacts
  <2>3. QED
    BY <1>1, <2>1, <2>2, MakeDependentStep
<1>14. ASSUME NEW fs \in ArgLists, NEW rep \in DOMAIN fs, WhenAllSteal(fs, rep)
       PROVE  FutureInv'
  <2>1. fs \in Seq(Headers)
    BY ArgListFacts
  <2>2. QED
    BY <1>1, <1>14, <2>1, WhenAllStealStep
<1>15. QED
  BY <1>1, <1>2, <1>3, <1>4, <1>5, <1>6, <1>7, <1>8, <1>9, <1>10, <1>11, <1>12, <1>13, <1>14 DEF Step

-----------------------------------------------------------------------------
(* The initial state, and what the invariant implies                       *)

\* The heap with the static header alone is whole.
LEMMA InitHeap ==
  ASSUME Init
  PROVE  HeapOK(hdr, user, Nil)
<1>1. hdr = [h \in Headers |-> IF h = Always THEN ResultHeader(Always, -1) ELSE FreeHeader] /\ user = [h \in Headers |-> 0]
  BY DEF Init
<1>2. Always \in Headers /\ Nil \notin Headers
  BY Constants
<1>3. hdr[Always] = ResultHeader(Always, -1) /\ \A h \in Headers \ {Always} : hdr[h] = FreeHeader
  BY <1>1, <1>2
<1>4. ResultHeader(Always, -1) \in HeaderType /\ FreeHeader \in HeaderType
  BY <1>2, HeaderTypes
<1>5. hdr \in [Headers -> HeaderType]
  BY <1>1, <1>4
<1>6. /\ hdr[Always].kind = "result" /\ hdr[Always].status = StatusReady /\ hdr[Always].result = Always
      /\ hdr[Always].body = "none" /\ hdr[Always].deps = <<>> /\ hdr[Always].sucs = <<>>
  BY <1>3, MadeFields
<1>7. \A h \in Headers \ {Always} :
        /\ hdr[h].kind = "free" /\ hdr[h].status = StatusReady /\ hdr[h].result = Nil /\ hdr[h].ref = 0
        /\ hdr[h].body = "none" /\ hdr[h].deps = <<>> /\ hdr[h].sucs = <<>>
  BY <1>3, MadeFields
<1>8. \A h \in Headers : hdr[h].deps = <<>> /\ hdr[h].sucs = <<>> /\ Ready(hdr, h) /\ ~ Unready(hdr, h)
  BY <1>6, <1>7 DEF Ready, Unready
<1>9. \A h : LinksTo(hdr, h) = {} /\ OpenTo(hdr, h) = {}
  <2>1. \A l \in Headers \X (1 .. MaxArgs) : l[1] \in Headers /\ l[2] \notin DOMAIN hdr[l[1]].deps
    BY <1>8
  <2>2. QED
    BY <2>1 DEF LinksTo, OpenTo, Links
<1>10. ASSUME NEW h \in Headers
       PROVE  HeaderOK(hdr, h, Nil)
  <2>1. CASE h = Always
    BY <1>6, <1>8, <2>1 DEF HeaderOK, IsResult, Bodiless
  <2>2. CASE h # Always
    BY <1>3, <1>7, <1>8, <2>2 DEF HeaderOK
  <2>3. QED
    BY <2>1, <2>2
<1>11. ASSUME NEW h \in Headers
       PROVE  SuccessorsOK(hdr, h)
  <2>1. Lists!IsInjective(<<>>) /\ Lists!ToSet(<<>>) = {}
    BY DEF Lists!IsInjective, Lists!ToSet
  <2>2. QED
    BY <1>8, <1>9, <2>1 DEF SuccessorsOK
<1>12. ASSUME NEW h \in Headers \ {Always}
       PROVE  CountOK(hdr, user, Nil, h)
  <2>1. ResultFor(hdr, h) = {}
    BY <1>2, <1>6, <1>7 DEF ResultFor
  <2>2. Cardinality(LinksTo(hdr, h)) = 0 /\ Cardinality(ResultFor(hdr, h)) = 0
    BY <1>9, <2>1, FS_EmptySet
  <2>3. Own(hdr, h, Nil) = 0 /\ user[h] = 0
    BY <1>1, <1>8 DEF Own
  <2>4. hdr[h].ref = 0 /\ ~ Allocated(hdr, h)
    BY <1>7 DEF Allocated
  <2>5. QED
    BY <2>2, <2>3, <2>4 DEF CountOK
<1>13. QED
  BY <1>3, <1>5, <1>10, <1>11, <1>12 DEF HeapOK

\* The invariant holds initially.
LEMMA InitStep ==
  ASSUME Init
  PROVE  FutureInv
<1>1. /\ size \in Sizes /\ active = <<>> /\ running = Nil /\ returning = Nil /\ user = [h \in Headers |-> 0]
      /\ origin = [h \in Headers |-> h] /\ args = [h \in Headers |-> <<>>]
      /\ hdr = [h \in Headers |-> IF h = Always THEN ResultHeader(Always, -1) ELSE FreeHeader]
  BY DEF Init
<1>2. HeapOK(hdr, user, Nil)
  BY InitHeap
<1>3. \A h \in Headers : IF h = Always THEN hdr[h] = ResultHeader(Always, -1) ELSE hdr[h] = FreeHeader
  BY <1>1
<1>4. \A h \in Headers : hdr[h].ref = -1 <=> h = Always
  BY <1>3, MadeFields
<1>5. TypeOK
  <2>1. hdr \in [Headers -> HeaderType]
    BY <1>2 DEF HeapOK
  <2>2. /\ user \in [Headers -> Nat] /\ origin \in [Headers -> Headers] /\ args \in [Headers -> Seq(Headers)]
        /\ active \in Seq(Headers)
    BY <1>1
  <2>3. QED
    BY <1>1, <1>4, <2>1, <2>2 DEF TypeOK
<1>6. \A h \in Headers : ~ Unready(hdr, h) /\ hdr[h].body # "all" /\ (h # Always <=> hdr[h].kind = "free")
  BY <1>3, MadeFields DEF Unready
<1>7. QueueExact
  <2>1. Due(hdr) = {}
    BY <1>6 DEF Due
  <2>2. Lists!IsInjective(active) /\ Lists!ToSet(active) = {}
    BY <1>1 DEF Lists!IsInjective, Lists!ToSet
  <2>3. QED
    BY <2>1, <2>2 DEF QueueExact
<1>8. RunningOK
  BY <1>1 DEF RunningOK
<1>9. RoomKept
  <2>1. Cardinality(Alls(hdr)) = 0
    <3>1. Alls(hdr) = {}
      BY <1>6 DEF Alls
    <3>2. QED
      BY <3>1, FS_EmptySet
  <2>2. Cardinality(IsFree(hdr)) = MaxHeaders
    <3>1. MaxHeaders \in Nat
      BY Constants
    <3>2. IsFree(hdr) = 1 .. MaxHeaders
      BY <1>6, <3>1 DEF IsFree, Headers, Always
    <3>3. Cardinality(1 .. MaxHeaders) = MaxHeaders
      BY <3>1, FS_Interval
    <3>4. QED
      BY <3>2, <3>3
  <2>3. size.headers \in 1 .. MaxHeaders /\ MaxHeaders \in Nat
    BY <1>1, FutureAssumption
  <2>4. QED
    BY <2>1, <2>2, <2>3 DEF RoomKept
<1>10. QED
  BY <1>2, <1>5, <1>7, <1>8, <1>9 DEF FutureInv

\* The invariant implies that the graph is exact.
LEMMA InvGraph ==
  ASSUME FutureInv
  PROVE  GraphExact
<1>1. TypeOK /\ QueueExact /\ HeapOK(hdr, user, Nil)
  BY DEF FutureInv
<1>2. ReferencesExact
  <2>1. ASSUME NEW h \in Headers \ {Always}
        PROVE  /\ hdr[h].ref = user[h] + Cardinality(LinksTo(hdr, h)) + Cardinality(ResultFor(hdr, h))
                               + (IF Unready(hdr, h) THEN 1 ELSE 0)
               /\ Allocated(hdr, h) <=> hdr[h].ref > 0
    <3>1. CountOK(hdr, user, Nil, h) /\ h # Nil
      BY <1>1, HeapHeader, Constants
    <3>2. QED
      BY <3>1 DEF CountOK, Own
  <2>2. QED
    BY <2>1 DEF ReferencesExact
<1>3. LinksExact
  <2>1. ASSUME NEW h \in Headers
        PROVE  /\ Lists!IsInjective(hdr[h].sucs) /\ Lists!ToSet(hdr[h].sucs) = OpenTo(hdr, h)
               /\ Ready(hdr, h) => hdr[h].sucs = <<>>
    <3>1. SuccessorsOK(hdr, h)
      BY <1>1, HeapHeader
    <3>2. QED
      BY <3>1 DEF SuccessorsOK
  <2>2. ASSUME NEW h \in Headers, Unready(hdr, h)
        PROVE  IF hdr[h].body = "proxy"
               THEN /\ Len(hdr[h].deps) = 1
                    /\ hdr[h].status = IF hdr[h].deps[1].linked THEN StatusProxying ELSE StatusProxyingActive
               ELSE hdr[h].status = Cardinality(OpenOf(hdr, h))
    <3>1. BodyOK(hdr, h)
      BY <1>1, <2>2, KindFacts, Constants
    <3>2. QED
      BY <3>1 DEF BodyOK
  <2>3. QED
    BY <2>1, <2>2 DEF LinksExact
<1>4. QED
  BY <1>1, <1>2, <1>3 DEF GraphExact

\* The invariant implies that proxies are flat.
LEMMA InvFlat ==
  ASSUME FutureInv
  PROVE  ProxiesFlat
<1>1. ASSUME NEW h \in Headers, Proxying(hdr, h)
      PROVE  ~ Proxying(hdr, Proxied(hdr, h))
  <2>1. HeapOK(hdr, user, Nil) /\ h # Nil
    BY Constants DEF FutureInv
  <2>2. QED
    BY <1>1, <2>1, ProxiedFacts
<1>2. QED
  BY <1>1 DEF ProxiesFlat

-----------------------------------------------------------------------------
(* Values                                                                  *)

\* What stood for the same result in O does in P, only what stood for h changes, and t stands for
\* the result of h.
Follows(O, P, h, t) ==
  /\ \A x, y \in Headers : O[x] = O[y] => P[x] = P[y]
  /\ \A x \in Headers : O[x] # h => P[x] = O[x]
  /\ P[t] = P[h]

\* A deleted header holds no value.
LEMMA DeadValue ==
  ASSUME NEW K, NEW Y, HeapOK(K, Y, Nil), NEW d \in Headers, K[d].kind = "dead"
  PROVE  (\A P, B : ValueOK(K, P, B, d)) /\ K[d].deps = <<>>
<1>1. K[d].body = "none" /\ K[d].deps = <<>>
  BY KindFacts DEF Allocated
<1>2. QED
  BY <1>1 DEF ValueOK

\* A header that is not being worked on keeps a right value while links to h move to t.
LEMMA ValueKept ==
  ASSUME NEW H, NEW X, HeapOK(H, X, Nil), NEW K, NEW Y, HeapOK(K, Y, Nil),
         NEW O \in [Headers -> Headers], NEW P, NEW A \in [Headers -> Seq(Headers)], NEW B, ValuesOK(H, O, A),
         NEW h \in Headers, NEW t \in Headers, NEW f, NEW S, h \in S, Alters(H, K, S, h, t, f),
         Follows(O, P, h, t), P = O \/ Unready(H, h), NEW d \in Headers \ S, B[d] = A[d]
  PROVE  ValueOK(K, P, B, d)
<1>1. CASE K[d].kind = "dead"
  BY <1>1, DeadValue
<1>2. CASE K[d].kind # "dead"
  <2>1. /\ K[d].kind = H[d].kind /\ K[d].result = H[d].result /\ K[d].body = H[d].body /\ K[d].countdown = H[d].countdown
        /\ H[d].kind # "dependent" => K[d].status = H[d].status
        /\ DOMAIN K[d].deps = DOMAIN H[d].deps /\ Len(K[d].deps) = Len(H[d].deps)
        /\ \A k \in DOMAIN H[d].deps : K[d].deps[k].dep = H[d].deps[k].dep \/ (H[d].deps[k].dep = h /\ K[d].deps[k].dep = t)
    BY <1>2 DEF Alters, Moved
  <2>2. ValueOK(H, O, A, d) /\ d # h /\ H \in Heaps
    BY HeapHeader DEF ValuesOK
  <2>3. DOMAIN H[d].deps = 1 .. Len(H[d].deps) /\ \A k \in DOMAIN H[d].deps : H[d].deps[k].dep \in Headers
    BY <2>2, FieldTypes
  <2>4. ASSUME NEW k \in DOMAIN H[d].deps
        PROVE  P[K[d].deps[k].dep] = P[H[d].deps[k].dep]
    BY <2>1, <2>4 DEF Follows
  <2>5. K[d].kind \in {"free", "promise", "result"} \/ K[d].body \in {"then", "all"} => P[d] = d
    BY <2>1, <2>2 DEF ValueOK, Follows
  <2>6. K[d].kind = "dependent" /\ K[d].body = "none" => K[d].result = P[d]
    <3> SUFFICES ASSUME K[d].kind = "dependent" /\ K[d].body = "none"
                 PROVE  K[d].result = P[d]
      OBVIOUS
    <3>1. H[d].kind = "dependent" /\ H[d].body = "none" /\ H[d].result = O[d]
      BY <2>1, <2>2 DEF ValueOK
    <3>2. d # Nil
      BY Constants
    <3>3. ~ Unready(H, d)
      <4>1. Unready(H, d) => BodyOK(H, d)
        BY <3>2, KindFacts
      <4>2. QED
        BY <3>1, <4>1 DEF BodyOK
    <3>4. HeaderOK(H, d, Nil) /\ Ready(H, d)
      BY <3>1, <3>3, HeapHeader DEF Unready
    <3>5. O[d] \in Headers \ {d} /\ IsResult(H, O[d])
      BY <3>1, <3>4 DEF HeaderOK
    <3>6. Unready(H, h) => O[d] # h
      BY <3>5, KindFacts
    <3>7. QED
      BY <2>1, <3>1, <3>6 DEF Follows
  <2>7. K[d].body = "proxy" => P[Proxied(K, d)] = P[d]
    <3> SUFFICES ASSUME K[d].body = "proxy"
                 PROVE  P[Proxied(K, d)] = P[d]
      OBVIOUS
    <3>1. H[d].body = "proxy" /\ O[Proxied(H, d)] = O[d]
      BY <2>1, <2>2 DEF ValueOK
    <3>2. BodyOK(H, d)
      <4>1. ~ Bodiless(H, d) /\ d # Nil
        BY <3>1, Constants DEF Bodiless
      <4>2. Unready(H, d)
        BY <4>1, KindFacts
      <4>3. QED
        BY <4>1, <4>2, KindFacts
    <3>3. 1 \in DOMAIN H[d].deps /\ Proxied(H, d) \in Headers
      <4>1. Len(H[d].deps) = 1
        BY <3>1, <3>2 DEF BodyOK
      <4>2. 1 \in DOMAIN H[d].deps
        BY <2>3, <4>1
      <4>3. QED
        BY <2>3, <4>2 DEF Proxied
    <3>4. P[Proxied(K, d)] = P[Proxied(H, d)]
      BY <2>4, <3>3 DEF Proxied
    <3>5. QED
      BY <3>1, <3>3, <3>4 DEF Follows
  <2>8. K[d].body \in {"then", "all"} =>
          /\ Len(B[d]) = Len(K[d].deps)
          /\ \A k \in DOMAIN K[d].deps : P[B[d][k]] = P[K[d].deps[k].dep]
    <3> SUFFICES ASSUME K[d].body \in {"then", "all"}
                 PROVE  Len(B[d]) = Len(K[d].deps) /\ \A k \in DOMAIN K[d].deps : P[B[d][k]] = P[K[d].deps[k].dep]
      OBVIOUS
    <3>1. Len(A[d]) = Len(H[d].deps) /\ \A k \in DOMAIN H[d].deps : O[A[d][k]] = O[H[d].deps[k].dep]
      BY <2>1, <2>2 DEF ValueOK
    <3>2. ASSUME NEW k \in DOMAIN H[d].deps
          PROVE  P[A[d][k]] = P[H[d].deps[k].dep]
      <4>1. A[d] \in Seq(Headers) /\ k \in 1 .. Len(A[d])
        BY <2>3, <3>1
      <4>2. A[d][k] \in Headers
        BY <4>1, ElementOfSeq
      <4>3. QED
        BY <2>3, <3>1, <4>2 DEF Follows
    <3>3. QED
      BY <2>1, <2>4, <3>1, <3>2
  <2>9. K[d].kind = "promise" => Ready(K, d) \/ K[d].countdown > 0
    BY <2>1, <2>2 DEF ValueOK, Ready
  <2>10. QED
    BY <2>5, <2>6, <2>7, <2>8, <2>9 DEF ValueOK
<1>3. QED
  BY <1>1, <1>2

\* The parts of the invariant, in the form the steps use.
LEMMA ValuesFacts ==
  ASSUME ValuesInv
  PROVE  /\ FutureInv /\ ValuesOK(hdr, origin, args) /\ Acyclic(hdr) /\ HeapOK(hdr, user, Nil) /\ hdr \in Heaps
         /\ origin \in [Headers -> Headers] /\ args \in [Headers -> Seq(Headers)]
         /\ \A h \in Headers : ValueOK(hdr, origin, args, h)
         /\ \A h \in Headers : IsResult(hdr, h) => origin[h] = h
<1>1. FutureInv /\ ValuesOK(hdr, origin, args) /\ Acyclic(hdr)
  BY DEF ValuesInv
<1>2. HeapOK(hdr, user, Nil) /\ hdr \in Heaps /\ origin \in [Headers -> Headers] /\ args \in [Headers -> Seq(Headers)]
  BY <1>1, InvFacts
<1>3. \A h \in Headers : ValueOK(hdr, origin, args, h)
  BY <1>1 DEF ValuesOK
<1>4. ASSUME NEW h \in Headers, IsResult(hdr, h)
      PROVE  origin[h] = h
  <2>1. hdr[h].kind \in {"promise", "result"}
    BY <1>2, <1>4, KindFacts
  <2>2. QED
    BY <1>3, <2>1 DEF ValueOK
<1>5. QED
  BY <1>1, <1>2, <1>3, <1>4

\* What is to be shown of the next state.
LEMMA ValuesNext ==
  ASSUME ValuesInv, FutureInv', NEW h \in Headers, NEW t \in Headers, NEW f, NEW S, h \in S,
         Alters(hdr, hdr', S, h, t, f), Follows(origin, origin', h, t), origin' = origin \/ Unready(hdr, h),
         \A x \in Headers \ S : args'[x] = args[x],
         \A x \in S \cap Headers : ValueOK(hdr', origin', args', x), Acyclic(hdr')
  PROVE  ValuesInv'
<1>1. HeapOK(hdr', user', Nil)
  BY DEF FutureInv
<1>2. ASSUME NEW d \in Headers \ S
      PROVE  ValueOK(hdr', origin', args', d)
  BY <1>1, ValuesFacts, ValueKept
<1>3. ValuesOK(hdr', origin', args')
  BY <1>2 DEF ValuesOK
<1>4. QED
  BY <1>3 DEF ValuesInv

\* The histories do not change.
LEMMA FollowsSame ==
  ASSUME NEW O, NEW h, NEW t, O[t] = O[h]
  PROVE  Follows(O, O, h, t)
BY DEF Follows

\* Links that are resolved and headers that lose their bodies make no cycle.
LEMMA AcyclicNext ==
  ASSUME ValuesInv, FutureInv', NEW h, NEW t, NEW S, S \subseteq Headers, Alters(hdr, hdr', S, h, t, FALSE),
         \A x \in S : ~ Unready(hdr', x)
  PROVE  Acyclic(hdr')
<1>1. HeapOK(hdr', user', Nil) /\ Acyclic(hdr)
  BY DEF FutureInv, ValuesInv
<1>2. \A x \in Headers : hdr'[x].kind = "dead" \/ x \in S => hdr'[x].deps = <<>>
  BY <1>1, DeadValue, KindFacts DEF Bodiless
<1>3. QED
  BY <1>1, <1>2, AcyclicKept

\* A step that spares every header but h, which has no body afterwards.
LEMMA SparedStep ==
  ASSUME ValuesInv, FutureInv', UNCHANGED <<origin, args>>, NEW h \in Headers, Spares(hdr, hdr', {h}),
         ~ Unready(hdr', h), ValueOK(hdr', origin, args, h)
  PROVE  ValuesInv'
<1>1. Alters(hdr, hdr', {h}, h, h, FALSE)
  BY SparesFacts
<1>2. Acyclic(hdr')
  BY <1>1, AcyclicNext
<1>3. Follows(origin, origin', h, h)
  BY FollowsSame
<1>4. QED
  BY <1>1, <1>2, <1>3, ValuesNext

\* A step that only moves references and deletes headers.
LEMMA ShedStep ==
  ASSUME ValuesInv, FutureInv', UNCHANGED <<origin, args>>, Sheds(hdr, hdr')
  PROVE  ValuesInv'
<1>1. Always \in Headers /\ Spares(hdr, hdr', {Always})
  BY Constants, SparesFacts
<1>2. hdr'[Always] = ResultHeader(Always, -1) /\ hdr[Always].kind = "result"
  <2>1. HeapOK(hdr, user, Nil) /\ HeapOK(hdr', user', Nil)
    BY ValuesFacts DEF FutureInv
  <2>2. QED
    BY <1>1, <2>1, HeapHeader DEF HeapOK
<1>3. hdr'[Always].kind = "result" /\ hdr'[Always].body = "none"
  BY <1>2, MadeFields
<1>4. origin[Always] = Always
  BY <1>1, <1>2, ValuesFacts DEF ValueOK
<1>5. ValueOK(hdr', origin, args, Always) /\ ~ Unready(hdr', Always)
  BY <1>3, <1>4 DEF ValueOK, Unready
<1>6. QED
  BY <1>1, <1>5, SparedStep

\* Copies and deletions of futures.
LEMMA CopyValues ==
  ASSUME ValuesInv, FutureInv', NEW h \in Headers, hdr' = AddRef(hdr, h, 1), UNCHANGED <<origin, args>>
  PROVE  ValuesInv'
<1>1. hdr \in Sketches /\ 1 \in Int
  BY ValuesFacts, HeapsSketches
<1>2. Sheds(hdr, hdr')
  BY <1>1, AddRefSheds
<1>3. QED
  BY <1>2, ShedStep

\* ~future_impl_shref.
LEMMA DropValues ==
  ASSUME ValuesInv, FutureInv', NEW h \in Headers, DropFuture(h)
  PROVE  ValuesInv'
<1>1. Holds(h) /\ hdr' = Drop(hdr, h) /\ UNCHANGED <<origin, args>>
  BY DEF DropFuture
<1>2. HeapOK(hdr, user, Nil) /\ user \in Tallies /\ user[h] >= 1 /\ hdr \in Sketches
  BY <1>1, ValuesFacts, InvFacts, HeapsSketches
<1>3. Ready(hdr, h) => hdr[h].result \in Headers
  BY <1>2, HeldAllocated, ReadyResult
<1>4. Sheds(hdr, hdr')
  BY <1>1, <1>2, <1>3, DropSheds
<1>5. QED
  BY <1>1, <1>4, ShedStep

\* A new promise or result stands for itself.
LEMMA NewValues ==
  ASSUME ValuesInv, FutureInv', Room(1), NEW N, N = PromiseHeader(NewHeader(hdr)) \/ N = ResultHeader(NewHeader(hdr), 1),
         hdr' = [hdr EXCEPT ![NewHeader(hdr)] = N], UNCHANGED <<origin, args>>
  PROVE  ValuesInv'
<1> DEFINE h == NewHeader(hdr)
<1>1. h \in IsFree(hdr)
  <2>1. 1 \in Nat \ {0} /\ FutureInv
    BY ValuesFacts
  <2>2. QED
    BY <2>1, RoomFacts
<1>2. N = PromiseHeader(h) \/ N = ResultHeader(h, 1)
  OBVIOUS
<1> HIDE DEF h
<1>3. h \in Headers /\ hdr[h].kind = "free" /\ hdr \in Heaps
  BY <1>1, ValuesFacts DEF IsFree
<1>4. hdr' = [hdr EXCEPT ![h] = N]
  BY DEF h
<1>5. hdr'[h] = N /\ \A x \in Headers \ {h} : hdr'[x] = hdr[x]
  BY <1>3, <1>4 DEF Heaps
<1>6. N.kind \in {"promise", "result"} /\ N.body = "none" /\ (N.kind = "promise" => N.countdown > 0)
  BY <1>2, MadeFields
<1>7. origin[h] = h
  BY <1>3, ValuesFacts DEF ValueOK
<1>8. ValueOK(hdr', origin, args, h) /\ ~ Unready(hdr', h)
  BY <1>5, <1>6, <1>7 DEF ValueOK, Unready
<1>9. Spares(hdr, hdr', {h})
  BY <1>5, SparesExcept
<1>10. QED
  BY <1>3, <1>8, <1>9, SparedStep

\* promise::require_anonymous.
LEMMA RequireValues ==
  ASSUME ValuesInv, FutureInv', NEW p \in Headers, RequireAnonymous(p)
  PROVE  ValuesInv'
<1> DEFINE c == hdr[p].countdown + 1
<1>1. hdr[p].kind = "promise" /\ hdr' = [hdr EXCEPT ![p].countdown = c] /\ UNCHANGED <<origin, args>>
  BY DEF RequireAnonymous
<1>2. c > 0
  <2>1. hdr[p].countdown \in 0 .. MaxCountdown /\ MaxCountdown \in Nat
    BY ValuesFacts, FieldTypes, Constants
  <2>2. QED
    BY <2>1
<1> HIDE DEF c
<1>3. hdr \in [Headers -> HeaderType] /\ HeapOK(hdr, user, Nil)
  BY ValuesFacts DEF Heaps
<1>4. hdr[p].body = "none"
  <2>1. ~ Unready(hdr, p)
    BY <1>1 DEF Unready
  <2>2. QED
    BY <1>3, <2>1, KindFacts DEF Bodiless
<1>5. hdr'[p].kind = "promise" /\ hdr'[p].body = "none" /\ hdr'[p].countdown = c
  BY <1>1, <1>3, <1>4 DEF HeaderType
<1>6. \A x \in Headers \ {p} : hdr'[x] = hdr[x]
  BY <1>1, <1>3
<1>7. origin[p] = p
  BY <1>1, ValuesFacts DEF ValueOK
<1>8. ValueOK(hdr', origin, args, p) /\ ~ Unready(hdr', p)
  BY <1>2, <1>5, <1>7 DEF ValueOK, Unready
<1>9. Spares(hdr, hdr', {p})
  BY <1>6, SparesExcept
<1>10. QED
  BY <1>1, <1>8, <1>9, SparedStep

\* promise::fulfill_anonymous: a promise that is ready or not stands for itself.
LEMMA FulfillValues ==
  ASSUME ValuesInv, UNCHANGED size, NEW p \in Headers, NEW n \in 1 .. size.countdown, Fulfill(p, n)
  PROVE  ValuesInv'
<1>1. hdr[p].kind = "promise" /\ UNCHANGED <<origin, args>>
  BY DEF Fulfill
<1>2. /\ FutureInv' /\ Alters(hdr, hdr', {p}, p, p, FALSE)
      /\ hdr'[p].kind = "dead" \/ (hdr'[p].kind = "promise" /\ (Ready(hdr', p) \/ hdr'[p].countdown > 0))
  BY ValuesFacts, FulfillStep
<1>3. HeapOK(hdr', user', Nil) /\ ~ Unready(hdr', p)
  BY <1>2 DEF FutureInv, Unready
<1>4. hdr'[p].body = "none"
  BY <1>3, KindFacts DEF Bodiless
<1>5. origin[p] = p
  BY <1>1, ValuesFacts DEF ValueOK
<1>6. ValueOK(hdr', origin', args', p)
  BY <1>1, <1>2, <1>4, <1>5 DEF ValueOK
<1>7. Acyclic(hdr')
  BY <1>2, <1>3, AcyclicNext
<1>8. Follows(origin, origin', p, p)
  BY <1>1, FollowsSame
<1>9. QED
  BY <1>1, <1>2, <1>6, <1>7, <1>8, ValuesNext

\* A header that is deleted takes no value with it.
LEMMA VanishValues ==
  ASSUME ValuesInv, FutureInv', NEW h \in Headers, Vanishes(hdr, hdr', h), origin' = origin,
         \A x \in Headers \ {h} : args'[x] = args[x]
  PROVE  ValuesInv'
<1>1. Alters(hdr, hdr', {h}, h, h, FALSE) /\ hdr'[h].kind = "dead"
  BY DEF Vanishes
<1>2. HeapOK(hdr', user', Nil) /\ ~ Unready(hdr', h)
  BY <1>1 DEF FutureInv, Unready
<1>3. ValueOK(hdr', origin', args', h)
  BY <1>1, <1>2, DeadValue
<1>4. Acyclic(hdr')
  BY <1>1, <1>2, AcyclicNext
<1>5. Follows(origin, origin', h, h)
  BY FollowsSame
<1>6. QED
  BY <1>1, <1>3, <1>4, <1>5, ValuesNext

\* A header that becomes ready has the value of its result.
LEMMA ResolvedValue ==
  ASSUME NEW H, NEW K, NEW Y, HeapOK(K, Y, Nil), NEW S, NEW h \in Headers, NEW r \in Headers \ {h},
         Resolves(H, K, S, h, r), NEW P, P[h] = r, NEW B
  PROVE  ValueOK(K, P, B, h) /\ ~ Unready(K, h)
<1>1. CASE K[h].kind = "dead"
  BY <1>1, DeadValue DEF Unready
<1>2. CASE K[h].kind # "dead"
  <2>1. K[h].result = r /\ K[h].body = "none"
    BY <1>2 DEF Resolves
  <2>2. K[h].kind = "dependent" /\ Ready(K, h)
    BY <2>1, KindFacts
  <2>3. QED
    BY <2>1, <2>2 DEF ValueOK, Unready
<1>3. QED
  BY <1>1, <1>2

\* A header that takes the result r.
LEMMA ResolveValues ==
  ASSUME ValuesInv, FutureInv', NEW h \in Headers, NEW r \in Headers \ {h}, Resolves(hdr, hdr', {h}, h, r),
         Follows(origin, origin', h, r), origin'[h] = r, Unready(hdr, h), \A x \in Headers \ {h} : args'[x] = args[x]
  PROVE  ValuesInv'
<1>1. HeapOK(hdr', user', Nil)
  BY DEF FutureInv
<1>2. ValueOK(hdr', origin', args', h) /\ ~ Unready(hdr', h)
  BY <1>1, ResolvedValue
<1>3. Alters(hdr, hdr', {h}, h, r, FALSE)
  BY DEF Resolves
<1>4. Acyclic(hdr')
  BY <1>2, <1>3, AcyclicNext
<1>5. QED
  BY <1>2, <1>3, <1>4, ValuesNext

\* future_body_proxy::leave_active: the proxy takes the result it stood for.
LEMMA ProxyValues ==
  ASSUME ValuesInv, UNCHANGED size, NEW h, LeaveActiveProxy(h)
  PROVE  ValuesInv'
<1> DEFINE r == Proxied(hdr, h)
<1>1. Popped(h) /\ hdr[h].body = "proxy" /\ UNCHANGED <<origin, args>>
  BY DEF LeaveActiveProxy
<1>2. /\ FutureInv' /\ FutureInv
      /\ Vanishes(hdr, hdr', h) \/ (r \in Headers /\ IsResult(hdr, r) /\ Resolves(hdr, hdr', {h}, h, r))
  BY ValuesFacts, LeaveActiveProxyStep
<1>3. h \in Headers /\ Unready(hdr, h)
  <2>1. h \in Due(hdr) /\ HeapOK(hdr, user, Nil)
    BY <1>1, <1>2, PoppedFacts, InvFacts
  <2>2. QED
    BY <2>1, DueFacts
<1>4. CASE Vanishes(hdr, hdr', h)
  BY <1>1, <1>2, <1>3, <1>4, VanishValues
<1>5. CASE r \in Headers /\ IsResult(hdr, r) /\ Resolves(hdr, hdr', {h}, h, r)
  <2>1. origin[r] = r /\ origin[r] = origin[h]
    BY <1>1, <1>3, <1>5, ValuesFacts DEF ValueOK
  <2>2. r # h
    BY <1>3, <1>5, ValuesFacts, KindFacts
  <2>3. Follows(origin, origin', h, r) /\ origin'[h] = r
    BY <1>1, <2>1, FollowsSame
  <2> HIDE DEF r
  <2>4. QED
    BY <1>1, <1>2, <1>3, <1>5, <2>2, <2>3, ResolveValues
<1>6. QED
  BY <1>2, <1>4, <1>5

\* What stood for h stands for what r stands for.
LEMMA StandForFollows ==
  ASSUME origin \in [Headers -> Headers], NEW h \in Headers, origin[h] = h, NEW r \in Headers, NEW t \in Headers,
         origin[t] = origin[r]
  PROVE  Follows(origin, StandFor(h, r), h, t) /\ StandFor(h, r)[h] = origin[r]
<1> DEFINE P == StandFor(h, r)
<1>1. \A x \in Headers : P[x] = IF origin[x] = h THEN origin[r] ELSE origin[x]
  BY DEF StandFor
<1> HIDE DEF P
<1>2. P[h] = origin[r] /\ P[t] = origin[r]
  BY <1>1
<1>3. QED
  BY <1>1, <1>2 DEF Follows, P

\* future_body_identity::leave_active: the when_all stands for the result it made.
LEMMA AllValues ==
  ASSUME ValuesInv, UNCHANGED size, NEW h, LeaveActiveAll(h)
  PROVE  ValuesInv'
<1> DEFINE r == NewHeader(hdr)
<1>1. /\ Popped(h) /\ hdr[h].body = "all" /\ args' = [args EXCEPT ![h] = <<>>]
      /\ IF hdr[h].ref = 1 THEN origin' = origin ELSE origin' = StandFor(h, r)
  BY DEF LeaveActiveAll
<1>2. /\ FutureInv' /\ FutureInv
      /\ IF hdr[h].ref = 1 THEN Vanishes(hdr, hdr', h)
         ELSE r \in IsFree(hdr) /\ Resolves(hdr, hdr', {h, r}, h, r) /\ hdr'[r].kind \in {"dead", "result"}
  BY ValuesFacts, LeaveActiveAllStep
<1>3. h \in Headers /\ Unready(hdr, h)
  <2>1. h \in Due(hdr) /\ HeapOK(hdr, user, Nil)
    BY <1>1, <1>2, PoppedFacts, InvFacts
  <2>2. QED
    BY <2>1, DueFacts
<1>4. \A x \in Headers \ {h} : args'[x] = args[x]
  BY <1>1, ValuesFacts
<1> HIDE DEF r
<1>5. CASE hdr[h].ref = 1
  BY <1>1, <1>2, <1>3, <1>4, <1>5, VanishValues
<1>6. CASE hdr[h].ref # 1
  <2>1. /\ r \in IsFree(hdr) /\ Resolves(hdr, hdr', {h, r}, h, r) /\ hdr'[r].kind \in {"dead", "result"}
        /\ origin' = StandFor(h, r)
    BY <1>1, <1>2, <1>6
  <2>2. r \in Headers /\ r # h /\ hdr[r].kind = "free"
    BY <1>3, <2>1 DEF IsFree, Unready
  <2>3. origin[h] = h /\ origin[r] = r /\ origin \in [Headers -> Headers]
    BY <1>1, <1>3, <2>2, ValuesFacts DEF ValueOK
  <2>4. Follows(origin, origin', h, r) /\ origin'[h] = r
    BY <1>3, <2>1, <2>2, <2>3, StandForFollows
  <2>5. origin'[r] = r
    BY <2>2, <2>3, <2>4 DEF Follows
  <2>6. HeapOK(hdr', user', Nil) /\ ~ Unready(hdr', r)
    BY <1>2, <2>1 DEF FutureInv, Unready
  <2>7. ValueOK(hdr', origin', args', r)
    <3>1. hdr'[r].body = "none"
      BY <2>2, <2>6, KindFacts DEF Bodiless
    <3>2. QED
      BY <2>1, <2>5, <3>1 DEF ValueOK
  <2>8. ValueOK(hdr', origin', args', h) /\ ~ Unready(hdr', h)
    BY <1>3, <2>1, <2>2, <2>4, <2>6, ResolvedValue
  <2>9. Alters(hdr, hdr', {h, r}, h, r, FALSE)
    BY <2>1 DEF Resolves
  <2>10. Acyclic(hdr')
    BY <1>2, <1>3, <2>2, <2>6, <2>8, <2>9, AcyclicNext
  <2>11. \A x \in {h, r} \cap Headers : ValueOK(hdr', origin', args', x)
    BY <2>7, <2>8
  <2>12. \A x \in Headers \ {h, r} : args'[x] = args[x]
    BY <1>4
  <2>13. QED
    BY <1>2, <1>3, <2>2, <2>4, <2>9, <2>10, <2>11, <2>12, ValuesNext
<1>7. QED
  BY <1>5, <1>6

\* Calling a callback.
LEMMA BeginValues ==
  ASSUME ValuesInv, FutureInv', UNCHANGED <<hdr, origin, args>>
  PROVE  ValuesInv'
<1>1. Sheds(hdr, hdr')
  BY ShedsFacts
<1>2. QED
  BY <1>1, ShedStep

\* A dependency is a link: its place is within the bound.
LEMMA DepLink ==
  ASSUME NEW H, NEW X, HeapOK(H, X, Nil), NEW d \in Headers, NEW k \in DOMAIN H[d].deps
  PROVE  <<d, k>> \in LinksTo(H, H[d].deps[k].dep) /\ (H[d].deps[k].linked => <<d, k>> \in OpenTo(H, H[d].deps[k].dep))
<1>1. H \in Heaps /\ d # Nil /\ MaxArgs \in Nat
  BY HeapHeader, Constants
<1>2. ~ Bodiless(H, d)
  <2>1. H[d].deps # <<>>
    OBVIOUS
  <2>2. QED
    BY <2>1 DEF Bodiless
<1>3. Unready(H, d)
  BY <1>2, KindFacts
<1>4. Len(H[d].deps) <= MaxArgs
  BY <1>1, <1>3, KindFacts DEF BodyOK
<1>5. k \in 1 .. Len(H[d].deps) /\ Len(H[d].deps) \in Nat
  BY <1>1, FieldTypes
<1>6. k \in 1 .. MaxArgs
  BY <1>1, <1>4, <1>5
<1>7. <<d, k>> \in Links(H)
  BY <1>6 DEF Links
<1>8. QED
  BY <1>7 DEF LinksTo, OpenTo, LinkAt

\* The header that is proxied stands for what its proxy stands for.
LEMMA TargetOrigin ==
  ASSUME ValuesInv, NEW r \in Headers
  PROVE  origin[Target(hdr, r)] = origin[r]
<1>1. CASE Proxying(hdr, r)
  <2>1. r # Nil /\ HeapOK(hdr, user, Nil)
    BY ValuesFacts, Constants
  <2>2. hdr[r].body = "proxy"
    BY <1>1, <2>1, ProxyBody DEF IsProxy
  <2>3. QED
    BY <1>1, <2>2, ValuesFacts DEF Target, ValueOK
<1>2. CASE ~ Proxying(hdr, r)
  BY <1>2 DEF Target
<1>3. QED
  BY <1>1, <1>2

\* The result that a header holds is the one it stands for.
LEMMA ResultOrigin ==
  ASSUME ValuesInv, NEW b \in Headers, hdr[b].result \in Headers
  PROVE  hdr[b].result = origin[b] /\ origin[hdr[b].result] = origin[b] /\ (Ready(hdr, b) => IsResult(hdr, hdr[b].result))
<1> DEFINE c == hdr[b].result
<1>1. HeapOK(hdr, user, Nil) /\ HeaderOK(hdr, b, Nil) /\ hdr \in Heaps /\ ValueOK(hdr, origin, args, b)
  BY ValuesFacts, HeapHeader
<1>2. CASE c = b
  <2>1. hdr[b].kind \in {"free", "dead", "promise", "result", "dependent"}
    BY <1>1, FieldTypes
  <2>2. hdr[b].kind \in {"promise", "result"}
    BY <1>1, <1>2, <2>1, MadeFields, Constants DEF HeaderOK, Unready
  <2>3. origin[b] = b
    BY <1>1, <2>2 DEF ValueOK
  <2>4. QED
    BY <1>2, <2>3 DEF IsResult
<1>3. CASE c # b
  <2>1. hdr[b].kind = "dependent" /\ Ready(hdr, b) /\ IsResult(hdr, c)
    BY <1>1, <1>3, KindFacts
  <2>2. hdr[b].body = "none"
    BY <1>1, <2>1 DEF HeaderOK, Bodiless
  <2>3. c = origin[b]
    BY <1>1, <2>1, <2>2 DEF ValueOK
  <2>4. origin[c] = c
    BY <2>1, ValuesFacts
  <2>5. QED
    BY <2>1, <2>3, <2>4
<1>4. QED
  BY <1>2, <1>3

\* What r stands for is r or something that r waits for, unless it is ready.
LEMMA TargetUpstream ==
  ASSUME FutureInv, NEW r \in Headers, ~ Ready(hdr, Target(hdr, r))
  PROVE  Target(hdr, r) \in Upstream(r)
<1>1. r \in Upstream(r) /\ WaitsOn(r) \subseteq Upstream(r)
  BY UpstreamFacts
<1>2. CASE Proxying(hdr, r)
  <2>1. HeapOK(hdr, user, Nil) /\ hdr \in Heaps /\ r # Nil
    BY InvFacts, Constants
  <2>2. Target(hdr, r) = Proxied(hdr, r)
    BY <1>2 DEF Target
  <2>3. Unready(hdr, r) /\ BodyOK(hdr, r) /\ Len(hdr[r].deps) = 1
    BY <1>2, <2>1, ProxyBody, KindFacts DEF IsProxy
  <2>4. 1 \in DOMAIN hdr[r].deps
    <3>1. DOMAIN hdr[r].deps = 1 .. Len(hdr[r].deps)
      BY <2>1, FieldTypes
    <3>2. QED
      BY <2>3, <3>1
  <2>5. hdr[r].deps[1].linked
    BY <2>2, <2>3, <2>4 DEF BodyOK, IsResult, Proxied
  <2>6. Proxied(hdr, r) \in WaitsOn(r)
    BY <2>4, <2>5 DEF WaitsOn, Proxied
  <2>7. QED
    BY <1>1, <2>2, <2>6
<1>3. CASE ~ Proxying(hdr, r)
  BY <1>1, <1>3 DEF Target
<1>4. QED
  BY <1>2, <1>3

\* The return of a callback: its header stands for the future it returned.
LEMMA ReturnValues ==
  ASSUME ValuesInv, UNCHANGED size, NEW r \in Headers, NEW move \in BOOLEAN, CallbackReturn(r, move)
  PROVE  ValuesInv'
<1> DEFINE h == running
           b == Target(hdr, r)
<1>1. /\ running # Nil /\ running \notin Upstream(r) /\ args' = [args EXCEPT ![h] = <<>>]
      /\ IF hdr[h].ref = 1 THEN origin' = origin ELSE origin' = StandFor(h, r)
  BY DEF CallbackReturn
<1>2. FutureInv' /\ FutureInv /\ IF hdr[h].ref = 1 THEN Vanishes(hdr, hdr', h) ELSE Returns(r)
  BY ValuesFacts, CallbackReturnStep
<1>3. h \in Headers /\ Unready(hdr, h) /\ hdr[h].body = "then"
  BY <1>1, <1>2, InvFacts DEF RunningOK
<1>4. \A x \in Headers \ {h} : args'[x] = args[x]
  BY <1>1, ValuesFacts
<1>5. CASE hdr[h].ref = 1
  BY <1>1, <1>2, <1>3, <1>4, <1>5, VanishValues
<1>6. CASE hdr[h].ref # 1
  <2>1. /\ b \in Headers \ {h} /\ origin' = StandFor(h, r)
        /\ IF Ready(hdr, b)
           THEN hdr[b].result \in Headers /\ Resolves(hdr, hdr', {h}, h, hdr[b].result)
           ELSE Redirects(hdr, hdr', h, b)
    BY <1>1, <1>2, <1>6 DEF Returns
  <2>2. origin[h] = h /\ origin \in [Headers -> Headers] /\ origin[b] = origin[r]
    BY <1>3, ValuesFacts, TargetOrigin DEF ValueOK
  <2>3. CASE Ready(hdr, b)
    <3> DEFINE c == hdr[b].result
    <3>1. c \in Headers /\ Resolves(hdr, hdr', {h}, h, c)
      BY <2>1, <2>3
    <3>2. c = origin[b] /\ origin[c] = origin[b] /\ IsResult(hdr, c)
      BY <2>1, <2>3, <3>1, ResultOrigin
    <3>3. c # h
      BY <1>3, <3>2, ValuesFacts, KindFacts
    <3> HIDE DEF c
    <3>4. Follows(origin, origin', h, c) /\ origin'[h] = c
      BY <1>3, <2>1, <2>2, <3>1, <3>2, StandForFollows
    <3>5. QED
      BY <1>2, <1>3, <1>4, <3>1, <3>3, <3>4, ResolveValues
  <2>4. CASE ~ Ready(hdr, b)
    <3>1. /\ Alters(hdr, hdr', {h}, h, b, TRUE) /\ hdr'[h].body = "proxy"
          /\ hdr'[h].deps = <<[dep |-> b, linked |-> TRUE]>>
      BY <2>1, <2>4 DEF Redirects
    <3>2. Follows(origin, origin', h, b)
      BY <1>3, <2>1, <2>2, StandForFollows
    <3>3. HeapOK(hdr', user', Nil)
      BY <1>2 DEF FutureInv
    <3>4. ValueOK(hdr', origin', args', h)
      <4>1. hdr'[h].kind = "dependent"
        <5>1. ~ Bodiless(hdr', h)
          BY <3>1 DEF Bodiless
        <5>2. Unready(hdr', h)
          BY <1>3, <3>3, <5>1, KindFacts
        <5>3. QED
          BY <5>2 DEF Unready
      <4>2. Proxied(hdr', h) = b
        BY <3>1 DEF Proxied
      <4>3. QED
        BY <3>1, <3>2, <4>1, <4>2 DEF ValueOK, Follows
    <3>5. b \in Upstream(r)
      BY <2>4, TargetUpstream, ValuesFacts
    <3>6. Acyclic(hdr')
      <4>1. \A d \in Headers : hdr'[d].kind = "dead" => hdr'[d].deps = <<>>
        BY <3>3, DeadValue
      <4>2. Upstream(r) \subseteq Headers /\ \A x \in Upstream(r) : WaitsOn(x) \subseteq Upstream(r)
        BY ValuesFacts, UpstreamClosed
      <4>3. \A d \in Upstream(r) : \A k \in DOMAIN hdr[d].deps : hdr[d].deps[k].linked => hdr[d].deps[k].dep \in Upstream(r)
        BY <4>2 DEF WaitsOn
      <4>4. Acyclic(hdr)
        BY ValuesFacts
      <4> HIDE DEF b
      <4>5. QED
        BY <1>1, <1>3, <2>1, <3>1, <3>5, <4>1, <4>3, <4>4, AcyclicProxy
    <3>7. QED
      BY <1>2, <1>3, <1>4, <2>1, <3>1, <3>2, <3>4, <3>6, ValuesNext
  <2>5. QED
    BY <2>3, <2>4
<1>7. QED
  BY <1>5, <1>6

\* Copying or moving the arguments of a dependent.
LEMMA TakeSheds ==
  ASSUME hdr \in Heaps, NEW fs \in Seq(Headers), \A x \in Headers : Cardinality(Uses(fs, 0, x)) \in Nat, NEW move \in BOOLEAN
  PROVE  Sheds(hdr, TakeArgs(fs, move))
<1> DEFINE uses(x) == Cardinality({k \in DOMAIN fs : fs[k] = x})
           J == [x \in Headers |-> AddRef(hdr, x, uses(x))[x]]
<1>1. TakeArgs(fs, move) = IF move THEN hdr ELSE J
  BY DEF TakeArgs
<1>2. \A x \in Headers : uses(x) \in Int
  <2>1. DOMAIN fs = 1 .. Len(fs) /\ 0 + 1 = 1
    BY LenProperties
  <2>2. \A x : uses(x) = Cardinality(Uses(fs, 0, x))
    BY <2>1 DEF Uses
  <2>3. QED
    BY <2>2
<1> HIDE DEF uses
<1>3. ASSUME NEW x \in Headers
      PROVE  Alike(J[x], hdr[x]) /\ J[x].countdown = hdr[x].countdown
  <2>1. uses(x) \in Int /\ hdr \in Sketches
    BY <1>2, HeapsSketches
  <2>2. Alike(AddRef(hdr, x, uses(x))[x], hdr[x]) /\ AddRef(hdr, x, uses(x))[x].countdown = hdr[x].countdown
    BY <2>1, AddRefSheds
  <2>3. QED
    BY <2>2
<1> HIDE DEF J
<1>4. Sheds(hdr, J) /\ Sheds(hdr, hdr)
  BY <1>3, ShedsFacts DEF Sheds
<1>5. QED
  BY <1>1, <1>4

\* Headers and what they proxy or hold stand for the same results.
LEMMA ValuesStand ==
  ASSUME ValuesInv
  PROVE  Stands(hdr, origin)
<1>1. ASSUME NEW x \in Headers
      PROVE  /\ hdr[x].body = "proxy" => origin[Proxied(hdr, x)] = origin[x]
             /\ hdr[x].result \in Headers => origin[hdr[x].result] = origin[x]
  BY ValuesFacts, ResultOrigin DEF ValueOK
<1>2. QED
  BY <1>1 DEF Stands

\* A new dependent waits for headers that stand for its arguments, and nothing waits for it.
LEMMA MakeValues ==
  ASSUME ValuesInv, UNCHANGED size, NEW body \in {"then", "all"}, NEW fs \in Seq(Headers), Len(fs) <= MaxArgs,
         NEW move \in BOOLEAN, MakeDependent(body, fs, move)
  PROVE  ValuesInv'
<1> DEFINE h == NewHeader(hdr)
           J == TakeArgs(fs, move)
           K == [J EXCEPT ![h] = DependentHeader(body)]
<1>1. hdr' = LinkAll(K, h, fs) /\ args' = [args EXCEPT ![h] = fs] /\ origin' = origin
      /\ (\A k \in DOMAIN fs : Holds(fs[k])) /\ (move => Len(fs) = 1)
  BY DEF MakeDependent
<1>2. FutureInv /\ FutureInv' /\ h \in IsFree(hdr) /\ Founded(J, K, user', h, body, fs)
  BY ValuesFacts, MakeDependentStep
<1>3. Sheds(hdr, J)
  <2>1. \A x \in Headers : Cardinality(Uses(fs, 0, x)) \in Nat
    BY <1>1, <1>2, KeptFacts
  <2>2. QED
    BY <2>1, ValuesFacts, TakeSheds
<1> HIDE DEF h, J, K
<1>4. /\ HeapOK(K, Owed(user', fs, 0), Nil) /\ Building(K, Owed(user', fs, 0), h, 0) /\ K[h].body = body
      /\ h \in Headers /\ (\A x \in Headers \ {h} : K[x] = J[x]) /\ \A j \in DOMAIN fs : fs[j] # h
  BY <1>2 DEF Founded
<1>5. Spares(hdr, K, {h})
  <2>1. Spares(J, K, {h})
    BY <1>4, SparesExcept
  <2>2. QED
    BY <1>3, <2>1, SparesFacts
<1>6. Unready(K, h) /\ Len(K[h].deps) = 0 /\ K[h].body \in {"then", "all"}
  BY <1>4 DEF Building
<1>7. Stands(K, origin)
  BY <1>4, <1>5, <1>6, ValuesStand, StandsKept
<1>8. user' \in Tallies /\ (\A x \in Headers \ {Always} : user'[x] >= 0) /\ HeapOK(hdr', user', Nil)
  <2>1. user' \in [Headers -> Nat] /\ HeapOK(hdr', user', Nil)
    BY <1>2 DEF FutureInv, TypeOK
  <2>2. QED
    BY <2>1 DEF Tallies
<1>9. /\ Spares(K, hdr', {h})
      /\ \A j \in 1 .. Len(fs) : j \in DOMAIN hdr'[h].deps /\ origin[hdr'[h].deps[j].dep] = origin[fs[j]]
  <2>1. Spares(K, LinkAll(K, h, fs), {h}) /\ WiredTo(LinkAll(K, h, fs), h, fs, origin)
    BY <1>4, <1>7, <1>8, LinkAllWires
  <2>2. QED
    BY <1>1, <2>1 DEF WiredTo
<1>10. Building(hdr', user', h, Len(fs)) /\ hdr'[h].body = body
  BY <1>1, <1>4, <1>8, LinkAllOK
<1>11. Unready(hdr', h) /\ Len(hdr'[h].deps) = Len(fs) /\ DOMAIN hdr'[h].deps = 1 .. Len(fs)
  <2>1. Unready(hdr', h) /\ Len(hdr'[h].deps) = Len(fs)
    BY <1>10 DEF Building
  <2>2. QED
    BY <1>4, <1>8, <2>1, HeapHeader, FieldTypes
<1>12. ValueOK(hdr', origin', args', h)
  <2>1. origin[h] = h /\ args'[h] = fs
    BY <1>1, <1>2, <1>4, ValuesFacts DEF ValueOK, IsFree
  <2>2. hdr'[h].kind = "dependent"
    BY <1>11 DEF Unready
  <2>3. QED
    BY <1>1, <1>9, <1>10, <1>11, <2>1, <2>2 DEF ValueOK
<1>13. Acyclic(K)
  <2>1. K[h].deps = <<>>
    <3>1. K[h].deps \in Seq([dep : Headers, linked : BOOLEAN])
      BY <1>4, HeapHeader, FieldTypes
    <3>2. QED
      BY <1>6, <3>1, EmptySeq
  <2>2. \A d \in Headers : K[d].kind = "dead" \/ d \in {h} => K[d].deps = <<>>
    BY <1>4, <2>1, DeadValue
  <2>3. Alters(hdr, K, {h}, h, h, FALSE) /\ Acyclic(hdr)
    BY <1>5, SparesFacts, ValuesFacts
  <2>4. QED
    BY <2>2, <2>3, AcyclicKept
<1>14. Acyclic(hdr')
  <2>1. Owed(user', fs, 0) \in Tallies
    <3>1. \A x \in Headers : Cardinality(Uses(fs, 0, x)) \in Nat /\ user'[x] \in Int
      BY <1>1, <1>2, <1>8, KeptFacts DEF Tallies
    <3>2. QED
      BY <3>1 DEF Owed, Tallies
  <2>2. LinksTo(K, h) = {} /\ LinksTo(hdr', h) = {}
    BY <1>4, <1>8, <1>10, <2>1, BuildingFacts
  <2>3. \A d \in Headers : \A k \in DOMAIN K[d].deps : K[d].deps[k].dep # h
    BY <1>4, <2>2, DepLink
  <2>4. \A k \in DOMAIN hdr'[h].deps : hdr'[h].deps[k].dep # h
    BY <1>4, <1>8, <2>2, DepLink
  <2>5. \A d \in Headers : hdr'[d].kind = "dead" => hdr'[d].deps = <<>>
    BY <1>8, DeadValue
  <2>6. QED
    BY <1>4, <1>9, <1>13, <2>3, <2>4, <2>5, AcyclicNew
<1>15. Alters(hdr, hdr', {h}, h, h, FALSE)
  BY <1>5, <1>9, SparesFacts
<1>16. Follows(origin, origin', h, h)
  BY <1>1, FollowsSame
<1>17. \A x \in Headers \ {h} : args'[x] = args[x]
  BY <1>1, <1>4, ValuesFacts
<1>18. QED
  BY <1>1, <1>2, <1>4, <1>12, <1>14, <1>15, <1>16, <1>17, ValuesNext

\* Every step keeps values right.
LEMMA NextValues ==
  ASSUME ValuesInv, Next
  PROVE  ValuesInv'
<1>1. Step /\ UNCHANGED size /\ FutureInv /\ FutureInv'
  BY ValuesFacts, NextStep DEF Next
<1>2. CASE NewPromise
  <2> DEFINE N == PromiseHeader(NewHeader(hdr))
  <2>1. Room(1) /\ hdr' = [hdr EXCEPT ![NewHeader(hdr)] = N] /\ UNCHANGED <<origin, args>>
    BY <1>2 DEF NewPromise
  <2>2. N = PromiseHeader(NewHeader(hdr))
    OBVIOUS
  <2> HIDE DEF N
  <2>3. QED
    BY <1>1, <2>1, <2>2, NewValues
<1>3. CASE MakeFuture
  <2> DEFINE N == ResultHeader(NewHeader(hdr), 1)
  <2>1. Room(1) /\ hdr' = [hdr EXCEPT ![NewHeader(hdr)] = N] /\ UNCHANGED <<origin, args>>
    BY <1>3 DEF MakeFuture
  <2>2. N = ResultHeader(NewHeader(hdr), 1)
    OBVIOUS
  <2> HIDE DEF N
  <2>3. QED
    BY <1>1, <2>1, <2>2, NewValues
<1>4. ASSUME NEW h \in Headers, CopyFuture(h)
      PROVE  ValuesInv'
  <2>1. hdr' = AddRef(hdr, h, 1) /\ UNCHANGED <<origin, args>>
    BY <1>4 DEF CopyFuture
  <2>2. QED
    BY <1>1, <2>1, CopyValues
<1>5. ASSUME NEW h \in Headers, DropFuture(h)
      PROVE  ValuesInv'
  BY <1>1, <1>5, DropValues
<1>6. ASSUME NEW h \in Headers, RequireAnonymous(h)
      PROVE  ValuesInv'
  BY <1>1, <1>6, RequireValues
<1>7. ASSUME NEW h \in Headers, NEW n \in 1 .. size.countdown, Fulfill(h, n)
      PROVE  ValuesInv'
  BY <1>1, <1>7, FulfillValues
<1>8. ASSUME NEW h \in Headers, LeaveActiveProxy(h)
      PROVE  ValuesInv'
  BY <1>1, <1>8, ProxyValues
<1>9. ASSUME NEW h \in Headers, LeaveActiveAll(h)
      PROVE  ValuesInv'
  BY <1>1, <1>9, AllValues
<1>10. ASSUME NEW h \in Headers, CallbackBegin(h)
       PROVE  ValuesInv'
  <2>1. UNCHANGED <<hdr, origin, args>>
    BY <1>10 DEF CallbackBegin
  <2>2. QED
    BY <1>1, <2>1, BeginValues
<1>11. ASSUME NEW h \in Headers, NEW move \in BOOLEAN, CallbackReturn(h, move)
       PROVE  ValuesInv'
  BY <1>1, <1>11, ReturnValues
<1>12. ASSUME NEW fs \in ArgLists, NEW move \in BOOLEAN, Then(fs, move)
       PROVE  ValuesInv'
  <2>1. MakeDependent("then", fs, move)
    BY <1>12 DEF Then
  <2>2. fs \in Seq(Headers) /\ Len(fs) <= MaxArgs
    BY <1>1, ArgListFacts
  <2>3. QED
    BY <1>1, <2>1, <2>2, MakeValues
<1>13. ASSUME NEW fs \in ArgLists, WhenAll(fs)
       PROVE  ValuesInv'
  <2>1. MakeDependent("all", fs, FALSE)
    BY <1>13 DEF WhenAll
  <2>2. fs \in Seq(Headers) /\ Len(fs) <= MaxArgs
    BY <1>1, ArgListFacts
  <2>3. QED
    BY <1>1, <2>1, <2>2, MakeValues
<1>14. ASSUME NEW fs \in ArgLists, NEW rep \in DOMAIN fs, WhenAllSteal(fs, rep)
       PROVE  ValuesInv'
  <2>1. hdr' = AddRef(hdr, fs[rep], 1) /\ UNCHANGED <<origin, args>>
    BY <1>14 DEF WhenAllSteal
  <2>2. fs[rep] \in Headers
    <3>1. fs \in Seq(Headers) /\ DOMAIN fs = 1 .. Len(fs)
      BY <1>1, ArgListFacts
    <3>2. QED
      BY <3>1, ElementOfSeq
  <2>3. QED
    BY <1>1, <2>1, <2>2, CopyValues
<1>15. QED
  BY <1>1, <1>2, <1>3, <1>4, <1>5, <1>6, <1>7, <1>8, <1>9, <1>10, <1>11, <1>12, <1>13, <1>14 DEF Step

\* Values are right initially, and nothing waits.
LEMMA InitValues ==
  ASSUME Init
  PROVE  ValuesInv
<1>1. FutureInv /\ HeapOK(hdr, user, Nil)
  BY InitStep, InitHeap
<1>2. /\ hdr = [h \in Headers |-> IF h = Always THEN ResultHeader(Always, -1) ELSE FreeHeader]
      /\ origin = [h \in Headers |-> h]
  BY DEF Init
<1>3. \A h \in Headers : hdr[h] = ResultHeader(Always, -1) \/ hdr[h] = FreeHeader
  BY <1>2
<1>4. \A h \in Headers : hdr[h].kind \in {"result", "free"} /\ hdr[h].body = "none" /\ hdr[h].deps = <<>>
  BY <1>3, MadeFields
<1>5. ValuesOK(hdr, origin, args)
  BY <1>2, <1>4 DEF ValuesOK, ValueOK
<1>6. Acyclic(hdr)
  BY <1>4 DEF Acyclic, WaitsInto
<1>7. QED
  BY <1>1, <1>5, <1>6 DEF ValuesInv

\* A dependent that is not due has an open link.
LEMMA WaitsForSome ==
  ASSUME NEW H, NEW X, HeapOK(H, X, Nil), NEW x \in Headers, Unready(H, x), x \notin Due(H)
  PROVE  \E k \in DOMAIN H[x].deps : H[x].deps[k].linked
<1>1. BodyOK(H, x) /\ x # Nil /\ H \in Heaps
  BY Constants, KindFacts, HeapHeader
<1>2. H[x].status # StatusActive /\ H[x].status # StatusProxyingActive
  BY DEF Due
<1>3. CASE H[x].body = "proxy"
  <2>1. Len(H[x].deps) = 1 /\ H[x].deps[1].linked
    BY <1>1, <1>2, <1>3 DEF BodyOK
  <2>2. DOMAIN H[x].deps = 1 .. Len(H[x].deps)
    BY <1>1, FieldTypes
  <2>3. 1 \in DOMAIN H[x].deps
    BY <2>1, <2>2
  <2>4. QED
    BY <2>1, <2>3
<1>4. CASE H[x].body # "proxy"
  <2>1. H[x].status = Cardinality(OpenOf(H, x))
    BY <1>1, <1>4 DEF BodyOK
  <2>2. OpenOf(H, x) # {}
    BY <1>2, <2>1, FS_EmptySet DEF StatusActive
  <2>3. QED
    BY <2>2 DEF OpenOf
<1>5. QED
  BY <1>3, <1>4

\* Values are right: what is ready and what is due sees the results it stands for.
LEMMA InvFaithful ==
  ASSUME ValuesInv
  PROVE  ValuesFaithful
<1> SUFFICES ASSUME NEW h \in Headers, hdr[h].kind = "dependent"
             PROVE  /\ Ready(hdr, h) => hdr[h].result = origin[h]
                    /\ hdr[h].body \in {"then", "all"} /\ hdr[h].status = StatusActive =>
                         \A k \in DOMAIN args[h] :
                           LET d == hdr[h].deps[k].dep
                           IN  d = origin[args[h][k]] /\ Ready(hdr, d) /\ hdr[d].result = d
  BY DEF ValuesFaithful
<1>1. HeapOK(hdr, user, Nil) /\ hdr \in Heaps /\ ValueOK(hdr, origin, args, h) /\ args[h] \in Seq(Headers)
  BY ValuesFacts
<1>2. ASSUME Ready(hdr, h)
      PROVE  hdr[h].result = origin[h]
  <2>1. hdr[h].body = "none"
    BY <1>1, <1>2, HeapHeader DEF HeaderOK, Bodiless
  <2>2. QED
    BY <1>1, <2>1 DEF ValueOK
<1>3. ASSUME hdr[h].body \in {"then", "all"}, hdr[h].status = StatusActive, NEW k \in DOMAIN args[h]
      PROVE  LET d == hdr[h].deps[k].dep
             IN  d = origin[args[h][k]] /\ Ready(hdr, d) /\ hdr[d].result = d
  <2> DEFINE d == hdr[h].deps[k].dep
  <2>1. Len(args[h]) = Len(hdr[h].deps) /\ \A j \in DOMAIN hdr[h].deps : origin[args[h][j]] = origin[hdr[h].deps[j].dep]
    BY <1>1, <1>3 DEF ValueOK
  <2>2. k \in DOMAIN hdr[h].deps /\ d \in Headers
    <3>1. DOMAIN hdr[h].deps = 1 .. Len(hdr[h].deps) /\ DOMAIN args[h] = 1 .. Len(args[h])
      BY <1>1, FieldTypes, LenProperties
    <3>2. k \in DOMAIN hdr[h].deps
      BY <1>3, <2>1, <3>1
    <3>3. QED
      BY <1>1, <3>2, FieldTypes
  <2>3. h \in Due(hdr)
    BY <1>3 DEF Due, Unready, Ready, StatusActive, StatusReady
  <2>4. BodyOK(hdr, h) /\ OpenOf(hdr, h) = {}
    BY <1>1, <2>3, DueFacts
  <2>5. IsResult(hdr, d)
    BY <2>2, <2>4 DEF BodyOK, OpenOf
  <2>6. origin[d] = d
    BY <2>2, <2>5, ValuesFacts
  <2>7. QED
    BY <2>1, <2>2, <2>5, <2>6 DEF IsResult
<1>4. QED
  BY <1>2, <1>3

\* Among the dependents upstream of h there is one that waits for none of them: when nothing is due,
\* it waits for a promise.
LEMMA InvWakes ==
  ASSUME ValuesInv
  PROVE  NoLostWakeup
<1> SUFFICES ASSUME active = <<>>, running = Nil, NEW h \in Headers, Unready(hdr, h)
             PROVE  \E p \in Upstream(h) : hdr[p].kind = "promise" /\ hdr[p].countdown > 0
  BY DEF NoLostWakeup
<1>1. HeapOK(hdr, user, Nil) /\ hdr \in Heaps /\ FutureInv /\ Acyclic(hdr)
  BY ValuesFacts
<1>2. Due(hdr) = {}
  <2>1. Lists!ToSet(active) = Due(hdr) \ {running}
    BY <1>1, InvFacts
  <2>2. Lists!ToSet(active) = {}
    BY DEF Lists!ToSet
  <2>3. Nil \notin Due(hdr)
    BY Constants DEF Due
  <2>4. QED
    BY <2>1, <2>2, <2>3
<1>3. /\ Upstream(h) \subseteq Headers /\ (\A x \in Upstream(h) : WaitsOn(x) \subseteq Upstream(h))
      /\ h \in Upstream(h)
  BY <1>1, UpstreamClosed, UpstreamFacts
<1> DEFINE T == {x \in Upstream(h) : Unready(hdr, x)}
<1>4. T \in (SUBSET Headers) \ {{}}
  BY <1>3
<1>5. PICK x \in T : ~ WaitsInto(hdr, x, T)
  BY <1>1, <1>4 DEF Acyclic
<1>6. x \in Upstream(h) /\ x \in Headers /\ Unready(hdr, x)
  BY <1>3
<1>7. PICK k \in DOMAIN hdr[x].deps : hdr[x].deps[k].linked
  BY <1>1, <1>2, <1>6, WaitsForSome
<1> DEFINE y == hdr[x].deps[k].dep
<1>8. y \in Upstream(h) /\ y \in Headers
  <2>1. y \in WaitsOn(x)
    BY <1>7 DEF WaitsOn
  <2>2. QED
    BY <1>3, <1>6, <2>1
<1>9. ~ Unready(hdr, y)
  BY <1>5, <1>7, <1>8 DEF WaitsInto
<1>10. ~ Ready(hdr, y)
  <2>1. <<x, k>> \in OpenTo(hdr, y)
    BY <1>1, <1>6, <1>7, DepLink
  <2>2. SuccessorsOK(hdr, y)
    BY <1>1, <1>8, HeapHeader
  <2>3. Lists!ToSet(<<>>) = {}
    BY DEF Lists!ToSet
  <2>4. QED
    BY <2>1, <2>2, <2>3 DEF SuccessorsOK
<1>11. hdr[y].kind = "promise"
  <2>1. hdr[y].kind \in {"free", "dead", "promise", "result", "dependent"}
    BY <1>1, <1>8, FieldTypes
  <2>2. Allocated(hdr, y)
    BY <1>1, <1>8, <1>10, KindFacts DEF Ready
  <2>3. HeaderOK(hdr, y, Nil)
    BY <1>1, <1>8, HeapHeader
  <2>4. QED
    BY <1>9, <1>10, <2>1, <2>2, <2>3 DEF Allocated, Unready, HeaderOK, IsResult
<1>12. hdr[y].countdown > 0
  BY <1>8, <1>10, <1>11, ValuesFacts DEF ValueOK
<1>13. QED
  BY <1>8, <1>11, <1>12

-----------------------------------------------------------------------------
(* The theorems                                                            *)

\* FutureInv is inductive, for every number of headers, arguments and
\* references: in every state that user code, callbacks and draining reach, the
\* heap of headers is whole (HeapOK), the active queue holds exactly the headers
\* that are due, and every when_all under way has a header for its result.
THEOREM FutureInvariant == Spec => []FutureInv
<1>1. Init => FutureInv
  BY InitStep
<1>2. FutureInv /\ [Next]_vars => FutureInv'
  <2>1. CASE Next
    BY <2>1, NextStep
  <2>2. CASE UNCHANGED vars
    <3>1. FutureInv /\ UNCHANGED vars => FutureInv'
      BY DEF vars, FutureInv, TypeOK, HeapOK, HeaderOK, SuccessorsOK, CountOK, QueueExact, RunningOK, RoomKept
    <3>2. QED
      BY <2>2, <3>1
  <2>3. QED
    BY <2>1, <2>2
<1>3. QED
  BY <1>1, <1>2, PTL DEF Spec

\* No header is deleted while something refers to it and none is leaked, every
\* open link is in the one successor list it waits in, and no wake-up is queued
\* twice or lost from the queue, after any sequence of operations of core.hpp.
THEOREM GraphStaysExact == Spec => []GraphExact
<1>1. FutureInv => GraphExact
  BY InvGraph
<1>2. QED
  BY <1>1, FutureInvariant, PTL

\* Chains of callbacks that return futures are always flattened: what a proxy
\* stands for is never itself a proxy, in whatever order the links were made.
THEOREM ProxiesStayFlat == Spec => []ProxiesFlat
<1>1. FutureInv => ProxiesFlat
  BY InvFlat
<1>2. QED
  BY <1>1, FutureInvariant, PTL

\* ValuesInv is inductive: beside the heap being whole, every header stands for the
\* same result as the header it proxies, the result it holds and, dependency by
\* dependency, the arguments it was built on, and nothing waits for itself.
THEOREM ValuesInvariant == Spec => []ValuesInv
<1>1. Init => ValuesInv
  BY InitValues
<1>2. ValuesInv /\ [Next]_vars => ValuesInv'
  <2>1. CASE Next
    BY <2>1, NextValues
  <2>2. CASE UNCHANGED vars
    <3>1. FutureInv /\ UNCHANGED vars => FutureInv'
      BY DEF vars, FutureInv, TypeOK, HeapOK, HeaderOK, SuccessorsOK, CountOK, QueueExact, RunningOK, RoomKept
    <3>2. UNCHANGED <<hdr, origin, args>>
      BY <2>2 DEF vars
    <3>3. ValuesInv => ValuesOK(hdr', origin', args') /\ Acyclic(hdr')
      BY <3>2 DEF ValuesInv
    <3>4. QED
      BY <2>2, <3>1, <3>3 DEF ValuesInv
  <2>3. QED
    BY <2>1, <2>2
<1>3. QED
  BY <1>1, <1>2, PTL DEF Spec

\* However many proxies were bypassed and headers replaced on the way, a ready
\* future holds the result of the promise or callback it stands for and a body
\* that is due sees the results of its arguments; and whenever nothing is draining,
\* every dependent that is not ready waits for a promise that is not fulfilled:
\* no wake-up is lost in core.cpp's hand-over of successor lists.
THEOREM ValuesStayDelivered == Spec => []ValuesDelivered
<1>1. ValuesInv => ValuesDelivered
  BY InvFaithful, InvWakes DEF ValuesDelivered
<1>2. QED
  BY <1>1, ValuesInvariant, PTL

=============================================================================
