----------------------------- MODULE FutureHeapProofs -----------------------------
(***************************************************************************)
(* The operations of core.hpp and core.cpp on the heap of headers, one by  *)
(* one: each keeps the heap whole (HeapOK) when the references that the    *)
(* caller holds, the tally X, are counted in.  FutureCoreProofs puts them  *)
(* together to the steps of the future engine.                             *)
(***************************************************************************)
EXTENDS FutureCore, SequenceTheorems, FiniteSetTheorems, TLAPS

-----------------------------------------------------------------------------
(* Sets of numbers, and sequences picked from sequences                    *)

\* A set of natural numbers has a least element: induction, in a form without predicates.
LEMMA LeastNat ==
  ASSUME NEW S \in SUBSET Nat, S # {}
  PROVE  \E n \in S : \A k \in S : n <= k
<1> DEFINE R == OpToRel(<, Nat)
<1>1. IsWellFoundedOn(R, Nat)
  BY NatLessThanWellFounded
<1> HIDE DEF R
<1>2. PICK n \in S : \A k \in S : <<k, n>> \notin R
  BY <1>1, WFMin
<1>3. ASSUME NEW k \in S
      PROVE  n <= k
  <2>1. <<k, n>> \notin R
    BY <1>2
  <2>2. k \in Nat /\ n \in Nat
    BY <1>2
  <2>3. ~(k < n)
    BY <2>1, <2>2 DEF R, OpToRel
  <2>4. QED
    BY <2>2, <2>3
<1>4. QED
  BY <1>2, <1>3

\* How many elements of a set are at most one of them.
Rank(W, i) == Cardinality({j \in W : j <= i})

\* The ranks of the members of a set of places count them up, in their order.
LEMMA RankFacts ==
  ASSUME NEW n \in Nat, NEW W \in SUBSET (1 .. n)
  PROVE  /\ IsFiniteSet(W) /\ Cardinality(W) \in Nat /\ Cardinality(W) <= n
         /\ \A i \in W : Rank(W, i) \in 1 .. Cardinality(W)
         /\ \A i, j \in W : i < j => Rank(W, i) < Rank(W, j)
<1>1. IsFiniteSet(1 .. n) /\ Cardinality(1 .. n) = n
  BY FS_Interval
<1>2. IsFiniteSet(W) /\ Cardinality(W) \in Nat /\ Cardinality(W) <= n
  BY <1>1, FS_Subset, FS_CardinalityType
<1>3. \A i \in W : IsFiniteSet({j \in W : j <= i}) /\ Rank(W, i) \in Nat /\ Rank(W, i) <= Cardinality(W)
  <2> TAKE i \in W
  <2>1. {j \in W : j <= i} \in SUBSET W
    OBVIOUS
  <2>2. QED
    BY <1>2, <2>1, FS_Subset, FS_CardinalityType DEF Rank
<1>4. \A i \in W : Rank(W, i) >= 1
  <2> TAKE i \in W
  <2>1. i \in {j \in W : j <= i}
    OBVIOUS
  <2>2. Rank(W, i) # 0
    BY <1>3, <2>1, FS_EmptySet DEF Rank
  <2>3. Rank(W, i) \in Nat
    BY <1>3
  <2>4. QED
    BY <2>2, <2>3
<1>5. ASSUME NEW i \in W, NEW j \in W, i < j
      PROVE  Rank(W, i) < Rank(W, j)
  <2> DEFINE A == {k \in W : k <= i}
             B == {k \in W : k <= j}
  <2>1. IsFiniteSet(B) /\ Cardinality(B) \in Nat /\ Cardinality(A) \in Nat /\ IsFiniteSet(A)
    BY <1>3 DEF Rank
  <2>2. j \in B /\ A \in SUBSET (B \ {j})
    <3>1. i \in Int /\ j \in Int /\ \A k \in W : k \in Int
      OBVIOUS
    <3>2. \A k \in W : k <= i => k <= j /\ k # j
      BY <1>5, <3>1
    <3>3. j <= j
      BY <3>1
    <3>4. QED
      BY <3>2, <3>3
  <2> HIDE DEF A, B
  <2>3. IsFiniteSet(B \ {j}) /\ Cardinality(B \ {j}) = Cardinality(B) - 1
    BY <2>1, <2>2, FS_RemoveElement
  <2>4. Cardinality(A) <= Cardinality(B \ {j})
    BY <2>2, <2>3, FS_Subset
  <2>5. Cardinality(A) < Cardinality(B)
    BY <2>1, <2>3, <2>4
  <2>6. QED
    BY <2>5 DEF Rank, A, B
<1>6. \A i \in W : Rank(W, i) \in 1 .. Cardinality(W)
  <2> TAKE i \in W
  <2>1. Rank(W, i) \in Nat /\ Rank(W, i) <= Cardinality(W) /\ Rank(W, i) >= 1
    BY <1>3, <1>4
  <2>2. QED
    BY <1>2, <2>1
<1>7. QED
  BY <1>2, <1>5, <1>6

\* Every rank is that of one place.
LEMMA PlaceFacts ==
  ASSUME NEW n \in Nat, NEW W \in SUBSET (1 .. n)
  PROVE  /\ \A k \in 1 .. Cardinality(W) : Place(W, k) \in W /\ Rank(W, Place(W, k)) = k
         /\ \A i \in W : Place(W, Rank(W, i)) = i
<1> DEFINE c == Cardinality(W)
           f == [i \in W |-> Rank(W, i)]
<1>1. c \in Nat /\ IsFiniteSet(W)
  BY RankFacts
<1>2. \A i, j \in W : i # j => Rank(W, i) # Rank(W, j)
  <2> SUFFICES ASSUME NEW i \in W, NEW j \in W, i # j
               PROVE  Rank(W, i) # Rank(W, j)
    OBVIOUS
  <2>1. i \in Nat /\ j \in Nat
    OBVIOUS
  <2>2. i < j \/ j < i
    BY <2>1
  <2>3. Rank(W, i) \in 1 .. c /\ Rank(W, j) \in 1 .. c
    BY RankFacts
  <2>4. Rank(W, i) < Rank(W, j) \/ Rank(W, j) < Rank(W, i)
    BY <2>2, RankFacts
  <2> HIDE DEF c
  <2>5. QED
    BY <1>1, <2>3, <2>4
<1>3. f \in Injection(W, 1 .. c)
  BY <1>2, RankFacts DEF Injection, IsInjective
<1>4. IsFiniteSet(1 .. c) /\ Cardinality(1 .. c) = c
  BY <1>1, FS_Interval
<1>5. f \in Surjection(W, 1 .. c)
  BY <1>3, <1>4, FS_Injection
<1>6. ASSUME NEW k \in 1 .. c
      PROVE  Place(W, k) \in W /\ Rank(W, Place(W, k)) = k
  <2>1. \E i \in W : Rank(W, i) = k
    BY <1>5 DEF Surjection
  <2>2. QED
    BY <2>1 DEF Place, Rank
<1>7. ASSUME NEW i \in W
      PROVE  Place(W, Rank(W, i)) = i
  <2>1. Rank(W, i) \in 1 .. c
    BY RankFacts
  <2>2. Place(W, Rank(W, i)) \in W /\ Rank(W, Place(W, Rank(W, i))) = Rank(W, i)
    BY <2>1, <1>6
  <2>3. QED
    BY <1>2, <2>2
<1>8. QED
  BY <1>6, <1>7

\* What is picked from a sequence is what stands there, each place once.
LEMMA PickFacts ==
  ASSUME NEW T, NEW s \in Seq(T), NEW W \in SUBSET DOMAIN s
  PROVE  /\ PickAt(s, W) \in Seq(T) /\ Len(PickAt(s, W)) = Cardinality(W)
         /\ IsFiniteSet(W) /\ Cardinality(W) \in Nat
         /\ DOMAIN PickAt(s, W) = 1 .. Cardinality(W)
         /\ {PickAt(s, W)[i] : i \in DOMAIN PickAt(s, W)} = {s[i] : i \in W}
         /\ \A k \in 1 .. Cardinality(W) : Place(W, k) \in W /\ PickAt(s, W)[k] = s[Place(W, k)]
         /\ \A k, l \in 1 .. Cardinality(W) : Place(W, k) = Place(W, l) => k = l
<1> DEFINE c == Cardinality(W)
           p == PickAt(s, W)
<1>1. Len(s) \in Nat /\ DOMAIN s = 1 .. Len(s)
  BY LenProperties
<1>2. IsFiniteSet(W) /\ c \in Nat
  BY <1>1, RankFacts
<1>3. /\ \A k \in 1 .. c : Place(W, k) \in W /\ Rank(W, Place(W, k)) = k
      /\ \A i \in W : Place(W, Rank(W, i)) = i /\ Rank(W, i) \in 1 .. c
  BY <1>1, PlaceFacts, RankFacts
<1>4. \A i \in W : s[i] \in T
  BY <1>1, ElementOfSeq
<1>5. p = [k \in 1 .. c |-> s[Place(W, k)]]
  BY DEF PickAt
<1> HIDE DEF c, p
<1>6. p \in Seq(T) /\ Len(p) = c /\ DOMAIN p = 1 .. c
  <2>1. \A k \in 1 .. c : s[Place(W, k)] \in T
    BY <1>3, <1>4
  <2>2. p \in [1 .. c -> T]
    BY <1>5, <2>1
  <2>3. QED
    BY <1>2, <2>2, IsASeq, LenProperties
<1>7. \A k \in 1 .. c : p[k] = s[Place(W, k)]
  BY <1>5
<1>8. {p[i] : i \in DOMAIN p} = {s[i] : i \in W}
  <2>1. ASSUME NEW i \in W
        PROVE  \E k \in DOMAIN p : p[k] = s[i]
    BY <1>3, <1>6, <1>7
  <2>2. \A k \in DOMAIN p : \E i \in W : p[k] = s[i]
    BY <1>3, <1>6, <1>7
  <2>3. QED
    BY <2>1, <2>2
<1>9. \A k, l \in 1 .. c : Place(W, k) = Place(W, l) => k = l
  BY <1>3
<1>10. QED
  BY <1>2, <1>3, <1>6, <1>7, <1>8, <1>9 DEF c, p

-----------------------------------------------------------------------------
(* Heaps                                                                   *)

Heaps   == [Headers -> HeaderType]
Tallies == [Headers -> Int]
Pairs   == Headers \X (1 .. MaxArgs)

\* What the assumptions on the constants say of the set of headers.
LEMMA Constants ==
  /\ MaxHeaders \in Nat \ {0} /\ MaxArgs \in Nat \ {0} /\ MaxCountdown \in Nat \ {0}
  /\ Headers \subseteq Nat /\ Always \in Headers /\ Nil \notin Headers
BY FutureAssumption DEF Headers, Always, Nil

\* The fields of a header of a heap have their types.
LEMMA FieldTypes ==
  ASSUME NEW H \in Heaps, NEW x \in Headers
  PROVE  /\ H[x].kind \in {"free", "dead", "promise", "result", "dependent"}
         /\ H[x].ref \in Nat \cup {-1} /\ H[x].status \in -3 .. MaxArgs
         /\ H[x].sucs \in Seq(Pairs) /\ H[x].result \in Headers \cup {Nil}
         /\ H[x].body \in {"none", "then", "all", "proxy"}
         /\ H[x].deps \in Seq([dep : Headers, linked : BOOLEAN])
         /\ H[x].countdown \in 0 .. MaxCountdown
         /\ Len(H[x].sucs) \in Nat /\ DOMAIN H[x].sucs = 1 .. Len(H[x].sucs)
         /\ Len(H[x].deps) \in Nat /\ DOMAIN H[x].deps = 1 .. Len(H[x].deps)
         /\ \A k \in DOMAIN H[x].deps : H[x].deps[k].dep \in Headers /\ H[x].deps[k].linked \in BOOLEAN
         /\ \A i \in DOMAIN H[x].sucs : H[x].sucs[i] \in Pairs
<1>1. H[x] \in HeaderType
  BY DEF Heaps
<1>2. /\ H[x].kind \in {"free", "dead", "promise", "result", "dependent"}
      /\ H[x].ref \in Nat \cup {-1} /\ H[x].status \in -3 .. MaxArgs
      /\ H[x].sucs \in Seq(Pairs) /\ H[x].result \in Headers \cup {Nil}
      /\ H[x].body \in {"none", "then", "all", "proxy"}
      /\ H[x].deps \in Seq([dep : Headers, linked : BOOLEAN])
      /\ H[x].countdown \in 0 .. MaxCountdown
  BY <1>1 DEF HeaderType, Pairs
<1>3. Len(H[x].sucs) \in Nat /\ DOMAIN H[x].sucs = 1 .. Len(H[x].sucs)
  BY <1>2, LenProperties
<1>4. Len(H[x].deps) \in Nat /\ DOMAIN H[x].deps = 1 .. Len(H[x].deps)
  BY <1>2, LenProperties
<1>5. \A k \in DOMAIN H[x].deps : H[x].deps[k] \in [dep : Headers, linked : BOOLEAN]
  BY <1>2, <1>4, ElementOfSeq
<1>6. \A i \in DOMAIN H[x].sucs : H[x].sucs[i] \in Pairs
  BY <1>2, <1>3, ElementOfSeq
<1>7. QED
  BY <1>2, <1>3, <1>4, <1>5, <1>6

\* A header is made of its fields.
LEMMA SameFields ==
  ASSUME NEW a \in HeaderType, NEW b \in HeaderType,
         a.kind = b.kind, a.ref = b.ref, a.status = b.status, a.sucs = b.sucs,
         a.result = b.result, a.body = b.body, a.deps = b.deps, a.countdown = b.countdown
  PROVE  a = b
BY DEF HeaderType

\* The headers that the constructors build are headers.
LEMMA HeaderTypes ==
  ASSUME NEW h \in Headers
  PROVE  /\ FreeHeader \in HeaderType /\ DeadHeader \in HeaderType
         /\ PromiseHeader(h) \in HeaderType
         /\ \A n \in Nat \cup {-1} : ResultHeader(h, n) \in HeaderType
         /\ \A b \in {"then", "all"} : DependentHeader(b) \in HeaderType
<1>1. <<>> \in Seq(Pairs) /\ <<>> \in Seq([dep : Headers, linked : BOOLEAN])
  BY EmptySeq
<1> DEFINE Blank(k, n, s, r, b, c) ==
      [kind |-> k, ref |-> n, status |-> s, sucs |-> <<>>, result |-> r, body |-> b,
       deps |-> <<>>, countdown |-> c]
<1>2. /\ FreeHeader = Blank("free", 0, StatusReady, Nil, "none", 0)
      /\ DeadHeader = Blank("dead", 0, StatusReady, Nil, "none", 0)
  BY DEF FreeHeader, DeadHeader, BlankHeader
<1>3. PromiseHeader(h) = Blank("promise", 1, StatusActive + 1, h, "none", 1)
  <2> DEFINE B == BlankHeader("promise", 1, StatusActive + 1)
             C == [B EXCEPT !.result = h]
  <2>1. C = Blank("promise", 1, StatusActive + 1, h, "none", 0)
    BY DEF BlankHeader
  <2>2. PromiseHeader(h) = [C EXCEPT !.countdown = 1]
    BY Zenon DEF PromiseHeader
  <2> HIDE DEF C
  <2>3. [C EXCEPT !.countdown = 1] = Blank("promise", 1, StatusActive + 1, h, "none", 1)
    BY <2>1
  <2>4. QED
    BY <2>2, <2>3
<1>4. \A n : ResultHeader(h, n) = Blank("result", n, StatusReady, h, "none", 0)
  BY DEF ResultHeader, BlankHeader
<1>5. \A b : DependentHeader(b) = Blank("dependent", 2, StatusActive, Nil, b, 0)
  BY DEF DependentHeader, BlankHeader
<1>6. ASSUME NEW k \in {"free", "dead", "promise", "result", "dependent"}, NEW n \in Nat \cup {-1},
             NEW s \in -3 .. MaxArgs, NEW r \in Headers \cup {Nil}, NEW c \in 0 .. MaxCountdown,
             NEW b \in {"none", "then", "all", "proxy"}
      PROVE  Blank(k, n, s, r, b, c) \in HeaderType
  BY <1>1 DEF HeaderType, Pairs
<1>7. /\ StatusReady \in -3 .. MaxArgs /\ StatusActive \in -3 .. MaxArgs
      /\ StatusActive + 1 \in -3 .. MaxArgs /\ 0 \in 0 .. MaxCountdown /\ 1 \in 0 .. MaxCountdown
      /\ 1 \in Nat /\ 2 \in Nat /\ 0 \in Nat
  BY Constants DEF StatusReady, StatusActive
<1> HIDE DEF Blank
<1>8. FreeHeader \in HeaderType /\ DeadHeader \in HeaderType /\ PromiseHeader(h) \in HeaderType
  BY <1>2, <1>3, <1>6, <1>7
<1>9. \A n \in Nat \cup {-1} : ResultHeader(h, n) \in HeaderType
  BY <1>4, <1>6, <1>7
<1>10. \A b \in {"then", "all"} : DependentHeader(b) \in HeaderType
  BY <1>5, <1>6, <1>7
<1>11. QED
  BY <1>8, <1>9, <1>10

\* The fields of the headers the operations make.
LEMMA MadeFields ==
  /\ DeadHeader.kind = "dead" /\ DeadHeader.ref = 0 /\ DeadHeader.status = StatusReady
  /\ DeadHeader.sucs = <<>> /\ DeadHeader.result = Nil /\ DeadHeader.body = "none"
  /\ DeadHeader.deps = <<>> /\ DeadHeader.countdown = 0
  /\ FreeHeader.kind = "free" /\ FreeHeader.ref = 0 /\ FreeHeader.status = StatusReady
  /\ FreeHeader.sucs = <<>> /\ FreeHeader.result = Nil /\ FreeHeader.body = "none"
  /\ FreeHeader.deps = <<>> /\ FreeHeader.countdown = 0
  /\ \A h, n : /\ ResultHeader(h, n).kind = "result" /\ ResultHeader(h, n).ref = n
               /\ ResultHeader(h, n).status = StatusReady /\ ResultHeader(h, n).sucs = <<>>
               /\ ResultHeader(h, n).result = h /\ ResultHeader(h, n).body = "none"
               /\ ResultHeader(h, n).deps = <<>> /\ ResultHeader(h, n).countdown = 0
  /\ \A h : /\ PromiseHeader(h).kind = "promise" /\ PromiseHeader(h).ref = 1
            /\ PromiseHeader(h).status = StatusActive + 1 /\ PromiseHeader(h).sucs = <<>>
            /\ PromiseHeader(h).result = h /\ PromiseHeader(h).body = "none"
            /\ PromiseHeader(h).deps = <<>> /\ PromiseHeader(h).countdown = 1
  /\ \A b : /\ DependentHeader(b).kind = "dependent" /\ DependentHeader(b).ref = 2
            /\ DependentHeader(b).status = StatusActive /\ DependentHeader(b).sucs = <<>>
            /\ DependentHeader(b).result = Nil /\ DependentHeader(b).body = b
            /\ DependentHeader(b).deps = <<>> /\ DependentHeader(b).countdown = 0
BY DEF FreeHeader, DeadHeader, BlankHeader, PromiseHeader, ResultHeader, DependentHeader

-----------------------------------------------------------------------------
(* Links and counts                                                        *)

\* The links to a header and the headers whose result it is can be counted.
LEMMA FiniteCounts ==
  ASSUME NEW H, NEW x
  PROVE  /\ IsFiniteSet(Headers) /\ IsFiniteSet(Pairs)
         /\ IsFiniteSet(LinksTo(H, x)) /\ Cardinality(LinksTo(H, x)) \in Nat
         /\ IsFiniteSet(OpenTo(H, x)) /\ Cardinality(OpenTo(H, x)) \in Nat
         /\ IsFiniteSet(ResultFor(H, x)) /\ Cardinality(ResultFor(H, x)) \in Nat
<1>1. IsFiniteSet(Headers) /\ IsFiniteSet(1 .. MaxArgs)
  BY Constants, FS_Interval DEF Headers
<1>2. IsFiniteSet(Pairs)
  BY <1>1, FS_Product DEF Pairs
<1>3. LinksTo(H, x) \in SUBSET Pairs /\ OpenTo(H, x) \in SUBSET Pairs
  BY DEF LinksTo, OpenTo, Links, Pairs
<1>4. ResultFor(H, x) \in SUBSET Headers
  BY DEF ResultFor
<1>5. QED
  BY <1>1, <1>2, <1>3, <1>4, FS_Subset, FS_CardinalityType

\* A link is a header and the number of one of the dependencies of its body.
LEMMA LinkParts ==
  ASSUME NEW H, NEW l \in Links(H)
  PROVE  /\ l[1] \in Headers /\ l[2] \in 1 .. MaxArgs /\ l = <<l[1], l[2]>>
         /\ l[2] \in DOMAIN H[l[1]].deps
BY DEF Links

\* The links depend on the bodies alone.
LEMMA SameBodies ==
  ASSUME NEW H, NEW K, \A x \in Headers : K[x].deps = H[x].deps
  PROVE  /\ Links(K) = Links(H)
         /\ \A l \in Links(H) : LinkAt(K, l) = LinkAt(H, l)
         /\ \A x : LinksTo(K, x) = LinksTo(H, x) /\ OpenTo(K, x) = OpenTo(H, x)
         /\ \A x \in Headers : OpenOf(K, x) = OpenOf(H, x)
<1>1. Links(K) = Links(H)
  BY DEF Links
<1>2. \A l \in Links(H) : LinkAt(K, l) = LinkAt(H, l)
  BY LinkParts DEF LinkAt
<1>3. \A x : LinksTo(K, x) = LinksTo(H, x)
  BY <1>1, <1>2 DEF LinksTo
<1>4. \A x : OpenTo(K, x) = OpenTo(H, x)
  BY <1>2, <1>3 DEF OpenTo, LinksTo
<1>5. \A x \in Headers : OpenOf(K, x) = OpenOf(H, x)
  BY DEF OpenOf
<1>6. QED
  BY <1>1, <1>2, <1>3, <1>4, <1>5

\* What a whole heap says of one header.
LEMMA HeapHeader ==
  ASSUME NEW H, NEW X, NEW z, HeapOK(H, X, z), NEW x \in Headers
  PROVE  /\ H \in Heaps
         /\ HeaderOK(H, x, z) /\ SuccessorsOK(H, x) /\ (x # Always => CountOK(H, X, z, x))
         /\ x = Always => Allocated(H, x) /\ IsResult(H, x) /\ H[x].ref = -1 /\ H[x].kind = "result"
BY MadeFields DEF HeapOK, Heaps, Allocated, IsResult, Ready

\* What the kind and the state of a header say of its fields, in a whole heap.
LEMMA KindFacts ==
  ASSUME NEW H, NEW X, NEW z, HeapOK(H, X, z), NEW x \in Headers
  PROVE  /\ ~ Allocated(H, x) => /\ H[x].ref = 0 /\ H[x].status = StatusReady /\ H[x].sucs = <<>>
                                 /\ H[x].result = Nil /\ H[x].body = "none" /\ H[x].deps = <<>>
                                 /\ ~ Unready(H, x) /\ x # Always
         /\ IsResult(H, x) => Allocated(H, x) /\ H[x].kind \in {"promise", "result"} /\ ~ Unready(H, x)
         /\ ~ Unready(H, x) \/ x = z => Bodiless(H, x)
         /\ H[x].result \in Headers \ {x} => /\ H[x].kind = "dependent" /\ Ready(H, x)
                                             /\ IsResult(H, H[x].result)
         /\ Unready(H, x) => Allocated(H, x) /\ H[x].result = Nil /\ ~ IsResult(H, x)
         /\ Unready(H, x) /\ x # z => BodyOK(H, x)
         /\ Proxying(H, x) => Unready(H, x)
         /\ Allocated(H, x) /\ x # Always => H[x].ref > 0
         /\ x # Always => H[x].ref \in Nat
<1>1. HeaderOK(H, x, z) /\ H \in Heaps
  BY HeapHeader
<1>2. H[x].kind \in {"free", "dead", "promise", "result", "dependent"} /\ H[x].result \in Headers \cup {Nil}
  BY <1>1, FieldTypes
<1>3. x = Always => Allocated(H, x)
  BY HeapHeader
<1>4. Nil \notin Headers /\ x # Nil
  BY Constants
<1>5. x # Always => (Allocated(H, x) => H[x].ref > 0) /\ H[x].ref \in Nat
  BY HeapHeader DEF CountOK
<1>6. ~ Allocated(H, x) => H[x] = FreeHeader \/ H[x] = DeadHeader
  BY <1>1 DEF HeaderOK, Allocated
<1>7. ~ Allocated(H, x) => /\ H[x].ref = 0 /\ H[x].status = StatusReady /\ H[x].sucs = <<>>
                           /\ H[x].result = Nil /\ H[x].body = "none" /\ H[x].deps = <<>>
                           /\ ~ Unready(H, x) /\ x # Always
  BY <1>3, <1>6, MadeFields DEF Allocated, Unready
<1>8. IsResult(H, x) => Allocated(H, x) /\ H[x].kind \in {"promise", "result"} /\ ~ Unready(H, x)
  BY <1>1, <1>2, <1>4, <1>7 DEF HeaderOK, IsResult, Allocated, Unready
<1>9. ~ Unready(H, x) \/ x = z => Bodiless(H, x)
  BY <1>1, <1>2, <1>7 DEF HeaderOK, Allocated, Unready, Bodiless
<1>10. H[x].result \in Headers \ {x} => /\ H[x].kind = "dependent" /\ Ready(H, x)
                                        /\ IsResult(H, H[x].result)
  BY <1>1, <1>2, <1>4, <1>7 DEF HeaderOK, Allocated, Unready, IsResult
<1>11. Unready(H, x) => Allocated(H, x) /\ H[x].result = Nil /\ ~ IsResult(H, x)
  BY <1>1, <1>4 DEF HeaderOK, Unready, Allocated, IsResult
<1>12. Unready(H, x) /\ x # z => BodyOK(H, x)
  BY <1>1 DEF HeaderOK
<1>13. Proxying(H, x) => Unready(H, x)
  BY <1>1, <1>2, <1>7 DEF HeaderOK, Proxying, Unready, Allocated, IsResult, Ready,
     StatusReady, StatusProxying, StatusProxyingActive, StatusActive
<1>14. QED
  BY <1>5, <1>7, <1>8, <1>9, <1>10, <1>11, <1>12, <1>13

\* Who a link belongs to, and whom it may hold.
LEMMA LinkFacts ==
  ASSUME NEW H, NEW X, NEW z, HeapOK(H, X, z), NEW l \in Links(H)
  PROVE  /\ l[1] \in Headers /\ l[2] \in 1 .. MaxArgs /\ l = <<l[1], l[2]>>
         /\ l[2] \in DOMAIN H[l[1]].deps /\ Unready(H, l[1]) /\ l[1] # z /\ BodyOK(H, l[1])
         /\ LinkAt(H, l).dep \in Headers /\ LinkAt(H, l).linked \in BOOLEAN
         /\ ~ LinkAt(H, l).linked => IsResult(H, LinkAt(H, l).dep)
         /\ LinkAt(H, l).linked <=> l \in OpenTo(H, LinkAt(H, l).dep)
<1>1. l[1] \in Headers /\ l[2] \in 1 .. MaxArgs /\ l = <<l[1], l[2]>> /\ l[2] \in DOMAIN H[l[1]].deps
  BY LinkParts
<1>2. H \in Heaps
  BY <1>1, HeapHeader
<1>3. ~ Bodiless(H, l[1])
  BY <1>1 DEF Bodiless
<1>4. Unready(H, l[1]) /\ l[1] # z /\ BodyOK(H, l[1])
  BY <1>1, <1>3, KindFacts
<1>5. LinkAt(H, l).dep \in Headers /\ LinkAt(H, l).linked \in BOOLEAN
  BY <1>1, <1>2, FieldTypes DEF LinkAt
<1>6. ~ LinkAt(H, l).linked => IsResult(H, LinkAt(H, l).dep)
  BY <1>1, <1>4 DEF LinkAt, BodyOK
<1>7. LinkAt(H, l).linked <=> l \in OpenTo(H, LinkAt(H, l).dep)
  BY <1>5 DEF OpenTo, LinksTo
<1>8. QED
  BY <1>1, <1>4, <1>5, <1>6, <1>7

\* A header all of whose references are held outside the heap.
LEMMA Unshared ==
  ASSUME NEW H, NEW X \in Tallies, NEW z, HeapOK(H, X, z), NEW x \in Headers \ {Always},
         X[x] >= H[x].ref
  PROVE  /\ X[x] = H[x].ref /\ LinksTo(H, x) = {} /\ OpenTo(H, x) = {} /\ ResultFor(H, x) = {}
         /\ Own(H, x, z) = 0 /\ H[x].sucs = <<>> /\ ~ (Unready(H, x) /\ x # z) /\ Bodiless(H, x)
<1>1. CountOK(H, X, z, x) /\ SuccessorsOK(H, x) /\ H \in Heaps
  BY HeapHeader
<1> DEFINE a == Cardinality(LinksTo(H, x))
           b == Cardinality(ResultFor(H, x))
           o == Own(H, x, z)
           r == H[x].ref
           u == X[x]
<1>2. a \in Nat /\ b \in Nat /\ o \in {0, 1} /\ r \in Nat /\ u \in Int /\ r = u + a + b + o /\ u >= r
  BY <1>1, FiniteCounts DEF CountOK, Own, Tallies
<1>3. a = 0 /\ b = 0 /\ o = 0 /\ u = r
  <2> HIDE DEF a, b, o, r, u
  <2>1. QED
    BY <1>2
<1>4. LinksTo(H, x) = {} /\ ResultFor(H, x) = {}
  BY <1>3, FiniteCounts, FS_EmptySet
<1>5. OpenTo(H, x) = {}
  BY <1>4 DEF OpenTo
<1>6. ~ (Unready(H, x) /\ x # z)
  BY <1>3 DEF Own
<1>7. Bodiless(H, x)
  BY <1>6, KindFacts
<1>8. H[x].sucs = <<>>
  <2>1. DOMAIN H[x].sucs = {}
    BY <1>1, <1>5 DEF SuccessorsOK, Lists!ToSet
  <2>2. H[x].sucs \in Seq(Pairs) /\ DOMAIN H[x].sucs = 1 .. Len(H[x].sucs)
    BY <1>1, FieldTypes
  <2>3. H[x].sucs # <<>> => Len(H[x].sucs) \in Nat \ {0}
    BY <2>2, EmptySeq
  <2>4. Len(H[x].sucs) \in Nat \ {0} => 1 \in 1 .. Len(H[x].sucs)
    OBVIOUS
  <2>5. QED
    BY <2>1, <2>2, <2>3, <2>4
<1>9. QED
  BY <1>3, <1>4, <1>5, <1>6, <1>7, <1>8

-----------------------------------------------------------------------------
(* Taking and giving back references                                       *)

\* Two headers that differ in their counters only.
Alike(a, b) ==
  /\ a.kind = b.kind /\ a.status = b.status /\ a.sucs = b.sucs
  /\ a.result = b.result /\ a.body = b.body /\ a.deps = b.deps

\* No header is made and no dependent that is not ready changes its state.
Keeps(H, K) ==
  /\ IsFree(K) = IsFree(H)
  /\ \A x \in Headers : Unready(H, x) \/ Unready(K, x) => Alike(K[x], H[x])

\* A step that keeps the dependents keeps who is due and who is a when_all.
LEMMA KeepsFacts ==
  ASSUME NEW H, NEW K, Keeps(H, K)
  PROVE  /\ Due(K) = Due(H)
         /\ \A x \in Headers : Unready(K, x) <=> Unready(H, x)
         /\ \A L : Keeps(K, L) => Keeps(H, L)
         /\ \A X, Y, y, z : HeapOK(H, X, y) /\ HeapOK(K, Y, z) => Alls(K) = Alls(H)
<1>1. \A x \in Headers : Unready(K, x) <=> Unready(H, x)
  BY DEF Keeps, Alike, Unready, Ready
<1>2. Due(K) = Due(H)
  BY <1>1 DEF Due, Keeps, Alike
<1>3. \A L : Keeps(K, L) => Keeps(H, L)
  <2> SUFFICES ASSUME NEW L, Keeps(K, L) PROVE Keeps(H, L)
    OBVIOUS
  <2>1. IsFree(L) = IsFree(H)
    BY DEF Keeps
  <2>2. \A x \in Headers : Unready(L, x) <=> Unready(K, x)
    BY DEF Keeps, Alike, Unready, Ready
  <2>3. ASSUME NEW x \in Headers, Unready(H, x) \/ Unready(L, x)
        PROVE  Alike(L[x], H[x])
    BY <1>1, <2>2, <2>3 DEF Keeps, Alike
  <2>4. QED
    BY <2>1, <2>3 DEF Keeps
<1>4. ASSUME NEW X, NEW Y, NEW y, NEW z, HeapOK(H, X, y), HeapOK(K, Y, z)
      PROVE  Alls(K) = Alls(H)
  <2>1. \A x \in Headers : H[x].body = "all" => Unready(H, x)
    BY <1>4, KindFacts DEF Bodiless
  <2>2. \A x \in Headers : K[x].body = "all" => Unready(K, x)
    BY <1>4, KindFacts DEF Bodiless
  <2>3. QED
    BY <1>1, <2>1, <2>2 DEF Alls, Keeps, Alike
<1>5. QED
  BY <1>1, <1>2, <1>3, <1>4

\* A heap keeps itself.
LEMMA KeepsSame ==
  ASSUME NEW H
  PROVE  Keeps(H, H)
BY DEF Keeps, Alike

\* References are taken and given back, and the results in D, to which the
\* operation held all references, are deleted.
LEMMA Release ==
  ASSUME NEW H, NEW X \in Tallies, NEW z, HeapOK(H, X, z), NEW K \in Heaps, NEW Y \in Tallies,
         NEW D \in SUBSET (Headers \ {Always}),
         \A x \in D : IsResult(H, x) /\ X[x] >= H[x].ref /\ K[x] = DeadHeader /\ Y[x] = 0,
         \A x \in Headers \ D :
           Alike(K[x], H[x]) /\ (K[x].countdown = H[x].countdown \/ H[x].status = StatusActive + 1),
         K[Always] = H[Always],
         \A x \in Headers \ {Always} : x \notin D =>
           /\ K[x].ref = H[x].ref + Y[x] - X[x]
           /\ Allocated(H, x) => K[x].ref > 0
           /\ ~ Allocated(H, x) => Y[x] = X[x]
  PROVE  HeapOK(K, Y, z) /\ Keeps(H, K)
<1>0. H \in Heaps
  BY Constants, HeapHeader
<1>1. \A x \in D : /\ LinksTo(H, x) = {} /\ OpenTo(H, x) = {} /\ ResultFor(H, x) = {}
                   /\ H[x].sucs = <<>> /\ Bodiless(H, x) /\ ~ Unready(H, x)
                   /\ H[x].kind \in {"promise", "result"}
  BY Unshared, KindFacts
<1>2. \A x \in D : /\ K[x].kind = "dead" /\ K[x].ref = 0 /\ K[x].status = StatusReady /\ K[x].sucs = <<>>
                   /\ K[x].result = Nil /\ K[x].body = "none" /\ K[x].deps = <<>>
  BY MadeFields
<1>3. \A x \in Headers \ D : /\ K[x].kind = H[x].kind /\ K[x].status = H[x].status
                             /\ K[x].sucs = H[x].sucs /\ K[x].result = H[x].result
                             /\ K[x].body = H[x].body /\ K[x].deps = H[x].deps
  BY DEF Alike
<1>4. \A x \in Headers : /\ K[x].deps = H[x].deps /\ K[x].sucs = H[x].sucs /\ K[x].status = H[x].status
                         /\ Unready(K, x) <=> Unready(H, x)
                         /\ Ready(K, x) <=> Ready(H, x)
                         /\ Proxying(K, x) <=> Proxying(H, x)
  BY <1>1, <1>2, <1>3 DEF Unready, Ready, Bodiless, IsResult, Proxying
<1>5. /\ \A x : LinksTo(K, x) = LinksTo(H, x) /\ OpenTo(K, x) = OpenTo(H, x)
      /\ \A x \in Headers : OpenOf(K, x) = OpenOf(H, x)
  BY <1>4, SameBodies
<1>6. \A x \in Headers : IsResult(K, x) <=> IsResult(H, x) /\ x \notin D
  BY <1>2, <1>3, <1>4, Constants DEF IsResult
<1>7. \A x \in Headers : ResultFor(K, x) = ResultFor(H, x)
  <2>1. \A x \in D : ResultFor(K, x) = {}
    BY <1>1, <1>2, <1>3, Constants DEF ResultFor
  <2>2. \A x \in Headers \ D : ResultFor(K, x) = ResultFor(H, x)
    BY <1>2, <1>3, Constants DEF ResultFor, IsResult
  <2>3. QED
    BY <2>1, <2>2, <1>1
<1>8. ASSUME NEW x \in Headers
      PROVE  HeaderOK(K, x, z)
  <2>1. HeaderOK(H, x, z)
    BY HeapHeader
  <2>2. CASE x \in D
    BY <1>2, <2>2 DEF HeaderOK, Unready
  <2>3. CASE x \notin D
    <3>1. /\ K[x].kind = H[x].kind /\ K[x].status = H[x].status
          /\ K[x].sucs = H[x].sucs /\ K[x].result = H[x].result
          /\ K[x].body = H[x].body /\ K[x].deps = H[x].deps
          /\ K[x].countdown = H[x].countdown \/ H[x].status = StatusActive + 1
      BY <1>3, <2>3
    <3>2. Bodiless(K, x) <=> Bodiless(H, x)
      BY <3>1 DEF Bodiless
    <3>3. ~ Allocated(H, x) => K[x] = H[x]
      <4> SUFFICES ASSUME ~ Allocated(H, x) PROVE K[x] = H[x]
        OBVIOUS
      <4>1. x # Always /\ H[x].status = StatusReady
        BY KindFacts
      <4>2. Y[x] = X[x] /\ K[x].ref = H[x].ref + Y[x] - X[x]
        BY <2>3, <4>1
      <4>3. H[x].ref \in Int /\ X[x] \in Int
        BY <1>0, FieldTypes DEF Tallies
      <4>4. K[x].ref = H[x].ref
        BY <4>2, <4>3
      <4>5. K[x].countdown = H[x].countdown
        BY <3>1, <4>1 DEF StatusReady, StatusActive
      <4>6. K[x] \in HeaderType /\ H[x] \in HeaderType
        BY <1>0 DEF Heaps
      <4>7. QED
        BY <3>1, <4>4, <4>5, <4>6, SameFields
    <3>4. ASSUME x \in Headers, H[x].result \in Headers \ {x}
          PROVE  H[x].result \notin D
      <4>1. x \in ResultFor(H, H[x].result)
        BY <3>4 DEF ResultFor
      <4>2. QED
        BY <1>1, <4>1
    <3>5. BodyOK(H, x) => BodyOK(K, x)
      <4> SUFFICES ASSUME BodyOK(H, x) PROVE BodyOK(K, x)
        OBVIOUS
      <4>1. OpenOf(K, x) = OpenOf(H, x) /\ Proxied(K, x) = Proxied(H, x)
        BY <1>5, <3>1 DEF Proxied
      <4>2. Len(H[x].deps) <= MaxArgs /\ Len(H[x].deps) \in Nat /\ DOMAIN H[x].deps = 1 .. Len(H[x].deps)
        BY <1>0, FieldTypes DEF BodyOK
      <4>3. \A k \in DOMAIN H[x].deps : H[x].deps[k].dep \in Headers \ D
        <5> TAKE k \in DOMAIN H[x].deps
        <5>1. H[x].deps[k].dep \in Headers
          BY <1>0, FieldTypes
        <5>2. k \in 1 .. MaxArgs
          BY <4>2, Constants
        <5>3. <<x, k>> \in LinksTo(H, H[x].deps[k].dep)
          BY <5>2 DEF LinksTo, Links, LinkAt
        <5>4. QED
          BY <1>1, <5>1, <5>3
      <4>4. \A k \in DOMAIN K[x].deps : K[x].deps[k].linked \/ IsResult(K, K[x].deps[k].dep)
        BY <1>6, <3>1, <4>3 DEF BodyOK
      <4>5. Len(H[x].deps) = 1 => Proxied(H, x) \in Headers
        BY <1>0, FieldTypes DEF Proxied
      <4>6. ~ Proxying(H, Proxied(H, x)) /\ Proxied(H, x) \in Headers => ~ Proxying(K, Proxied(H, x))
        BY <1>4
      <4>7. QED
        BY <3>1, <4>1, <4>4, <4>5, <4>6 DEF BodyOK
    <3>6. IsResult(H, x) => IsResult(K, x)
      BY <1>6, <2>3
    <3>7. H[x].kind = "dependent" /\ Ready(H, x) => IsResult(K, H[x].result)
      BY <1>6, <2>1, <3>4 DEF HeaderOK
    <3>8. Ready(K, x) <=> Ready(H, x)
      BY <1>4
    <3>81. Unready(K, x) <=> Unready(H, x)
      BY <1>4
    <3>82. /\ K[x].kind = "free" => K[x] = FreeHeader
           /\ K[x].kind = "dead" => K[x] = DeadHeader
      BY <2>1, <3>1, <3>3 DEF HeaderOK, Allocated
    <3>83. K[x].kind = "promise" =>
             /\ K[x].result = x /\ Bodiless(K, x)
             /\ K[x].status = StatusActive + 1 \/ (Ready(K, x) /\ K[x].countdown = 0)
      BY <2>1, <3>1, <3>2, <3>8 DEF HeaderOK
    <3>84. K[x].kind = "result" => IsResult(K, x) /\ Bodiless(K, x)
      BY <2>1, <3>1, <3>2, <3>6 DEF HeaderOK
    <3>85. K[x].kind = "dependent" /\ Ready(K, x) =>
             K[x].result \in Headers \ {x} /\ IsResult(K, K[x].result) /\ Bodiless(K, x)
      BY <2>1, <3>1, <3>2, <3>7, <3>8 DEF HeaderOK
    <3>86. Unready(K, x) =>
             /\ K[x].result = Nil
             /\ IF x = z THEN Bodiless(K, x) /\ K[x].status \in {StatusActive, StatusProxyingActive}
                ELSE BodyOK(K, x)
      BY <2>1, <3>1, <3>2, <3>5, <3>81 DEF HeaderOK
    <3>9. QED
      BY <3>82, <3>83, <3>84, <3>85, <3>86 DEF HeaderOK
  <2>4. QED
    BY <2>2, <2>3
<1>9. \A x \in Headers : SuccessorsOK(K, x)
  BY <1>4, <1>5, HeapHeader DEF SuccessorsOK
<1>10. ASSUME NEW x \in Headers \ {Always}
       PROVE  CountOK(K, Y, z, x)
  <2>1. CountOK(H, X, z, x)
    BY HeapHeader
  <2>2. Own(K, x, z) = Own(H, x, z) /\ Own(H, x, z) \in Nat
    BY <1>4 DEF Own
  <2>3. LinksTo(K, x) = LinksTo(H, x) /\ ResultFor(K, x) = ResultFor(H, x)
    BY <1>5, <1>7
  <2>4. Cardinality(LinksTo(H, x)) \in Nat /\ Cardinality(ResultFor(H, x)) \in Nat
    BY FiniteCounts
  <2>5. CASE x \in D
    <3>1. LinksTo(H, x) = {} /\ ResultFor(H, x) = {} /\ ~ Unready(K, x) /\ ~ Allocated(K, x)
      BY <1>1, <1>2, <1>4, <2>5 DEF Allocated
    <3>2. K[x].ref = 0 /\ Y[x] = 0 /\ Own(K, x, z) = 0
      BY <1>2, <2>5, <3>1 DEF Own
    <3>3. QED
      BY <2>3, <3>1, <3>2, FS_EmptySet DEF CountOK
  <2>6. CASE x \notin D
    <3>1. Allocated(K, x) <=> Allocated(H, x)
      BY <1>3, <2>6 DEF Allocated
    <3>2. X[x] \in Int /\ Y[x] \in Int
      BY DEF Tallies
    <3>3. H[x].ref \in Nat /\ K[x].ref = H[x].ref + Y[x] - X[x] /\ (Allocated(H, x) => K[x].ref > 0)
          /\ (~ Allocated(H, x) => Y[x] = X[x] /\ H[x].ref = 0)
      BY <2>1, <2>6, KindFacts DEF CountOK
    <3>4. K[x].ref \in Int
      BY <3>2, <3>3
    <3>5. K[x].ref \in Nat /\ (Allocated(K, x) <=> K[x].ref > 0)
      BY <3>1, <3>2, <3>3, <3>4
    <3>6. H[x].ref = X[x] + Cardinality(LinksTo(H, x)) + Cardinality(ResultFor(H, x)) + Own(H, x, z)
      BY <2>1 DEF CountOK
    <3>7. K[x].ref = Y[x] + Cardinality(LinksTo(H, x)) + Cardinality(ResultFor(H, x)) + Own(H, x, z)
      BY <2>2, <2>4, <3>2, <3>3, <3>6
    <3>8. QED
      BY <2>2, <2>3, <3>5, <3>7 DEF CountOK
  <2>7. QED
    BY <2>5, <2>6
<1>11. HeapOK(K, Y, z)
  BY <1>8, <1>9, <1>10 DEF HeapOK, Heaps
<1>12. Keeps(H, K)
  <2>1. IsFree(K) = IsFree(H)
    BY <1>1, <1>2, <1>3 DEF IsFree
  <2>2. QED
    BY <1>1, <1>4, <2>1 DEF Keeps
<1>13. QED
  BY <1>11, <1>12

\* The references to a header that an operation holds, after it takes n more.
Give(X, h, n) == [X EXCEPT ![h] = @ + n]

\* The tally after n references to h were taken.
LEMMA GiveFacts ==
  ASSUME NEW X \in Tallies, NEW h \in Headers, NEW n \in Int
  PROVE  /\ Give(X, h, n) \in Tallies /\ Give(X, h, n)[h] = X[h] + n
         /\ \A x \in Headers \ {h} : Give(X, h, n)[x] = X[x]
         /\ \A x \in Headers : X[x] \in Int
BY DEF Give, Tallies

\* incref and decref change a reference count and nothing else.
LEMMA AddRefFields ==
  ASSUME NEW H \in Heaps, NEW h \in Headers, NEW n \in Int, H[h].ref \in Nat => H[h].ref + n \in Nat
  PROVE  /\ AddRef(H, h, n) \in Heaps
         /\ \A x \in Headers : Alike(AddRef(H, h, n)[x], H[x]) /\ AddRef(H, h, n)[x].countdown = H[x].countdown
         /\ \A x \in Headers \ {h} : AddRef(H, h, n)[x] = H[x]
         /\ H[h].ref \in Nat => AddRef(H, h, n)[h].ref = H[h].ref + n
         /\ H[h].ref = -1 => AddRef(H, h, n) = H
<1>1. H[h] \in HeaderType /\ H[h].ref \in Nat \cup {-1}
  BY FieldTypes DEF Heaps
<1>2. CASE H[h].ref = -1
  BY <1>2 DEF AddRef, Alike
<1>3. CASE H[h].ref \in Nat
  <2> DEFINE K == AddRef(H, h, n)
  <2>1. K = [H EXCEPT ![h].ref = @ + n]
    BY <1>3 DEF AddRef
  <2>2. [H[h] EXCEPT !.ref = @ + n] \in HeaderType
    BY <1>1, <1>3 DEF HeaderType
  <2>3. K[h] = [H[h] EXCEPT !.ref = @ + n] /\ \A x \in Headers \ {h} : K[x] = H[x]
    BY <2>1 DEF Heaps
  <2>4. K \in Heaps
    BY <2>1, <2>2 DEF Heaps
  <2>5. Alike(K[h], H[h]) /\ K[h].countdown = H[h].countdown /\ K[h].ref = H[h].ref + n
    BY <1>1, <2>3 DEF Alike, HeaderType
  <2> HIDE DEF K
  <2>6. \A x \in Headers : Alike(K[x], H[x]) /\ K[x].countdown = H[x].countdown
    BY <2>3, <2>5 DEF Alike
  <2>7. H[h].ref # -1
    BY <1>3
  <2>8. QED
    BY <2>3, <2>4, <2>5, <2>6, <2>7 DEF K
<1>4. QED
  BY <1>1, <1>2, <1>3

\* incref and decref of a header that survives.
LEMMA AddRefOK ==
  ASSUME NEW H, NEW X \in Tallies, NEW z, HeapOK(H, X, z), NEW h \in Headers, NEW n \in Int,
         Allocated(H, h), h # Always => H[h].ref + n > 0
  PROVE  /\ HeapOK(AddRef(H, h, n), Give(X, h, n), z) /\ Keeps(H, AddRef(H, h, n))
         /\ AddRef(H, h, n) \in Heaps
         /\ \A x \in Headers : Alike(AddRef(H, h, n)[x], H[x])
         /\ \A x \in Headers \ {h} : AddRef(H, h, n)[x] = H[x]
         /\ h # Always => AddRef(H, h, n)[h].ref = H[h].ref + n
         /\ h = Always => AddRef(H, h, n) = H
<1> DEFINE K == AddRef(H, h, n)
           Y == Give(X, h, n)
<1>1. H \in Heaps /\ (h = Always => H[h].ref = -1) /\ (h # Always => H[h].ref \in Nat)
  BY HeapHeader, KindFacts
<1>2. H[h].ref \in Nat => H[h].ref + n \in Nat
  <2>1. H[h].ref \in Nat => h # Always
    BY <1>1
  <2>2. QED
    BY <2>1
<1>3. /\ K \in Heaps
      /\ \A x \in Headers : Alike(K[x], H[x]) /\ K[x].countdown = H[x].countdown
      /\ \A x \in Headers \ {h} : K[x] = H[x]
      /\ h # Always => K[h].ref = H[h].ref + n
      /\ h = Always => K = H
  BY <1>1, <1>2, AddRefFields
<1>4. Y \in Tallies /\ Y[h] = X[h] + n /\ (\A x \in Headers \ {h} : Y[x] = X[x]) /\ (\A x \in Headers : X[x] \in Int)
  BY GiveFacts
<1> HIDE DEF K, Y
<1>5. K[Always] = H[Always]
  BY <1>3, Constants
<1>6. ASSUME NEW x \in Headers \ {Always}
      PROVE  /\ K[x].ref = H[x].ref + Y[x] - X[x]
             /\ Allocated(H, x) => K[x].ref > 0
             /\ ~ Allocated(H, x) => Y[x] = X[x]
  <2>1. H[x].ref \in Nat /\ (Allocated(H, x) => H[x].ref > 0)
    BY KindFacts
  <2>2. CASE x = h
    <3>1. K[h].ref = H[h].ref + n /\ Y[h] = X[h] + n /\ X[h] \in Int
      BY <1>3, <1>4, <2>2
    <3>2. QED
      BY <2>1, <2>2, <3>1
  <2>3. CASE x # h
    <3>1. K[x] = H[x] /\ Y[x] = X[x] /\ X[x] \in Int
      BY <1>3, <1>4, <2>3
    <3>2. QED
      BY <2>1, <3>1
  <2>4. QED
    BY <2>2, <2>3
<1>7. HeapOK(K, Y, z) /\ Keeps(H, K)
  <2> DEFINE D == {}
  <2>1. D \in SUBSET (Headers \ {Always})
    OBVIOUS
  <2>2. \A x \in D : IsResult(H, x) /\ X[x] >= H[x].ref /\ K[x] = DeadHeader /\ Y[x] = 0
    OBVIOUS
  <2>3. \A x \in Headers \ D :
          Alike(K[x], H[x]) /\ (K[x].countdown = H[x].countdown \/ H[x].status = StatusActive + 1)
    BY <1>3
  <2>4. \A x \in Headers \ {Always} : x \notin D =>
           /\ K[x].ref = H[x].ref + Y[x] - X[x]
           /\ Allocated(H, x) => K[x].ref > 0
           /\ ~ Allocated(H, x) => Y[x] = X[x]
    BY <1>6
  <2>5. K \in Heaps /\ Y \in Tallies
    BY <1>3, <1>4
  <2> HIDE DEF D
  <2>6. QED
    BY <1>5, <2>1, <2>2, <2>3, <2>4, <2>5, Release
<1>8. QED
  BY <1>3, <1>7 DEF K, Y

\* Deleting a header to which the operation held all references: the one it
\* held to its result passes to the operation.
BuryTally(H, X, h) ==
  [x \in Headers |-> IF x = h THEN 0 ELSE IF x = H[h].result THEN X[x] + 1 ELSE X[x]]

\* Deleting a header all of whose references are in the hands of the caller keeps the heap whole.
LEMMA BuryOK ==
  ASSUME NEW H, NEW X \in Tallies, NEW z, HeapOK(H, X, z), NEW h \in Headers \ {Always},
         X[h] >= H[h].ref, Allocated(H, h),
         NEW w, (h = z => w = Nil), (h # z => w = z)
  PROVE  LET K == [H EXCEPT ![h] = DeadHeader]
         IN  /\ HeapOK(K, BuryTally(H, X, h), w) /\ BuryTally(H, X, h) \in Tallies /\ K \in Heaps
             /\ K[h] = DeadHeader /\ \A x \in Headers \ {h} : K[x] = H[x]
             /\ IsFree(K) = IsFree(H) /\ Due(K) = Due(H) \ {h}
             /\ h # z => Keeps(H, K)
             /\ H[h].result \in Headers \ {h} => IsResult(K, H[h].result)
<1> DEFINE K == [H EXCEPT ![h] = DeadHeader]
           Y == BuryTally(H, X, h)
<1>1. H \in Heaps
  BY HeapHeader
<1>2. K \in Heaps /\ K[h] = DeadHeader /\ \A x \in Headers \ {h} : K[x] = H[x]
  BY <1>1, HeaderTypes DEF Heaps
<1>3. /\ Y \in Tallies /\ Y[h] = 0
      /\ \A x \in Headers \ {h} : Y[x] = IF x = H[h].result THEN X[x] + 1 ELSE X[x]
      /\ \A x \in Headers : X[x] \in Int
  BY DEF BuryTally, Tallies
<1> HIDE DEF K, Y
<1>4. /\ LinksTo(H, h) = {} /\ OpenTo(H, h) = {} /\ ResultFor(H, h) = {}
      /\ H[h].sucs = <<>> /\ ~ (Unready(H, h) /\ h # z) /\ H[h].body = "none" /\ H[h].deps = <<>>
  BY Unshared DEF Bodiless
<1>5. /\ K[h].kind = "dead" /\ K[h].ref = 0 /\ K[h].status = StatusReady /\ K[h].sucs = <<>>
      /\ K[h].result = Nil /\ K[h].body = "none" /\ K[h].deps = <<>>
  BY <1>2, MadeFields
<1>6. \A x \in Headers : K[x].deps = H[x].deps /\ K[x].sucs = H[x].sucs /\ K[x].body = H[x].body
  BY <1>2, <1>4, <1>5
<1>7. /\ \A x : LinksTo(K, x) = LinksTo(H, x) /\ OpenTo(K, x) = OpenTo(H, x)
      /\ \A x \in Headers : OpenOf(K, x) = OpenOf(H, x)
  BY <1>6, SameBodies
<1>8. /\ ~ Unready(K, h) /\ ~ IsResult(K, h) /\ ~ Allocated(K, h) /\ ~ Proxying(K, h)
      /\ \A x \in Headers \ {h} : /\ Unready(K, x) <=> Unready(H, x)
                                  /\ IsResult(K, x) <=> IsResult(H, x)
                                  /\ Allocated(K, x) <=> Allocated(H, x)
                                  /\ Ready(K, x) <=> Ready(H, x)
                                  /\ Proxying(K, x) <=> Proxying(H, x)
  BY <1>2, <1>5, Constants DEF Unready, IsResult, Allocated, Ready, Proxying,
     StatusReady, StatusProxying, StatusProxyingActive
<1>9. /\ ResultFor(K, h) = {}
      /\ \A x \in Headers \ {h} : ResultFor(K, x) = ResultFor(H, x) \ {h}
  <2>1. \A x, d \in Headers : d \in ResultFor(K, x) <=> d \in ResultFor(H, x) /\ d # h
    BY <1>2, <1>5, Constants DEF ResultFor
  <2>2. \A x \in Headers : ResultFor(K, x) \subseteq Headers /\ ResultFor(H, x) \subseteq Headers
    BY DEF ResultFor
  <2>3. QED
    BY <1>4, <2>1, <2>2
<1>10. ASSUME NEW x \in Headers
       PROVE  HeaderOK(K, x, w)
  <2>1. CASE x = h
    BY <1>2, <1>5, <2>1 DEF HeaderOK, Unready
  <2>2. CASE x # h
    <3>1. HeaderOK(H, x, z) /\ K[x] = H[x]
      BY <1>2, <2>2, HeapHeader
    <3>2. /\ Unready(K, x) <=> Unready(H, x)
          /\ IsResult(K, x) <=> IsResult(H, x)
          /\ Ready(K, x) <=> Ready(H, x)
      BY <1>8, <2>2
    <3>3. Bodiless(K, x) <=> Bodiless(H, x)
      BY <3>1 DEF Bodiless
    <3>4. H[x].kind = "dependent" /\ Ready(H, x) => IsResult(K, H[x].result)
      <4> SUFFICES ASSUME H[x].kind = "dependent", Ready(H, x) PROVE IsResult(K, H[x].result)
        OBVIOUS
      <4>1. H[x].result \in Headers \ {x} /\ IsResult(H, H[x].result)
        BY <3>1 DEF HeaderOK
      <4>2. x \in ResultFor(H, H[x].result)
        BY <4>1 DEF ResultFor
      <4>3. QED
        BY <1>4, <1>8, <4>1, <4>2
    <3>5. BodyOK(H, x) => BodyOK(K, x)
      <4> SUFFICES ASSUME BodyOK(H, x) PROVE BodyOK(K, x)
        OBVIOUS
      <4>1. OpenOf(K, x) = OpenOf(H, x) /\ Proxied(K, x) = Proxied(H, x)
        BY <1>7, <3>1 DEF Proxied
      <4>2. Len(H[x].deps) <= MaxArgs /\ Len(H[x].deps) \in Nat /\ DOMAIN H[x].deps = 1 .. Len(H[x].deps)
        BY <1>1, FieldTypes DEF BodyOK
      <4>3. \A k \in DOMAIN H[x].deps : H[x].deps[k].dep \in Headers \ {h}
        <5> TAKE k \in DOMAIN H[x].deps
        <5>1. H[x].deps[k].dep \in Headers
          BY <1>1, FieldTypes
        <5>2. k \in 1 .. MaxArgs
          BY <4>2, Constants
        <5>3. <<x, k>> \in LinksTo(H, H[x].deps[k].dep)
          BY <5>2 DEF LinksTo, Links, LinkAt
        <5>4. QED
          BY <1>4, <5>1, <5>3
      <4>4. \A k \in DOMAIN K[x].deps : K[x].deps[k].linked \/ IsResult(K, K[x].deps[k].dep)
        BY <1>8, <3>1, <4>3 DEF BodyOK
      <4>5. Len(H[x].deps) = 1 => Proxied(H, x) \in Headers
        BY <1>1, FieldTypes DEF Proxied
      <4>6. ~ Proxying(H, Proxied(H, x)) /\ Proxied(H, x) \in Headers => ~ Proxying(K, Proxied(H, x))
        BY <1>8
      <4>7. QED
        BY <3>1, <4>1, <4>4, <4>5, <4>6 DEF BodyOK
    <3>6. x = w => x = z
      BY Constants
    <3>7. x = z => x = w
      BY <2>2
    <3>8. /\ K[x].kind = "free" => K[x] = FreeHeader
          /\ K[x].kind = "dead" => K[x] = DeadHeader
          /\ K[x].kind = "promise" =>
             /\ K[x].result = x /\ Bodiless(K, x)
             /\ K[x].status = StatusActive + 1 \/ (Ready(K, x) /\ K[x].countdown = 0)
          /\ K[x].kind = "result" => IsResult(K, x) /\ Bodiless(K, x)
      BY <3>1, <3>2, <3>3 DEF HeaderOK
    <3>9. K[x].kind = "dependent" /\ Ready(K, x) =>
             K[x].result \in Headers \ {x} /\ IsResult(K, K[x].result) /\ Bodiless(K, x)
      BY <3>1, <3>2, <3>3, <3>4 DEF HeaderOK
    <3>10. Unready(K, x) =>
             /\ K[x].result = Nil
             /\ IF x = w THEN Bodiless(K, x) /\ K[x].status \in {StatusActive, StatusProxyingActive}
                ELSE BodyOK(K, x)
      BY <3>1, <3>2, <3>3, <3>5, <3>6, <3>7 DEF HeaderOK
    <3>11. QED
      BY <3>8, <3>9, <3>10 DEF HeaderOK
  <2>3. QED
    BY <2>1, <2>2
<1>11. \A x \in Headers : SuccessorsOK(K, x)
  <2> TAKE x \in Headers
  <2>1. SuccessorsOK(H, x) /\ K[x].sucs = H[x].sucs /\ OpenTo(K, x) = OpenTo(H, x)
    BY <1>6, <1>7, HeapHeader
  <2>2. Ready(K, x) => K[x].sucs = <<>>
    BY <1>5, <1>8, <2>1 DEF SuccessorsOK
  <2>3. QED
    BY <2>1, <2>2 DEF SuccessorsOK
<1>12. ASSUME NEW x \in Headers \ {Always}
       PROVE  CountOK(K, Y, w, x)
  <2>1. CASE x = h
    <3>1. Own(K, x, w) = 0
      BY <1>8, <2>1 DEF Own
    <3>2. Cardinality(LinksTo(K, x)) = 0 /\ Cardinality(ResultFor(K, x)) = 0
      BY <1>4, <1>7, <1>9, <2>1, FS_EmptySet
    <3>3. K[x].ref = 0 /\ Y[x] = 0 /\ ~ Allocated(K, x)
      BY <1>3, <1>5, <1>8, <2>1
    <3>4. QED
      BY <3>1, <3>2, <3>3 DEF CountOK
  <2>2. CASE x # h
    <3>1. CountOK(H, X, z, x) /\ K[x] = H[x] /\ LinksTo(K, x) = LinksTo(H, x)
      BY <1>2, <1>7, <2>2, HeapHeader
    <3>2. x = w <=> x = z
      BY <2>2, Constants
    <3>3. Own(K, x, w) = Own(H, x, z) /\ Own(H, x, z) \in Nat
      BY <1>8, <2>2, <3>2 DEF Own
    <3>4. X[x] \in Int /\ Cardinality(LinksTo(H, x)) \in Nat /\ Cardinality(ResultFor(H, x)) \in Nat
          /\ IsFiniteSet(ResultFor(H, x))
      BY <1>3, FiniteCounts
    <3>5. Y[x] + Cardinality(ResultFor(K, x)) = X[x] + Cardinality(ResultFor(H, x))
      <4>1. CASE x = H[h].result
        <5>1. h \in ResultFor(H, x)
          BY <2>2, <4>1 DEF ResultFor
        <5>2. Cardinality(ResultFor(K, x)) = Cardinality(ResultFor(H, x)) - 1
          BY <1>9, <2>2, <3>4, <5>1, FS_RemoveElement
        <5>3. Y[x] = X[x] + 1
          BY <1>3, <2>2, <4>1
        <5>4. QED
          BY <3>4, <5>2, <5>3
      <4>2. CASE x # H[h].result
        <5>1. h \notin ResultFor(H, x)
          BY <4>2 DEF ResultFor
        <5>2. ResultFor(K, x) = ResultFor(H, x)
          BY <1>9, <2>2, <5>1
        <5>3. Y[x] = X[x]
          BY <1>3, <2>2, <4>2
        <5>4. QED
          BY <5>2, <5>3
      <4>3. QED
        BY <4>1, <4>2
    <3>6. Allocated(K, x) <=> Allocated(H, x)
      BY <1>8, <2>2
    <3>7. Y[x] \in Int /\ Cardinality(ResultFor(K, x)) \in Nat
      BY <1>3, FiniteCounts DEF Tallies
    <3>8. H[x].ref = Y[x] + Cardinality(LinksTo(H, x)) + Cardinality(ResultFor(K, x)) + Own(H, x, z)
      BY <3>1, <3>3, <3>4, <3>5, <3>7 DEF CountOK
    <3>9. QED
      BY <3>1, <3>3, <3>6, <3>8 DEF CountOK
  <2>3. QED
    BY <2>1, <2>2
<1>13. K[Always] = H[Always]
  BY <1>2, Constants
<1>14. HeapOK(K, Y, w)
  BY <1>2, <1>10, <1>11, <1>12, <1>13 DEF HeapOK, Heaps
<1>15. IsFree(K) = IsFree(H)
  BY <1>2, <1>5 DEF IsFree, Allocated
<1>16. Due(K) = Due(H) \ {h}
  BY <1>2, <1>8 DEF Due
<1>17. h # z => Keeps(H, K)
  <2>1. ASSUME h # z, NEW x \in Headers, Unready(H, x) \/ Unready(K, x)
        PROVE  Alike(K[x], H[x])
    <3>1. x # h
      BY <1>4, <1>8, <2>1
    <3>2. QED
      BY <1>2, <3>1 DEF Alike
  <2>2. QED
    BY <1>15, <2>1 DEF Keeps
<1>18. H[h].result \in Headers \ {h} => IsResult(K, H[h].result)
  BY <1>8, KindFacts
<1>19. QED
  BY <1>2, <1>3, <1>14, <1>15, <1>16, <1>17, <1>18 DEF K, Y

\* The tally of the_always does not matter.
LEMMA HeapTally ==
  ASSUME NEW H, NEW X, NEW Y, NEW z, HeapOK(H, X, z), \A x \in Headers \ {Always} : Y[x] = X[x]
  PROVE  HeapOK(H, Y, z)
BY DEF HeapOK, CountOK

\* A header keeps its shape when the headers it relies on keep theirs.
LEMMA HeaderFrame ==
  ASSUME NEW H \in Heaps, NEW K, NEW x \in Headers, NEW z, NEW w, HeaderOK(H, x, z), x = w <=> x = z,
         K[x].kind = H[x].kind, K[x].status = H[x].status, K[x].result = H[x].result,
         K[x].body = H[x].body, K[x].deps = H[x].deps, K[x].countdown = H[x].countdown,
         ~ Allocated(H, x) => K[x] = H[x],
         \A k \in DOMAIN H[x].deps : IsResult(H, H[x].deps[k].dep) => IsResult(K, H[x].deps[k].dep),
         H[x].result \in Headers \ {x} /\ IsResult(H, H[x].result) => IsResult(K, H[x].result),
         Unready(H, x) /\ x # z /\ H[x].status = StatusProxying /\ ~ Proxying(H, Proxied(H, x))
           => ~ Proxying(K, Proxied(H, x))
  PROVE  HeaderOK(K, x, w)
<1>1. Bodiless(K, x) <=> Bodiless(H, x)
  BY DEF Bodiless
<1>2. (Ready(K, x) <=> Ready(H, x)) /\ (Unready(K, x) <=> Unready(H, x)) /\ (IsResult(K, x) <=> IsResult(H, x))
  BY DEF Ready, Unready, IsResult
<1>3. ASSUME Unready(H, x), x # z, BodyOK(H, x)
      PROVE  BodyOK(K, x)
  <2>1. OpenOf(K, x) = OpenOf(H, x) /\ Proxied(K, x) = Proxied(H, x)
    BY DEF OpenOf, Proxied
  <2>2. \A k \in DOMAIN K[x].deps : K[x].deps[k].linked \/ IsResult(K, K[x].deps[k].dep)
    BY <1>3 DEF BodyOK
  <2>3. QED
    BY <1>3, <2>1, <2>2 DEF BodyOK
<1>4. /\ K[x].kind = "free" => K[x] = FreeHeader
      /\ K[x].kind = "dead" => K[x] = DeadHeader
  BY DEF HeaderOK, Allocated
<1>5. K[x].kind = "promise" =>
        /\ K[x].result = x /\ Bodiless(K, x)
        /\ K[x].status = StatusActive + 1 \/ (Ready(K, x) /\ K[x].countdown = 0)
  BY <1>1, <1>2 DEF HeaderOK
<1>6. K[x].kind = "result" => IsResult(K, x) /\ Bodiless(K, x)
  BY <1>1, <1>2 DEF HeaderOK
<1>7. K[x].kind = "dependent" /\ Ready(K, x) =>
        K[x].result \in Headers \ {x} /\ IsResult(K, K[x].result) /\ Bodiless(K, x)
  BY <1>1, <1>2 DEF HeaderOK
<1>8. Unready(K, x) =>
        /\ K[x].result = Nil
        /\ IF x = w THEN Bodiless(K, x) /\ K[x].status \in {StatusActive, StatusProxyingActive}
           ELSE BodyOK(K, x)
  BY <1>1, <1>2, <1>3 DEF HeaderOK
<1>9. QED
  BY <1>4, <1>5, <1>6, <1>7, <1>8 DEF HeaderOK

\* dropref of a header that is its own result, or that survives.
LEMMA DropReadyOK ==
  ASSUME NEW H, NEW X \in Tallies, NEW z, HeapOK(H, X, z), NEW h \in Headers, h # z,
         h # Always => X[h] >= 1, H[h].result = h \/ H[h].ref # 1
  PROVE  /\ HeapOK(DropReady(H, h), Give(X, h, -1), z) /\ Keeps(H, DropReady(H, h))
         /\ Give(X, h, -1) \in Tallies
<1>1. H \in Heaps /\ Allocated(H, h)
  <2>1. H \in Heaps
    BY HeapHeader
  <2>2. CASE h = Always
    BY <2>1, <2>2, HeapHeader
  <2>3. CASE h # Always
    <3>1. X[h] \in Int /\ Cardinality(LinksTo(H, h)) \in Nat /\ Cardinality(ResultFor(H, h)) \in Nat
          /\ Own(H, h, z) \in Nat /\ CountOK(H, X, z, h)
      BY <2>3, HeapHeader, FiniteCounts DEF Tallies, Own
    <3>2. H[h].ref > 0
      BY <2>3, <3>1 DEF CountOK
    <3>3. QED
      BY <2>1, <3>1, <3>2 DEF CountOK
  <2>4. QED
    BY <2>2, <2>3
<1>2. Give(X, h, -1) \in Tallies /\ Give(X, h, -1)[h] = X[h] + (-1)
      /\ \A x \in Headers \ {h} : Give(X, h, -1)[x] = X[x]
  BY GiveFacts
<1>3. h = Always => H[h].ref = -1
  BY HeapHeader
<1>4. CASE H[h].ref = 1
  <2>1. h # Always /\ H[h].result = h /\ X[h] >= H[h].ref
    BY <1>3, <1>4
  <2> DEFINE K == [H EXCEPT ![h] = DeadHeader]
  <2>2. HeapOK(K, BuryTally(H, X, h), z) /\ Keeps(H, K)
    BY <1>1, <2>1, BuryOK
  <2>3. X[h] = 1
    BY <1>4, <2>1, Unshared
  <2>4. \A x \in Headers \ {Always} : Give(X, h, -1)[x] = BuryTally(H, X, h)[x]
    BY <1>2, <2>1, <2>3 DEF BuryTally
  <2>5. HeapOK(K, Give(X, h, -1), z)
    BY <2>2, <2>4, HeapTally
  <2>6. DropReady(H, h) = K
    BY <1>4 DEF DropReady
  <2>7. QED
    BY <1>2, <2>2, <2>5, <2>6
<1>5. CASE H[h].ref # 1
  <2>1. h # Always => H[h].ref \in Nat /\ H[h].ref > 0
    BY <1>1, KindFacts
  <2>2. h # Always => H[h].ref + (-1) > 0
    BY <1>5, <2>1
  <2>3. HeapOK(AddRef(H, h, -1), Give(X, h, -1), z) /\ Keeps(H, AddRef(H, h, -1))
    BY <1>1, <2>2, AddRefOK
  <2>4. DropReady(H, h) = AddRef(H, h, -1)
    BY <1>5 DEF DropReady
  <2>5. QED
    BY <1>2, <2>3, <2>4
<1>6. QED
  BY <1>4, <1>5

\* dropref of any header of which the operation holds a reference.
LEMMA DropOK ==
  ASSUME NEW H, NEW X \in Tallies, HeapOK(H, X, Nil), NEW h \in Headers,
         \A x \in Headers \ {Always} : X[x] >= 0, h # Always => X[h] >= 1
  PROVE  /\ HeapOK(Drop(H, h), Give(X, h, -1), Nil) /\ Keeps(H, Drop(H, h))
         /\ Give(X, h, -1) \in Tallies
<1>1. H \in Heaps /\ (h = Always => H[h].ref = -1)
  BY HeapHeader
<1>2. Give(X, h, -1) \in Tallies /\ Give(X, h, -1)[h] = X[h] + (-1)
      /\ \A x \in Headers \ {h} : Give(X, h, -1)[x] = X[x]
  BY GiveFacts
<1>3. CASE H[h].ref = 1 /\ Ready(H, h) /\ H[h].result # h
  <2>1. h # Always /\ X[h] >= H[h].ref /\ Allocated(H, h)
    <3>1. h # Always
      BY <1>1, <1>3
    <3>2. Allocated(H, h)
      BY <1>3, <3>1, HeapHeader DEF CountOK
    <3>3. QED
      BY <1>3, <3>1, <3>2
  <2> DEFINE r == H[h].result
             K == [H EXCEPT ![h] = DeadHeader]
             Y == BuryTally(H, X, h)
  <2>2. r \in Headers \ {h}
    <3>1. H[h].kind \in {"promise", "result", "dependent"}
      BY <1>1, <2>1, FieldTypes DEF Allocated
    <3>2. QED
      BY <1>3, <3>1, HeapHeader DEF HeaderOK, IsResult
  <2>3. HeapOK(K, Y, Nil) /\ Keeps(H, K) /\ Y \in Tallies /\ IsResult(K, r)
    BY <2>1, <2>2, BuryOK, Constants
  <2>4. X[h] = 1
    BY <1>3, <2>1, Unshared
  <2>5. Y[h] = 0 /\ Y[r] = X[r] + 1 /\ \A x \in Headers \ {h, r} : Y[x] = X[x]
    BY <2>2 DEF BuryTally
  <2>6. r # Nil /\ h # Nil
    BY <2>2, Constants
  <2>7. r # Always => Y[r] >= 1
    <3>1. r # Always => X[r] >= 0 /\ X[r] \in Int
      BY <2>2 DEF Tallies
    <3>2. QED
      BY <2>5, <3>1
  <2>8. K[r].result = r
    BY <2>3 DEF IsResult
  <2> HIDE DEF K, Y, r
  <2>9. HeapOK(DropReady(K, r), Give(Y, r, -1), Nil) /\ Keeps(K, DropReady(K, r))
    BY <2>2, <2>3, <2>6, <2>7, <2>8, DropReadyOK
  <2>10. \A x \in Headers \ {Always} : Give(X, h, -1)[x] = Give(Y, r, -1)[x]
    <3>1. Give(Y, r, -1)[r] = Y[r] + (-1) /\ \A x \in Headers \ {r} : Give(Y, r, -1)[x] = Y[x]
      BY <2>2, <2>3, GiveFacts
    <3>2. X[r] \in Int /\ X[h] \in Int
      BY <2>2 DEF Tallies
    <3>3. Give(X, h, -1)[h] = Give(Y, r, -1)[h]
      BY <1>2, <2>2, <2>4, <2>5, <3>1
    <3>4. Give(X, h, -1)[r] = Give(Y, r, -1)[r]
      BY <1>2, <2>2, <2>5, <3>1, <3>2
    <3>5. QED
      BY <1>2, <2>5, <3>1, <3>3, <3>4
  <2>11. HeapOK(DropReady(K, r), Give(X, h, -1), Nil)
    BY <2>9, <2>10, HeapTally
  <2>12. Keeps(H, DropReady(K, r))
    BY <2>3, <2>9, KeepsFacts
  <2>13. Drop(H, h) = DropReady(K, r)
    BY <1>3 DEF Drop, K, r
  <2>14. QED
    BY <1>2, <2>11, <2>12, <2>13
<1>4. CASE ~ (H[h].ref = 1 /\ Ready(H, h) /\ H[h].result # h)
  <2>1. H[h].result = h \/ H[h].ref # 1
    <3> SUFFICES ASSUME H[h].result # h, H[h].ref = 1 PROVE FALSE
      OBVIOUS
    <3>1. h # Always /\ ~ Ready(H, h) /\ X[h] >= H[h].ref
      BY <1>1, <1>4
    <3>2. Allocated(H, h)
      BY <3>1, HeapHeader DEF CountOK
    <3>3. H[h].kind = "dependent"
      BY <1>1, <3>1, <3>2, FieldTypes, HeapHeader DEF HeaderOK, Allocated, IsResult
    <3>4. Unready(H, h)
      BY <3>1, <3>3 DEF Unready
    <3>5. QED
      BY <3>1, <3>4, Unshared, Constants
  <2>2. Drop(H, h) = DropReady(H, h)
    BY <1>4 DEF Drop
  <2>3. h # Nil
    BY Constants
  <2>4. QED
    BY <2>1, <2>2, <2>3, DropReadyOK
<1>5. QED
  BY <1>3, <1>4

\* A header the operation holds, or that a link is waiting on, is allocated.
LEMMA HeldAllocated ==
  ASSUME NEW H, NEW X \in Tallies, NEW z, HeapOK(H, X, z), NEW h \in Headers, h # Always => X[h] >= 1
  PROVE  Allocated(H, h)
<1>1. CASE h = Always
  BY <1>1, HeapHeader
<1>2. CASE h # Always
  <2>1. X[h] \in Int /\ Cardinality(LinksTo(H, h)) \in Nat /\ Cardinality(ResultFor(H, h)) \in Nat
        /\ Own(H, h, z) \in Nat /\ CountOK(H, X, z, h)
    BY <1>2, HeapHeader, FiniteCounts DEF Tallies, Own
  <2>2. H[h].ref > 0
    BY <1>2, <2>1 DEF CountOK
  <2>3. QED
    BY <2>1, <2>2 DEF CountOK
<1>3. QED
  BY <1>1, <1>2

\* drop_for_result of a ready header of which the operation holds a reference.
LEMMA DropForResultOK ==
  ASSUME NEW H, NEW X \in Tallies, NEW z, HeapOK(H, X, z), NEW a \in Headers, a # z, Ready(H, a),
         a # Always => X[a] >= 1
  PROVE  LET b == H[a].result
             K == DropForResult(H, a)
             Y == Give(Give(X, a, -1), b, 1)
         IN  /\ b \in Headers /\ Y \in Tallies
             /\ HeapOK(K, Y, z) /\ Keeps(H, K) /\ IsResult(K, b) /\ IsResult(H, b)
<1> DEFINE b == H[a].result
           K == DropForResult(H, a)
           Z == Give(X, a, -1)
           Y == Give(Z, b, 1)
<1>1. H \in Heaps /\ Allocated(H, a)
  BY HeapHeader, HeldAllocated
<1>2. H[a].kind \in {"promise", "result", "dependent"}
  BY <1>1, FieldTypes DEF Allocated
<1>3. b \in Headers /\ IsResult(H, b) /\ (b = a \/ H[a].kind = "dependent")
  BY <1>2, HeapHeader DEF HeaderOK, IsResult
<1>4. /\ Z \in Tallies /\ Z[a] = X[a] + (-1) /\ (\A x \in Headers \ {a} : Z[x] = X[x])
      /\ \A x \in Headers : X[x] \in Int
  BY GiveFacts
<1>5. /\ Y \in Tallies /\ Y[b] = Z[b] + 1 /\ \A x \in Headers \ {b} : Y[x] = Z[x]
  <2>1. b \in Headers /\ Z \in Tallies /\ 1 \in Int
    BY <1>3, <1>4
  <2> HIDE DEF Z, b
  <2>2. QED
    BY <2>1, GiveFacts
<1>6. CASE a = b
  <2>1. \A x \in Headers \ {Always} : Y[x] = X[x]
    <3>1. Y[a] = X[a]
      BY <1>4, <1>5, <1>6
    <3>2. QED
      BY <1>4, <1>5, <1>6, <3>1
  <2>2. K = H
    BY <1>6 DEF DropForResult
  <2>3. HeapOK(H, Y, z)
    BY <2>1, HeapTally
  <2>4. QED
    BY <1>3, <1>5, <2>2, <2>3, KeepsSame
<1>7. CASE a # b /\ H[a].ref = 1
  <2>1. a # Always
    BY <1>7, HeapHeader
  <2>2. X[a] >= H[a].ref
    BY <1>7, <2>1
  <2> DEFINE J == [H EXCEPT ![a] = DeadHeader]
  <2>3. HeapOK(J, BuryTally(H, X, a), z) /\ Keeps(H, J) /\ IsResult(J, b)
    BY <1>1, <1>3, <1>7, <2>1, <2>2, BuryOK
  <2>4. X[a] = 1
    BY <1>7, <2>1, <2>2, Unshared
  <2>5. \A x \in Headers \ {Always} : Y[x] = BuryTally(H, X, a)[x]
    <3>1. Y[a] = BuryTally(H, X, a)[a]
      BY <1>4, <1>5, <1>7, <2>4 DEF BuryTally
    <3>2. Y[b] = BuryTally(H, X, a)[b]
      BY <1>3, <1>4, <1>5, <1>7 DEF BuryTally
    <3>3. \A x \in Headers \ {a, b} : Y[x] = BuryTally(H, X, a)[x]
      BY <1>4, <1>5 DEF BuryTally
    <3>4. QED
      BY <3>1, <3>2, <3>3
  <2>6. K = J
    BY <1>7 DEF DropForResult
  <2>7. HeapOK(J, Y, z)
    BY <2>3, <2>5, HeapTally
  <2>8. QED
    BY <1>3, <1>5, <2>3, <2>6, <2>7
<1>8. CASE a # b /\ H[a].ref # 1
  <2> DEFINE J == AddRef(H, a, -1)
  <2>1. a # Always => H[a].ref + (-1) > 0
    <3>1. a # Always => H[a].ref \in Nat /\ H[a].ref > 0
      BY <1>1, KindFacts
    <3>2. QED
      BY <1>8, <3>1
  <2>2. HeapOK(J, Z, z) /\ Keeps(H, J) /\ \A x \in Headers : Alike(J[x], H[x])
    BY <1>1, <2>1, AddRefOK
  <2>3. IsResult(J, b)
    BY <1>3, <2>2 DEF IsResult, Alike, Ready
  <2>4. Allocated(J, b) /\ (b # Always => J[b].ref + 1 > 0)
    <3>1. Allocated(J, b) /\ (b # Always => J[b].ref \in Nat)
      BY <1>3, <2>2, <2>3, KindFacts
    <3>2. QED
      BY <3>1
  <2> HIDE DEF J, Z, b
  <2>5. HeapOK(AddRef(J, b, 1), Y, z) /\ Keeps(J, AddRef(J, b, 1))
        /\ \A x \in Headers : Alike(AddRef(J, b, 1)[x], J[x])
    BY <1>3, <1>4, <2>2, <2>4, AddRefOK
  <2>6. K = AddRef(J, b, 1)
    BY <1>8 DEF DropForResult, J, b
  <2>7. IsResult(AddRef(J, b, 1), b)
    BY <1>3, <2>3, <2>5 DEF IsResult, Alike, Ready
  <2>8. QED
    BY <1>3, <1>5, <2>2, <2>5, <2>6, <2>7, KeepsFacts DEF b, Z
<1>9. QED
  BY <1>6, <1>7, <1>8

\* What a proxy stands for.
LEMMA ProxiedFacts ==
  ASSUME NEW H, NEW X, NEW z, HeapOK(H, X, z), NEW a \in Headers, Proxying(H, a), a # z
  PROVE  /\ Unready(H, a) /\ H[a].body = "proxy" /\ Len(H[a].deps) = 1
         /\ Proxied(H, a) \in Headers \ {a} /\ Allocated(H, Proxied(H, a)) /\ ~ Proxying(H, Proxied(H, a))
         /\ <<a, 1>> \in LinksTo(H, Proxied(H, a))
         /\ H[a].status = StatusProxyingActive => IsResult(H, Proxied(H, a))
         /\ H[a].status = StatusProxying => <<a, 1>> \in OpenTo(H, Proxied(H, a)) /\ ~ Ready(H, Proxied(H, a))
         /\ H[a].deps[1].linked <=> H[a].status = StatusProxying
         /\ a \in Headers \ {Always}
<1> DEFINE b == Proxied(H, a)
<1>1. Unready(H, a) /\ BodyOK(H, a) /\ H \in Heaps
  BY KindFacts, HeapHeader
<1>2. H[a].status \in {StatusProxying, StatusProxyingActive}
  BY DEF Proxying
<1>3. Cardinality(OpenOf(H, a)) \in Nat
  <2>1. OpenOf(H, a) \in SUBSET (1 .. Len(H[a].deps)) /\ Len(H[a].deps) \in Nat
    BY <1>1, FieldTypes DEF OpenOf
  <2>2. QED
    BY <2>1, RankFacts
<1>4. H[a].body = "proxy" /\ Len(H[a].deps) = 1
      /\ IF H[a].deps[1].linked THEN H[a].status = StatusProxying /\ ~ Proxying(H, b)
                                ELSE H[a].status = StatusProxyingActive
  BY <1>1, <1>2, <1>3 DEF BodyOK, StatusProxying, StatusProxyingActive
<1>5. a # Always
  BY <1>1, KindFacts, HeapHeader
<1>6. 1 \in DOMAIN H[a].deps /\ b \in Headers
  BY <1>1, <1>4, FieldTypes DEF Proxied
<1>7. <<a, 1>> \in LinksTo(H, b)
  <2>1. <<a, 1>> \in Headers \X (1 .. MaxArgs)
    BY Constants
  <2>2. QED
    BY <1>6, <2>1 DEF LinksTo, Links, LinkAt, Proxied
<1>8. H[a].deps[1].linked \/ IsResult(H, b)
  BY <1>1, <1>6 DEF BodyOK, Proxied
<1>9. H[a].status = StatusProxyingActive => IsResult(H, b)
  BY <1>4, <1>8 DEF StatusProxying, StatusProxyingActive
<1>10. IsResult(H, b) => Allocated(H, b) /\ ~ Proxying(H, b) /\ b # a
  BY <1>1, <1>6, KindFacts
<1>11. ASSUME H[a].deps[1].linked
       PROVE  <<a, 1>> \in OpenTo(H, b) /\ ~ Ready(H, b) /\ Allocated(H, b) /\ b # a
  <2>1. <<a, 1>> \in OpenTo(H, b)
    BY <1>7, <1>11 DEF OpenTo, LinkAt
  <2>2. H[b].sucs # <<>>
    BY <1>6, <2>1, HeapHeader DEF SuccessorsOK, Lists!ToSet
  <2>3. ~ Ready(H, b)
    BY <1>6, <2>2, HeapHeader DEF SuccessorsOK
  <2>4. Allocated(H, b)
    BY <1>6, <2>2, KindFacts
  <2>5. QED
    BY <1>4, <1>11, <2>1, <2>3, <2>4
<1>12. H[a].status = StatusProxying => H[a].deps[1].linked
  BY <1>4 DEF StatusProxying, StatusProxyingActive
<1>13. H[a].deps[1].linked <=> H[a].status = StatusProxying
  BY <1>4, <1>12
<1>14. QED
  BY <1>1, <1>4, <1>5, <1>6, <1>7, <1>8, <1>9, <1>10, <1>11, <1>12, <1>13

\* drop_for_proxied of a proxy of which the operation holds a reference.
LEMMA DropForProxiedOK ==
  ASSUME NEW H, NEW X \in Tallies, NEW z, HeapOK(H, X, z), NEW a \in Headers, a # z, Proxying(H, a),
         X[a] >= 1
  PROVE  LET b == Proxied(H, a)
             K == DropForProxied(H, a)
             Y == Give(Give(X, a, -1), b, 1)
         IN  /\ Y \in Tallies /\ HeapOK(K, Y, z) /\ Keeps(H, K)
             /\ \A x \in Headers : Alike(K[x], H[x])
             /\ \A x \in Headers \ {a, b} : K[x] = H[x]
<1> DEFINE b == Proxied(H, a)
           K == DropForProxied(H, a)
           J == AddRef(H, a, -1)
           Z == Give(X, a, -1)
           Y == Give(Z, b, 1)
<1>1. /\ Unready(H, a) /\ a # Always /\ b \in Headers \ {a} /\ Allocated(H, b) /\ Allocated(H, a)
  <2>1. Unready(H, a) /\ a \in Headers \ {Always} /\ b \in Headers \ {a} /\ Allocated(H, b)
    BY ProxiedFacts
  <2>2. Allocated(H, a)
    BY <2>1, KindFacts
  <2>3. QED
    BY <2>1, <2>2
<1>2. H[a].ref + (-1) > 0
  <2>1. X[a] \in Int /\ Cardinality(LinksTo(H, a)) \in Nat /\ Cardinality(ResultFor(H, a)) \in Nat
        /\ Own(H, a, z) = 1 /\ CountOK(H, X, z, a)
    BY <1>1, HeapHeader, FiniteCounts DEF Tallies, Own
  <2>2. QED
    BY <2>1 DEF CountOK
<1>3. /\ HeapOK(J, Z, z) /\ Keeps(H, J)
      /\ \A x \in Headers : Alike(J[x], H[x])
      /\ \A x \in Headers \ {a} : J[x] = H[x]
  BY <1>1, <1>2, AddRefOK
<1>4. Z \in Tallies
  BY GiveFacts
<1>5. Allocated(J, b) /\ (b # Always => J[b].ref + 1 > 0)
  <2>1. Allocated(J, b)
    BY <1>1, <1>3 DEF Allocated
  <2>2. b # Always => J[b].ref \in Nat
    BY <1>1, <1>3, KindFacts
  <2>3. QED
    BY <2>1, <2>2
<1> HIDE DEF b, J, Z
<1>6. /\ HeapOK(AddRef(J, b, 1), Y, z) /\ Keeps(J, AddRef(J, b, 1))
      /\ \A x \in Headers : Alike(AddRef(J, b, 1)[x], J[x])
      /\ \A x \in Headers \ {b} : AddRef(J, b, 1)[x] = J[x]
  BY <1>1, <1>3, <1>4, <1>5, AddRefOK
<1>7. K = AddRef(J, b, 1)
  BY DEF DropForProxied, J, b
<1>8. Keeps(H, K)
  BY <1>3, <1>6, <1>7, KeepsFacts
<1>9. (\A x \in Headers : Alike(K[x], H[x])) /\ \A x \in Headers \ {a, b} : K[x] = H[x]
  BY <1>3, <1>6, <1>7 DEF Alike
<1>10. Y \in Tallies
  BY <1>1, <1>4, GiveFacts
<1>11. QED
  BY <1>6, <1>7, <1>8, <1>9, <1>10 DEF b, Z

-----------------------------------------------------------------------------
(* Making headers, and destroying bodies                                   *)

\* A header that is made: a promise, a ready result or a dependent.
IsNew(N, h) ==
  N = PromiseHeader(h) \/ N = ResultHeader(h, 1) \/ \E b \in {"then", "all"} : N = DependentHeader(b)

\* Making a header, whose one reference the caller gets, keeps the heap whole.
LEMMA NewOK ==
  ASSUME NEW H, NEW X \in Tallies, NEW z, HeapOK(H, X, z), NEW h \in IsFree(H), X[h] >= 0, h # z,
         NEW N, IsNew(N, h)
  PROVE  LET K == [H EXCEPT ![h] = N]
         IN  /\ HeapOK(K, Give(X, h, 1), z) /\ K \in Heaps /\ Give(X, h, 1) \in Tallies
             /\ K[h] = N /\ \A x \in Headers \ {h} : K[x] = H[x]
             /\ IsFree(K) = IsFree(H) \ {h} /\ h \in Headers \ {Always}
             /\ X[h] = 0 /\ H[h] = FreeHeader
<1> DEFINE K == [H EXCEPT ![h] = N]
           Y == Give(X, h, 1)
<1>1. H \in Heaps /\ h \in Headers /\ H[h].kind = "free" /\ H[h] = FreeHeader
  <2>1. h \in Headers /\ H[h].kind = "free"
    BY DEF IsFree
  <2>2. QED
    BY <2>1, HeapHeader DEF HeaderOK
<1>2. h # Always /\ H[h].ref = 0
  BY <1>1, KindFacts DEF Allocated
<1>3. /\ X[h] = 0 /\ LinksTo(H, h) = {} /\ OpenTo(H, h) = {} /\ ResultFor(H, h) = {}
  <2>1. X[h] >= H[h].ref /\ h \in Headers \ {Always}
    BY <1>1, <1>2
  <2>2. QED
    BY <1>2, <2>1, Unshared
<1>4. N \in HeaderType
  <2>1. 1 \in Nat \cup {-1}
    OBVIOUS
  <2>2. QED
    BY <1>1, <2>1, HeaderTypes DEF IsNew
<1>5. K \in Heaps /\ K[h] = N /\ \A x \in Headers \ {h} : K[x] = H[x]
  BY <1>1, <1>4 DEF Heaps
<1>6. Y \in Tallies /\ Y[h] = 1 /\ (\A x \in Headers \ {h} : Y[x] = X[x])
  BY <1>1, <1>3, GiveFacts
<1>7. /\ N.sucs = <<>> /\ N.deps = <<>> /\ N.kind \in {"promise", "result", "dependent"}
      /\ N.kind = "promise" => N.result = h /\ N.status = StatusActive + 1 /\ N.body = "none" /\ N.ref = 1
      /\ N.kind = "result" => N.result = h /\ N.status = StatusReady /\ N.body = "none" /\ N.ref = 1
      /\ N.kind = "dependent" => /\ N.result = Nil /\ N.status = StatusActive /\ N.body \in {"then", "all"}
                                 /\ N.ref = 2
  BY MadeFields DEF IsNew
<1> HIDE DEF K, Y
<1>8. H[h].deps = <<>> /\ H[h].sucs = <<>> /\ H[h].result = Nil /\ H[h].body = "none"
  BY <1>1, MadeFields
<1>9. \A x \in Headers : K[x].deps = H[x].deps /\ K[x].sucs = H[x].sucs
  BY <1>5, <1>7, <1>8
<1>10. /\ \A x : LinksTo(K, x) = LinksTo(H, x) /\ OpenTo(K, x) = OpenTo(H, x)
       /\ \A x \in Headers : OpenOf(K, x) = OpenOf(H, x)
  BY <1>9, SameBodies
<1>11. \A x \in Headers : ResultFor(K, x) = ResultFor(H, x)
  <2>1. h \notin ResultFor(K, h) /\ \A x \in Headers \ {h} : h \notin ResultFor(K, x)
    BY <1>5, <1>7, Constants DEF ResultFor
  <2>2. \A x \in Headers : h \notin ResultFor(H, x)
    BY <1>8, Constants DEF ResultFor
  <2>3. \A x, d \in Headers : d # h => (d \in ResultFor(K, x) <=> d \in ResultFor(H, x))
    BY <1>5 DEF ResultFor
  <2>4. \A x : ResultFor(K, x) \subseteq Headers /\ ResultFor(H, x) \subseteq Headers
    BY DEF ResultFor
  <2>5. QED
    BY <2>1, <2>2, <2>3, <2>4
<1>12. /\ \A x \in Headers \ {h} : /\ IsResult(H, x) => IsResult(K, x)
                                   /\ Proxying(K, x) <=> Proxying(H, x)
                                   /\ Unready(K, x) <=> Unready(H, x)
                                   /\ Allocated(K, x) <=> Allocated(H, x)
       /\ ~ IsResult(H, h) /\ Allocated(K, h) /\ ~ Proxying(K, h)
  <2>1. ~ IsResult(H, h)
    BY <1>1, <1>8, Constants DEF IsResult
  <2>2. ~ Proxying(K, h)
    BY <1>5, <1>7 DEF Proxying, StatusActive, StatusReady, StatusProxying, StatusProxyingActive
  <2>3. QED
    BY <1>5, <1>7, <2>1, <2>2 DEF IsResult, Proxying, Ready, Unready, Allocated
<1>13. ASSUME NEW x \in Headers
       PROVE  HeaderOK(K, x, z)
  <2>1. CASE x = h
    <3>1. K[x].kind = "dependent" => BodyOK(K, x) /\ ~ Ready(K, x)
      <4> SUFFICES ASSUME K[x].kind = "dependent" PROVE BodyOK(K, x) /\ ~ Ready(K, x)
        OBVIOUS
      <4>1. K[x].deps = <<>> /\ K[x].body \in {"then", "all"} /\ K[x].status = StatusActive
        BY <1>5, <1>7, <2>1
      <4>2. Len(K[x].deps) = 0 /\ DOMAIN K[x].deps = {} /\ OpenOf(K, x) = {}
        BY <4>1 DEF OpenOf
      <4>3. Cardinality(OpenOf(K, x)) = 0
        BY <4>2, FS_EmptySet
      <4>4. Len(K[x].deps) <= MaxArgs
        BY <4>2, Constants
      <4>5. QED
        BY <4>1, <4>2, <4>3, <4>4 DEF BodyOK, Ready, StatusActive, StatusReady
    <3>2. Bodiless(K, x) \/ K[x].kind = "dependent"
      BY <1>5, <1>7, <2>1 DEF Bodiless
    <3>3. QED
      BY <1>5, <1>7, <2>1, <3>1, <3>2 DEF HeaderOK, IsResult, Ready, Unready
  <2>2. CASE x # h
    <3>1. HeaderOK(H, x, z) /\ K[x] = H[x]
      BY <1>5, <2>2, HeapHeader
    <3>2. \A k \in DOMAIN H[x].deps : IsResult(H, H[x].deps[k].dep) => IsResult(K, H[x].deps[k].dep)
      BY <1>1, <1>12, FieldTypes
    <3>3. H[x].result \in Headers \ {x} /\ IsResult(H, H[x].result) => IsResult(K, H[x].result)
      BY <1>12
    <3>4. Unready(H, x) /\ x # z /\ H[x].status = StatusProxying /\ ~ Proxying(H, Proxied(H, x))
           => ~ Proxying(K, Proxied(H, x))
      <4> SUFFICES ASSUME Unready(H, x), x # z, H[x].status = StatusProxying, ~ Proxying(H, Proxied(H, x))
                   PROVE  ~ Proxying(K, Proxied(H, x))
        OBVIOUS
      <4>1. Proxied(H, x) \in Headers
        <5>1. Proxying(H, x)
          BY DEF Proxying
        <5>2. QED
          BY <5>1, ProxiedFacts
      <4>2. QED
        BY <1>12, <4>1
    <3>5. QED
      BY <1>1, <3>1, <3>2, <3>3, <3>4, HeaderFrame
  <2>3. QED
    BY <2>1, <2>2
<1>14. \A x \in Headers : SuccessorsOK(K, x)
  <2> TAKE x \in Headers
  <2>1. SuccessorsOK(H, x) /\ K[x].sucs = H[x].sucs /\ OpenTo(K, x) = OpenTo(H, x)
    BY <1>9, <1>10, HeapHeader
  <2>2. Ready(K, x) => K[x].sucs = <<>>
    BY <1>5, <1>7, <2>1 DEF SuccessorsOK, Ready
  <2>3. QED
    BY <2>1, <2>2 DEF SuccessorsOK
<1>15. ASSUME NEW x \in Headers \ {Always}
       PROVE  CountOK(K, Y, z, x)
  <2>1. CASE x = h
    <3>1. Cardinality(LinksTo(K, x)) = 0 /\ Cardinality(ResultFor(K, x)) = 0
      BY <1>3, <1>10, <1>11, <2>1, FS_EmptySet
    <3>2. Own(K, x, z) = (IF K[x].kind = "dependent" THEN 1 ELSE 0)
      BY <1>5, <1>7, <2>1 DEF Own, Unready, Ready, StatusActive, StatusReady
    <3>3. K[x].ref = (IF K[x].kind = "dependent" THEN 2 ELSE 1)
      BY <1>5, <1>7, <2>1
    <3>4. Y[x] = 1 /\ Allocated(K, x)
      BY <1>6, <1>12, <2>1
    <3>5. QED
      BY <3>1, <3>2, <3>3, <3>4 DEF CountOK
  <2>2. CASE x # h
    <3>1. CountOK(H, X, z, x) /\ K[x] = H[x] /\ LinksTo(K, x) = LinksTo(H, x)
          /\ ResultFor(K, x) = ResultFor(H, x) /\ Y[x] = X[x]
      BY <1>5, <1>6, <1>10, <1>11, <2>2, HeapHeader
    <3>2. Own(K, x, z) = Own(H, x, z) /\ (Allocated(K, x) <=> Allocated(H, x))
      BY <1>12, <2>2 DEF Own
    <3>3. QED
      BY <3>1, <3>2 DEF CountOK
  <2>3. QED
    BY <2>1, <2>2
<1>16. K[Always] = H[Always]
  BY <1>2, <1>5, Constants
<1>17. HeapOK(K, Y, z)
  BY <1>5, <1>13, <1>14, <1>15, <1>16 DEF HeapOK, Heaps
<1>18. IsFree(K) = IsFree(H) \ {h}
  BY <1>5, <1>7 DEF IsFree
<1>19. QED
  BY <1>1, <1>2, <1>3, <1>5, <1>6, <1>17, <1>18 DEF K, Y

\* The free header that is taken next.
LEMMA NewHeaderFree ==
  ASSUME NEW H, IsFree(H) # {}
  PROVE  NewHeader(H) \in IsFree(H)
<1>1. IsFree(H) \in SUBSET Nat
  BY Constants DEF IsFree
<1>2. \E h \in IsFree(H) : \A g \in IsFree(H) : h <= g
  BY <1>1, LeastNat
<1>3. QED
  BY <1>2 DEF NewHeader

\* The links of one header are as many as their numbers.
LEMMA PairImage ==
  ASSUME NEW h, NEW S, IsFiniteSet(S)
  PROVE  IsFiniteSet({<<h, k>> : k \in S}) /\ Cardinality({<<h, k>> : k \in S}) = Cardinality(S)
<1> DEFINE T == {<<h, k>> : k \in S}
           f == [k \in S |-> <<h, k>>]
<1>1. f \in Bijection(S, T)
  <2>1. f \in [S -> T]
    OBVIOUS
  <2>2. \A a, b \in S : f[a] = f[b] => a = b
    OBVIOUS
  <2>3. \A t \in T : \E a \in S : f[a] = t
    OBVIOUS
  <2>4. QED
    BY <2>1, <2>2, <2>3 DEF Bijection, Injection, Surjection, IsInjective
<1>2. ExistsBijection(S, T)
  BY <1>1 DEF ExistsBijection
<1>3. QED
  BY <1>2, FS_Bijection

\* The body of h is destroyed.
Cleared(H, h) == [H EXCEPT ![h].body = "none", ![h].deps = <<>>]

\* How often the body of h holds x.
Args(H, h, x) == {k \in DOMAIN H[h].deps : H[h].deps[k].dep = x}
Held(H, h, x) == Cardinality(Args(H, h, x))

\* Destroying a body changes the body and its dependencies only.
LEMMA ClearedFields ==
  ASSUME NEW H \in Heaps, NEW h \in Headers
  PROVE  /\ Cleared(H, h) \in Heaps
         /\ \A x \in Headers \ {h} : Cleared(H, h)[x] = H[x]
         /\ Cleared(H, h)[h].body = "none" /\ Cleared(H, h)[h].deps = <<>>
         /\ Cleared(H, h)[h].kind = H[h].kind /\ Cleared(H, h)[h].ref = H[h].ref
         /\ Cleared(H, h)[h].status = H[h].status /\ Cleared(H, h)[h].sucs = H[h].sucs
         /\ Cleared(H, h)[h].result = H[h].result /\ Cleared(H, h)[h].countdown = H[h].countdown
<1> DEFINE A == [H EXCEPT ![h].body = "none"]
           r == [H[h] EXCEPT !.body = "none"]
           q == [r EXCEPT !.deps = <<>>]
<1>1. H[h] \in HeaderType
  BY DEF Heaps
<1>2. /\ r \in HeaderType /\ r.body = "none" /\ r.kind = H[h].kind /\ r.ref = H[h].ref /\ r.status = H[h].status
      /\ r.sucs = H[h].sucs /\ r.result = H[h].result /\ r.deps = H[h].deps /\ r.countdown = H[h].countdown
  BY <1>1 DEF HeaderType
<1>3. A \in Heaps /\ A[h] = r /\ \A x \in Headers \ {h} : A[x] = H[x]
  BY <1>2 DEF Heaps
<1> HIDE DEF A, r
<1>4. /\ q \in HeaderType /\ q.body = "none" /\ q.kind = H[h].kind /\ q.ref = H[h].ref /\ q.status = H[h].status
      /\ q.sucs = H[h].sucs /\ q.result = H[h].result /\ q.deps = <<>> /\ q.countdown = H[h].countdown
  <2>1. <<>> \in Seq([dep : Headers, linked : BOOLEAN])
    BY EmptySeq
  <2>2. QED
    BY <1>2, <2>1 DEF HeaderType
<1>5. Cleared(H, h) = [A EXCEPT ![h].deps = <<>>]
  BY Zenon DEF Cleared, A
<1>6. [A EXCEPT ![h].deps = <<>>] = [A EXCEPT ![h] = q]
  BY <1>3
<1>7. Cleared(H, h) \in Heaps /\ Cleared(H, h)[h] = q /\ \A x \in Headers \ {h} : Cleared(H, h)[x] = A[x]
  <2> HIDE DEF q
  <2>1. QED
    BY <1>3, <1>4, <1>5, <1>6 DEF Heaps
<1>8. QED
  <2> HIDE DEF q
  <2>1. QED
    BY <1>3, <1>4, <1>7

\* How often a body holds a header is a number.
LEMMA HeldFacts ==
  ASSUME NEW H \in Heaps, NEW h \in Headers, NEW x
  PROVE  IsFiniteSet(Args(H, h, x)) /\ Held(H, h, x) \in Nat /\ (Held(H, h, x) = 0 <=> Args(H, h, x) = {})
<1>1. Args(H, h, x) \in SUBSET (1 .. Len(H[h].deps)) /\ Len(H[h].deps) \in Nat
  BY FieldTypes DEF Args
<1>2. IsFiniteSet(Args(H, h, x)) /\ Held(H, h, x) \in Nat
  BY <1>1, RankFacts DEF Held
<1>3. QED
  BY <1>2, FS_EmptySet DEF Held

\* The references of a destroyed body, and the one the dependent carried,
\* pass to the operation.
DetachTally(H, X, h) ==
  [x \in Headers |-> X[x] + Held(H, h, x) + (IF x = h THEN 1 ELSE 0)]

\* A body all of whose links are resolved can be taken off its header: its references, and the one
\* that the header carries, are in the hands of the caller.
LEMMA DetachOK ==
  ASSUME NEW H, NEW X \in Tallies, HeapOK(H, X, Nil), NEW h \in Headers, Unready(H, h), OpenOf(H, h) = {}
  PROVE  /\ HeapOK(Cleared(H, h), DetachTally(H, X, h), h) /\ DetachTally(H, X, h) \in Tallies
         /\ h # Always /\ Unready(Cleared(H, h), h) /\ Due(Cleared(H, h)) = Due(H)
         /\ H[h].status \in {StatusActive, StatusProxyingActive}
         /\ \A k \in DOMAIN H[h].deps : IsResult(H, H[h].deps[k].dep)
<1> DEFINE K == Cleared(H, h)
           Y == DetachTally(H, X, h)
<1>1. H \in Heaps /\ HeaderOK(H, h, Nil) /\ h # Nil /\ BodyOK(H, h) /\ h # Always
  BY HeapHeader, Constants, KindFacts
<1>2. /\ K \in Heaps
      /\ \A x \in Headers \ {h} : K[x] = H[x]
      /\ K[h].body = "none" /\ K[h].deps = <<>>
      /\ K[h].kind = H[h].kind /\ K[h].ref = H[h].ref
      /\ K[h].status = H[h].status /\ K[h].sucs = H[h].sucs
      /\ K[h].result = H[h].result /\ K[h].countdown = H[h].countdown
  BY <1>1, ClearedFields
<1>3. Y \in Tallies /\ \A x \in Headers : Y[x] = X[x] + Held(H, h, x) + (IF x = h THEN 1 ELSE 0)
  BY <1>1, HeldFacts DEF DetachTally, Tallies
<1> HIDE DEF K, Y
<1>4. \A k \in DOMAIN H[h].deps : ~ H[h].deps[k].linked /\ IsResult(H, H[h].deps[k].dep)
  BY <1>1 DEF BodyOK, OpenOf
<1>5. H[h].status \in {StatusActive, StatusProxyingActive}
  <2>1. Cardinality(OpenOf(H, h)) = 0
    BY FS_EmptySet
  <2>2. Len(H[h].deps) = 1 => ~ H[h].deps[1].linked
    BY <1>1, <1>4, FieldTypes
  <2>3. QED
    BY <1>1, <2>1, <2>2 DEF BodyOK, StatusActive
<1>6. \A x \in Headers : /\ Unready(K, x) <=> Unready(H, x)
                         /\ Ready(K, x) <=> Ready(H, x)
                         /\ IsResult(K, x) <=> IsResult(H, x)
                         /\ Proxying(K, x) <=> Proxying(H, x)
                         /\ Allocated(K, x) <=> Allocated(H, x)
                         /\ K[x].sucs = H[x].sucs /\ K[x].ref = H[x].ref
                         /\ K[x].status = H[x].status /\ K[x].result = H[x].result
  BY <1>2 DEF Unready, Ready, IsResult, Proxying, Allocated
<1>7. \A x : ResultFor(K, x) = ResultFor(H, x)
  BY <1>6 DEF ResultFor
<1>8. DOMAIN K[h].deps = {}
  BY <1>2
<1>9. \A l : l \in Links(K) <=> l \in Links(H) /\ l[1] # h
  BY <1>2, <1>8 DEF Links
<1>10. \A l \in Links(K) : LinkAt(K, l) = LinkAt(H, l)
  BY <1>2, <1>9, LinkParts DEF LinkAt
<1>11. \A x : /\ LinksTo(H, x) = LinksTo(K, x) \cup {<<h, k>> : k \in Args(H, h, x)}
              /\ LinksTo(K, x) \cap {<<h, k>> : k \in Args(H, h, x)} = {}
  <2> TAKE x
  <2>1. \A l \in LinksTo(K, x) : l \in LinksTo(H, x) /\ l[1] # h
    BY <1>9, <1>10 DEF LinksTo
  <2>2. ASSUME NEW l \in LinksTo(H, x), l \notin LinksTo(K, x)
        PROVE  l \in {<<h, k>> : k \in Args(H, h, x)}
    <3>1. l \in Links(H) /\ LinkAt(H, l).dep = x
      BY <2>2 DEF LinksTo
    <3>2. l[1] = h
      BY <1>9, <1>10, <2>2, <3>1 DEF LinksTo
    <3>3. l = <<h, l[2]>> /\ l[2] \in DOMAIN H[h].deps
      BY <3>1, <3>2, LinkParts
    <3>4. l[2] \in Args(H, h, x)
      BY <3>1, <3>2, <3>3 DEF Args, LinkAt
    <3>5. QED
      BY <3>3, <3>4
  <2>3. ASSUME NEW k \in Args(H, h, x)
        PROVE  <<h, k>> \in LinksTo(H, x)
    <3>1. k \in DOMAIN H[h].deps /\ H[h].deps[k].dep = x
      BY <2>3 DEF Args
    <3>2. k \in 1 .. MaxArgs
      BY <1>1, <3>1, FieldTypes, Constants DEF BodyOK
    <3>3. QED
      BY <3>1, <3>2 DEF LinksTo, Links, LinkAt
  <2>4. QED
    BY <2>1, <2>2, <2>3
<1>12. \A x : OpenTo(K, x) = OpenTo(H, x)
  <2> TAKE x
  <2>1. \A l \in OpenTo(H, x) : l \in OpenTo(K, x)
    <3> TAKE l \in OpenTo(H, x)
    <3>1. l \in LinksTo(H, x) /\ LinkAt(H, l).linked
      BY DEF OpenTo
    <3>2. l \in Links(H)
      BY <3>1 DEF LinksTo
    <3>3. l[1] # h
      BY <1>4, <3>1, <3>2, LinkParts DEF LinkAt
    <3>4. QED
      BY <1>9, <1>10, <3>1, <3>2, <3>3 DEF OpenTo, LinksTo
  <2>2. \A l \in OpenTo(K, x) : l \in OpenTo(H, x)
    BY <1>9, <1>10 DEF OpenTo, LinksTo
  <2>3. QED
    BY <2>1, <2>2
<1>13. ASSUME NEW x \in Headers
       PROVE  HeaderOK(K, x, h)
  <2>1. CASE x = h
    <3>1. Unready(K, h) /\ K[h].result = Nil /\ Bodiless(K, h) /\ K[h].kind = "dependent" /\ ~ Ready(K, h)
      BY <1>1, <1>2, <1>6 DEF Bodiless, HeaderOK, Unready
    <3>2. QED
      BY <1>2, <1>5, <2>1, <3>1 DEF HeaderOK
  <2>2. CASE x # h
    <3>1. HeaderOK(H, x, Nil) /\ K[x] = H[x]
      BY <1>2, <2>2, HeapHeader
    <3>2. \A k \in DOMAIN H[x].deps : IsResult(H, H[x].deps[k].dep) => IsResult(K, H[x].deps[k].dep)
      BY <1>1, <1>6, FieldTypes
    <3>3. H[x].result \in Headers \ {x} /\ IsResult(H, H[x].result) => IsResult(K, H[x].result)
      BY <1>6
    <3>4. Unready(H, x) /\ x # Nil /\ H[x].status = StatusProxying /\ ~ Proxying(H, Proxied(H, x))
           => ~ Proxying(K, Proxied(H, x))
      <4> SUFFICES ASSUME Unready(H, x), H[x].status = StatusProxying, ~ Proxying(H, Proxied(H, x)), x # Nil
                   PROVE  ~ Proxying(K, Proxied(H, x))
        OBVIOUS
      <4>1. Proxied(H, x) \in Headers
        <5>1. Proxying(H, x)
          BY DEF Proxying
        <5>2. QED
          BY <5>1, ProxiedFacts
      <4>2. QED
        BY <1>6, <4>1
    <3>5. x = h <=> x = Nil
      BY <2>2, Constants
    <3>6. QED
      BY <1>1, <3>1, <3>2, <3>3, <3>4, <3>5, HeaderFrame
  <2>3. QED
    BY <2>1, <2>2
<1>14. \A x \in Headers : SuccessorsOK(K, x)
  BY <1>6, <1>12, HeapHeader DEF SuccessorsOK
<1>15. ASSUME NEW x \in Headers \ {Always}
       PROVE  CountOK(K, Y, h, x)
  <2> DEFINE P == {<<h, k>> : k \in Args(H, h, x)}
             a == Cardinality(LinksTo(H, x))
             b == Cardinality(LinksTo(K, x))
             c == Held(H, h, x)
             r == Cardinality(ResultFor(H, x))
  <2>1. CountOK(H, X, Nil, x)
    BY HeapHeader
  <2>2. IsFiniteSet(P) /\ Cardinality(P) = c /\ c \in Nat
    <3> DEFINE S == Args(H, h, x)
    <3>1. IsFiniteSet(S) /\ c = Cardinality(S) /\ c \in Nat
      BY <1>1, HeldFacts DEF Held
    <3>2. P = {<<h, k>> : k \in S}
      OBVIOUS
    <3> HIDE DEF S, P, c
    <3>3. IsFiniteSet({<<h, k>> : k \in S}) /\ Cardinality({<<h, k>> : k \in S}) = Cardinality(S)
      BY <3>1, PairImage
    <3>4. QED
      BY <3>1, <3>2, <3>3
  <2>3. a = b + c /\ a \in Nat /\ b \in Nat
    <3>1. IsFiniteSet(LinksTo(K, x)) /\ a \in Nat /\ b \in Nat
      BY FiniteCounts
    <3>2. LinksTo(H, x) = LinksTo(K, x) \cup P /\ LinksTo(K, x) \cap P = {}
      BY <1>11
    <3>3. Cardinality(LinksTo(K, x) \cap P) = 0
      BY <3>2, FS_EmptySet
    <3> HIDE DEF P, c
    <3>4. a = b + c - 0
      BY <2>2, <3>1, <3>2, <3>3, FS_Union
    <3>5. QED
      BY <2>2, <3>1, <3>4
  <2>4. Own(H, x, Nil) = Own(K, x, h) + (IF x = h THEN 1 ELSE 0) /\ Own(K, x, h) \in Nat
    BY <1>6, Constants DEF Own
  <2>5. r \in Nat /\ X[x] \in Int /\ Y[x] = X[x] + c + (IF x = h THEN 1 ELSE 0)
    BY <1>3, FiniteCounts DEF Tallies
  <2>6. H[x].ref = X[x] + a + r + Own(H, x, Nil)
    BY <2>1 DEF CountOK
  <2> HIDE DEF a, b, c, r
  <2>7. H[x].ref = Y[x] + b + r + Own(K, x, h)
    BY <2>2, <2>3, <2>4, <2>5, <2>6
  <2>8. QED
    BY <1>6, <1>7, <2>1, <2>7 DEF CountOK, b, r
<1>16. K[Always] = H[Always]
  BY <1>1, <1>2, Constants
<1>17. HeapOK(K, Y, h)
  BY <1>2, <1>13, <1>14, <1>15, <1>16 DEF HeapOK, Heaps
<1>18. Due(K) = Due(H) /\ Unready(K, h)
  BY <1>6 DEF Due
<1>19. QED
  BY <1>1, <1>3, <1>4, <1>5, <1>17, <1>18 DEF K, Y

\* What ~future_dependency for every argument does to the headers it releases.
LEMMA DropDepsFields ==
  ASSUME NEW H \in Heaps, NEW h \in Headers,
         \A x \in Headers : Held(H, h, x) > 0 /\ H[x].ref >= 0 => H[x].ref >= Held(H, h, x)
  PROVE  /\ DropDeps(H, h) \in Heaps
         /\ \A x \in Headers :
              /\ Held(H, h, x) = 0 \/ H[x].ref < 0 => DropDeps(H, h)[x] = H[x]
              /\ Held(H, h, x) # 0 /\ H[x].ref >= 0 /\ H[x].ref = Held(H, h, x) =>
                   DropDeps(H, h)[x] = DeadHeader
              /\ Held(H, h, x) # 0 /\ H[x].ref >= 0 /\ H[x].ref # Held(H, h, x) =>
                   /\ Alike(DropDeps(H, h)[x], H[x]) /\ DropDeps(H, h)[x].countdown = H[x].countdown
                   /\ DropDeps(H, h)[x].ref = H[x].ref - Held(H, h, x)
<1> DEFINE K == DropDeps(H, h)
<1>1. /\ DOMAIN K = Headers
      /\ \A x \in Headers : K[x] = IF Held(H, h, x) = 0 \/ H[x].ref < 0 THEN H[x]
                                   ELSE IF H[x].ref = Held(H, h, x) THEN DeadHeader
                                   ELSE [H[x] EXCEPT !.ref = @ - Held(H, h, x)]
      /\ K = [x \in Headers |-> K[x]]
  BY DEF DropDeps, Held, Args
<1> HIDE DEF K
<1>2. ASSUME NEW x \in Headers
      PROVE  /\ K[x] \in HeaderType
             /\ Held(H, h, x) = 0 \/ H[x].ref < 0 => K[x] = H[x]
             /\ Held(H, h, x) # 0 /\ H[x].ref >= 0 /\ H[x].ref = Held(H, h, x) => K[x] = DeadHeader
             /\ Held(H, h, x) # 0 /\ H[x].ref >= 0 /\ H[x].ref # Held(H, h, x) =>
                  /\ Alike(K[x], H[x]) /\ K[x].countdown = H[x].countdown
                  /\ K[x].ref = H[x].ref - Held(H, h, x)
  <2>1. H[x] \in HeaderType /\ H[x].ref \in Nat \cup {-1} /\ Held(H, h, x) \in Nat
    BY FieldTypes, HeldFacts DEF Heaps
  <2>2. CASE Held(H, h, x) = 0 \/ H[x].ref < 0
    <3>1. K[x] = H[x]
      BY <1>1, <2>2
    <3>2. QED
      BY <2>1, <2>2, <3>1
  <2>3. CASE Held(H, h, x) # 0 /\ H[x].ref >= 0 /\ H[x].ref = Held(H, h, x)
    <3>1. K[x] = DeadHeader
      BY <1>1, <2>1, <2>3
    <3>2. QED
      BY <2>1, <2>3, <3>1, HeaderTypes
  <2>4. CASE Held(H, h, x) # 0 /\ H[x].ref >= 0 /\ H[x].ref # Held(H, h, x)
    <3> DEFINE n == Held(H, h, x)
               r == [H[x] EXCEPT !.ref = @ - n]
    <3>1. K[x] = r
      BY <1>1, <2>1, <2>4
    <3>2. n \in Nat /\ n > 0 /\ H[x].ref \in Nat /\ H[x].ref >= n
      BY <2>1, <2>4
    <3> HIDE DEF n
    <3>3. r \in HeaderType
      <4> DEFINE m == H[x].ref - n
      <4>1. m \in Nat
        BY <3>2
      <4>2. r = [H[x] EXCEPT !.ref = m]
        OBVIOUS
      <4> HIDE DEF m
      <4>3. QED
        BY <2>1, <4>1, <4>2 DEF HeaderType
    <3>4. Alike(r, H[x]) /\ r.countdown = H[x].countdown /\ r.ref = H[x].ref - n
      BY <2>1 DEF Alike, HeaderType
    <3>5. QED
      <4>1. ~ (Held(H, h, x) = 0 \/ H[x].ref < 0)
        BY <2>1, <2>4
      <4>2. QED
        BY <2>4, <3>1, <3>3, <3>4, <4>1 DEF n
  <2>5. QED
    BY <2>1, <2>2, <2>3, <2>4
<1>3. K \in Heaps
  <2>1. [x \in Headers |-> K[x]] \in [Headers -> HeaderType]
    BY <1>2
  <2>2. QED
    BY <1>1, <2>1 DEF Heaps
<1>4. QED
  BY <1>2, <1>3 DEF K

\* leave_active destroys the body of h, whose arguments are all ready.
LEMMA DropDepsOK ==
  ASSUME NEW H, NEW X \in Tallies, HeapOK(H, X, Nil), NEW h \in Headers, Unready(H, h), OpenOf(H, h) = {},
         \A x \in Headers \ {Always} : X[x] >= 0
  PROVE  LET K == Cleared(DropDeps(H, h), h)
         IN  /\ HeapOK(K, Give(X, h, 1), h) /\ Give(X, h, 1) \in Tallies /\ K \in Heaps
             /\ DropDeps(H, h) \in Heaps /\ DropDeps(H, h)[h] = H[h]
             /\ IsFree(K) = IsFree(H) /\ Due(K) = Due(H) /\ h \in Headers \ {Always}
             /\ \A x \in Headers \ {h} : Unready(H, x) \/ Unready(K, x) => Alike(K[x], H[x])
             /\ Unready(K, h) /\ K[h].ref = H[h].ref /\ K[h].sucs = H[h].sucs /\ K[h].status = H[h].status
<1> DEFINE J == Cleared(H, h)
           Z == DetachTally(H, X, h)
           D0 == DropDeps(H, h)
           K == Cleared(D0, h)
           Y == Give(X, h, 1)
<1>1. H \in Heaps /\ h # Nil
  BY HeapHeader, Constants
<1>2. /\ HeapOK(J, Z, h) /\ Z \in Tallies /\ h # Always /\ Unready(J, h) /\ Due(J) = Due(H)
      /\ \A k \in DOMAIN H[h].deps : IsResult(H, H[h].deps[k].dep)
  BY DetachOK
<1>3. \A x \in Headers : Held(H, h, x) \in Nat /\ (Held(H, h, x) = 0 <=> Args(H, h, x) = {})
  BY <1>1, HeldFacts
<1>4. \A x \in Headers : Held(H, h, x) # 0 => IsResult(H, x)
  BY <1>2, <1>3 DEF Args
<1>5. Held(H, h, h) = 0
  BY <1>4, KindFacts
<1>6. \A x \in Headers : Z[x] = X[x] + Held(H, h, x) + (IF x = h THEN 1 ELSE 0) /\ X[x] \in Int
  BY DEF DetachTally, Tallies
<1>7. /\ J \in Heaps /\ \A x \in Headers \ {h} : J[x] = H[x]
      /\ J[h].body = "none" /\ J[h].deps = <<>>
      /\ J[h].kind = H[h].kind /\ J[h].ref = H[h].ref
      /\ J[h].status = H[h].status /\ J[h].sucs = H[h].sucs
      /\ J[h].result = H[h].result /\ J[h].countdown = H[h].countdown
  BY <1>1, ClearedFields
<1> HIDE DEF J, Z
<1>8. ASSUME NEW x \in Headers \ {Always}
      PROVE  H[x].ref \in Nat /\ H[x].ref = J[x].ref /\ H[x].ref >= Z[x]
             /\ Z[x] >= Held(H, h, x)
  <2>1. CountOK(J, Z, h, x)
    BY <1>2, HeapHeader
  <2>2. J[x].ref \in Nat /\ J[x].ref = Z[x] + Cardinality(LinksTo(J, x)) + Cardinality(ResultFor(J, x)) + Own(J, x, h)
    BY <2>1 DEF CountOK
  <2>3. /\ Cardinality(LinksTo(J, x)) \in Nat /\ Cardinality(ResultFor(J, x)) \in Nat
        /\ Own(J, x, h) \in Nat /\ Z[x] \in Int
    BY <1>2, FiniteCounts DEF Own, Tallies
  <2>4. J[x].ref >= Z[x]
    BY <2>2, <2>3
  <2>5. H[x].ref = J[x].ref
    BY <1>7
  <2>6. Z[x] >= Held(H, h, x)
    <3>1. X[x] >= 0 /\ X[x] \in Int /\ Held(H, h, x) \in Nat
      BY <1>3, <1>6
    <3>2. Z[x] = X[x] + Held(H, h, x) + (IF x = h THEN 1 ELSE 0)
      BY <1>6
    <3>3. QED
      BY <3>1, <3>2
  <2>7. QED
    BY <2>2, <2>4, <2>5, <2>6
<1>9. H[Always].ref = -1
  BY HeapHeader, Constants
<1>10. \A x \in Headers : Held(H, h, x) > 0 /\ H[x].ref >= 0 => H[x].ref >= Held(H, h, x)
  <2> SUFFICES ASSUME NEW x \in Headers, H[x].ref >= 0
               PROVE  H[x].ref >= Held(H, h, x)
    OBVIOUS
  <2>1. x \in Headers \ {Always}
    BY <1>9
  <2>2. H[x].ref \in Nat /\ H[x].ref >= Z[x] /\ Z[x] >= Held(H, h, x) /\ Held(H, h, x) \in Nat /\ Z[x] \in Int
    BY <1>2, <1>3, <1>8, <2>1 DEF Tallies
  <2>3. QED
    BY <2>2
<1>11. /\ D0 \in Heaps
       /\ \A x \in Headers :
            /\ Held(H, h, x) = 0 \/ H[x].ref < 0 => D0[x] = H[x]
            /\ Held(H, h, x) # 0 /\ H[x].ref >= 0 /\ H[x].ref = Held(H, h, x) => D0[x] = DeadHeader
            /\ Held(H, h, x) # 0 /\ H[x].ref >= 0 /\ H[x].ref # Held(H, h, x) =>
                   /\ Alike(D0[x], H[x]) /\ D0[x].countdown = H[x].countdown
                   /\ D0[x].ref = H[x].ref - Held(H, h, x)
  BY <1>1, <1>10, DropDepsFields
<1>12. D0[h] = H[h]
  BY <1>5, <1>11
<1> HIDE DEF D0
<1>13. /\ K \in Heaps /\ \A x \in Headers \ {h} : K[x] = D0[x]
       /\ K[h].body = "none" /\ K[h].deps = <<>>
       /\ K[h].kind = H[h].kind /\ K[h].ref = H[h].ref
       /\ K[h].status = H[h].status /\ K[h].sucs = H[h].sucs
       /\ K[h].result = H[h].result /\ K[h].countdown = H[h].countdown
  BY <1>11, <1>12, ClearedFields
<1> HIDE DEF K
<1>14. K[h] = J[h]
  <2>1. K[h] \in HeaderType /\ J[h] \in HeaderType
    BY <1>7, <1>13 DEF Heaps
  <2>2. QED
    BY <1>7, <1>13, <2>1, SameFields
<1>15. Y \in Tallies /\ Y[h] = X[h] + 1 /\ \A x \in Headers \ {h} : Y[x] = X[x]
  BY GiveFacts
<1> HIDE DEF Y
<1> DEFINE D == {x \in Headers \ {Always} : Held(H, h, x) # 0 /\ H[x].ref = Held(H, h, x)}
<1>16. \A x \in D : IsResult(J, x) /\ Z[x] >= J[x].ref /\ K[x] = DeadHeader /\ Y[x] = 0
  <2> TAKE x \in D
  <2>1. x \in Headers \ {Always} /\ Held(H, h, x) # 0 /\ H[x].ref = Held(H, h, x) /\ x # h
    BY <1>5
  <2>2. H[x].ref \in Nat /\ H[x].ref = J[x].ref /\ Z[x] >= J[x].ref
    BY <1>8, <2>1
  <2>3. IsResult(J, x)
    BY <1>4, <1>7, <2>1 DEF IsResult, Ready
  <2>4. K[x] = DeadHeader
    <3>1. H[x].ref >= 0
      BY <2>2
    <3>2. QED
      BY <1>11, <1>13, <2>1, <3>1
  <2>5. Z[x] = J[x].ref
    BY <1>2, <2>1, <2>2, Unshared
  <2>6. X[x] = 0
    <3>1. Z[x] = X[x] + Held(H, h, x) + (IF x = h THEN 1 ELSE 0) /\ X[x] \in Int /\ Held(H, h, x) \in Nat
      BY <1>3, <1>6, <2>1
    <3>2. QED
      BY <2>1, <2>2, <2>5, <3>1
  <2>7. QED
    BY <1>15, <2>1, <2>2, <2>3, <2>4, <2>6
<1>17. ASSUME NEW x \in Headers \ D
       PROVE  /\ Alike(K[x], J[x]) /\ K[x].countdown = J[x].countdown
              /\ x = Always => K[x] = J[x]
              /\ x # Always => /\ K[x].ref = J[x].ref + Y[x] - Z[x]
                               /\ Allocated(J, x) => K[x].ref > 0
                               /\ ~ Allocated(J, x) => Y[x] = Z[x]
  <2>1. CASE x = h
    <3>1. K[x] = J[x] /\ Y[x] = X[x] + 1 /\ Z[x] = X[x] + 1 /\ X[x] \in Int
      BY <1>3, <1>5, <1>6, <1>14, <1>15, <2>1
    <3>2. J[x].ref \in Nat /\ (Allocated(J, x) => J[x].ref > 0)
      BY <1>2, <2>1, KindFacts
    <3>3. QED
      BY <1>2, <2>1, <3>1, <3>2 DEF Alike
  <2>2. CASE x # h /\ (Held(H, h, x) = 0 \/ x = Always)
    <3>1. K[x] = J[x]
      BY <1>7, <1>9, <1>11, <1>13, <2>2
    <3>2. CASE x = Always
      BY <3>1, <3>2 DEF Alike
    <3>3. CASE x # Always
      <4>1. Y[x] = X[x] /\ Z[x] = X[x] /\ X[x] \in Int
        BY <1>6, <1>15, <2>2, <3>3
      <4>2. J[x].ref \in Nat /\ (Allocated(J, x) => J[x].ref > 0)
        BY <1>2, <3>3, KindFacts
      <4>3. QED
        BY <3>1, <3>3, <4>1, <4>2 DEF Alike
    <3>4. QED
      BY <3>2, <3>3
  <2>3. CASE x # h /\ Held(H, h, x) # 0 /\ x # Always
    <3>1. H[x].ref \in Nat /\ J[x] = H[x] /\ H[x].ref # Held(H, h, x) /\ K[x] = D0[x]
      BY <1>7, <1>8, <1>13, <2>3
    <3>2. Alike(K[x], J[x]) /\ K[x].countdown = J[x].countdown /\ K[x].ref = J[x].ref - Held(H, h, x)
      <4>1. H[x].ref >= 0
        BY <3>1
      <4>2. QED
        BY <1>11, <2>3, <3>1, <4>1
    <3>3. Y[x] = X[x] /\ Z[x] = X[x] + Held(H, h, x) /\ X[x] \in Int /\ Held(H, h, x) \in Nat
      BY <1>3, <1>6, <1>15, <2>3
    <3>4. J[x].ref >= Z[x] /\ X[x] >= 0
      BY <1>8, <2>3
    <3>5. K[x].ref = J[x].ref + Y[x] - Z[x]
      BY <3>1, <3>2, <3>3
    <3>6. K[x].ref > 0
      BY <3>1, <3>2, <3>3, <3>4
    <3>7. Allocated(J, x)
      BY <1>4, <2>3, <3>1, KindFacts DEF Allocated
    <3>8. QED
      BY <2>3, <3>2, <3>5, <3>6, <3>7
  <2>4. QED
    BY <2>1, <2>2, <2>3
<1>18. HeapOK(K, Y, h) /\ Keeps(J, K)
  <2>1. D \in SUBSET (Headers \ {Always})
    OBVIOUS
  <2>2. \A x \in Headers \ D :
          Alike(K[x], J[x]) /\ (K[x].countdown = J[x].countdown \/ J[x].status = StatusActive + 1)
    BY <1>17
  <2>3. K[Always] = J[Always]
    BY <1>17, Constants
  <2>4. \A x \in Headers \ {Always} : x \notin D =>
           /\ K[x].ref = J[x].ref + Y[x] - Z[x]
           /\ Allocated(J, x) => K[x].ref > 0
           /\ ~ Allocated(J, x) => Y[x] = Z[x]
    BY <1>17
  <2>5. K \in Heaps /\ Y \in Tallies
    BY <1>13, <1>15
  <2> HIDE DEF D
  <2>6. QED
    BY <1>2, <1>16, <2>1, <2>2, <2>3, <2>4, <2>5, Release, ZenonT(60)
<1>19. Due(K) = Due(H) /\ Unready(K, h)
  BY <1>2, <1>18, KeepsFacts
<1>20. IsFree(K) = IsFree(H)
  <2>1. IsFree(J) = IsFree(H)
    BY <1>7 DEF IsFree
  <2>2. QED
    BY <1>18, <2>1 DEF Keeps
<1>21. ASSUME NEW x \in Headers \ {h}, Unready(H, x) \/ Unready(K, x)
       PROVE  Alike(K[x], H[x])
  <2>1. J[x] = H[x] /\ (Unready(J, x) <=> Unready(H, x))
    BY <1>7 DEF Unready, Ready
  <2>2. QED
    BY <1>18, <1>21, <2>1 DEF Keeps
<1>22. QED
  BY <1>2, <1>11, <1>12, <1>13, <1>15, <1>18, <1>19, <1>20, <1>21 DEF K, Y, D0

-----------------------------------------------------------------------------
(* Linking a dependent to its arguments                                    *)

\* The elements of a concatenation, and when they are distinct.
LEMMA ConcatFacts ==
  ASSUME NEW T, NEW p \in Seq(T), NEW q \in Seq(T)
  PROVE  /\ p \o q \in Seq(T) /\ Len(p \o q) = Len(p) + Len(q)
         /\ Lists!ToSet(p \o q) = Lists!ToSet(p) \cup Lists!ToSet(q)
         /\ /\ Lists!IsInjective(p) /\ Lists!IsInjective(q)
            /\ Lists!ToSet(p) \cap Lists!ToSet(q) = {}
            => Lists!IsInjective(p \o q)
<1> DEFINE m == Len(p)
           n == Len(q)
           s == p \o q
<1>1. m \in Nat /\ n \in Nat /\ DOMAIN p = 1 .. m /\ DOMAIN q = 1 .. n
  BY LenProperties
<1>2. s \in Seq(T) /\ Len(s) = m + n /\ \A i \in 1 .. m + n : s[i] = IF i <= m THEN p[i] ELSE q[i - m]
  BY ConcatProperties
<1>3. DOMAIN s = 1 .. m + n
  BY <1>2, LenProperties
<1> HIDE DEF m, n, s
<1>4. \A i \in 1 .. m : i \in 1 .. m + n /\ s[i] = p[i]
  BY <1>1, <1>2
<1>5. ASSUME NEW j \in 1 .. n
      PROVE  j + m \in 1 .. m + n /\ s[j + m] = q[j]
  <2>1. j + m \in 1 .. m + n /\ ~(j + m <= m) /\ (j + m) - m = j
    BY <1>1
  <2>2. QED
    BY <1>2, <2>1
<1>6. ASSUME NEW i \in 1 .. m + n
      PROVE  (i \in 1 .. m /\ s[i] = p[i]) \/ (i - m \in 1 .. n /\ s[i] = q[i - m] /\ i = (i - m) + m)
  BY <1>1, <1>2
<1>7. Lists!ToSet(s) = Lists!ToSet(p) \cup Lists!ToSet(q)
  <2>1. ASSUME NEW e \in Lists!ToSet(s)
        PROVE  e \in Lists!ToSet(p) \/ e \in Lists!ToSet(q)
    <3>1. PICK i \in 1 .. m + n : e = s[i]
      BY <1>3 DEF Lists!ToSet
    <3>2. CASE i \in 1 .. m /\ s[i] = p[i]
      BY <1>1, <3>1, <3>2 DEF Lists!ToSet
    <3>3. CASE i - m \in 1 .. n /\ s[i] = q[i - m]
      BY <1>1, <3>1, <3>3 DEF Lists!ToSet
    <3>4. QED
      BY <1>6, <3>2, <3>3
  <2>2. \A e \in Lists!ToSet(p) : e \in Lists!ToSet(s)
    BY <1>1, <1>3, <1>4 DEF Lists!ToSet
  <2>3. \A e \in Lists!ToSet(q) : e \in Lists!ToSet(s)
    BY <1>1, <1>3, <1>5 DEF Lists!ToSet
  <2>4. QED
    BY <2>1, <2>2, <2>3
<1>8. ASSUME Lists!IsInjective(p), Lists!IsInjective(q), Lists!ToSet(p) \cap Lists!ToSet(q) = {}
      PROVE  Lists!IsInjective(s)
  <2> SUFFICES ASSUME NEW i \in 1 .. m + n, NEW j \in 1 .. m + n, s[i] = s[j]
               PROVE  i = j
    BY <1>3 DEF Lists!IsInjective
  <2>1. \A a \in 1 .. m, b \in 1 .. n : p[a] # q[b]
    BY <1>1, <1>8 DEF Lists!ToSet
  <2>2. CASE i \in 1 .. m /\ s[i] = p[i] /\ j \in 1 .. m /\ s[j] = p[j]
    BY <1>1, <1>8, <2>2 DEF Lists!IsInjective
  <2>3. CASE /\ i - m \in 1 .. n /\ s[i] = q[i - m] /\ i = (i - m) + m
             /\ j - m \in 1 .. n /\ s[j] = q[j - m] /\ j = (j - m) + m
    <3>1. q[i - m] = q[j - m]
      BY <2>3
    <3>2. i - m = j - m
      BY <1>1, <1>8, <2>3, <3>1 DEF Lists!IsInjective
    <3>3. QED
      BY <2>3, <3>2
  <2>4. QED
    BY <1>6, <2>1, <2>2, <2>3
<1>9. QED
  BY <1>2, <1>7, <1>8 DEF m, n, s

\* A sequence of one element.
LEMMA SingletonSeq ==
  ASSUME NEW T, NEW e \in T
  PROVE  /\ <<e>> \in Seq(T) /\ Len(<<e>>) = 1 /\ Lists!ToSet(<<e>>) = {e} /\ Lists!IsInjective(<<e>>)
BY DEF Lists!ToSet, Lists!IsInjective

\* A dependency k on b is added to the body of s: open and in the list of
\* successors of b, or already resolved.
Linking(H, K, s, b, k, f) ==
  /\ \A x \in Headers \ {s, b} : K[x] = H[x]
  /\ K[s].kind = H[s].kind /\ K[s].ref = H[s].ref /\ K[s].sucs = H[s].sucs /\ K[s].result = H[s].result
  /\ K[s].body = H[s].body /\ K[s].countdown = H[s].countdown
  /\ K[s].deps = Append(H[s].deps, [dep |-> b, linked |-> f])
  /\ K[s].status = H[s].status + (IF f THEN 1 ELSE 0)
  /\ K[b].kind = H[b].kind /\ K[b].ref = H[b].ref /\ K[b].status = H[b].status /\ K[b].result = H[b].result
  /\ K[b].body = H[b].body /\ K[b].countdown = H[b].countdown /\ K[b].deps = H[b].deps
  /\ f => K[b].sucs = << <<s, k>> >> \o H[b].sucs
  /\ ~ f => K[b] = H[b]

\* Adding a dependency to a body under construction keeps the heap whole; the link takes a reference
\* of the caller.
LEMMA LinkOK ==
  ASSUME NEW H, NEW X \in Tallies, HeapOK(H, X, Nil), NEW s \in Headers, NEW b \in Headers \ {s},
         Unready(H, s), H[s].body \in {"then", "all"}, NEW k \in 1 .. MaxArgs, k = Len(H[s].deps) + 1,
         NEW f \in BOOLEAN, f => Allocated(H, b) /\ ~ Ready(H, b), ~ f => IsResult(H, b),
         NEW K \in Heaps, Linking(H, K, s, b, k, f)
  PROVE  /\ HeapOK(K, Give(X, b, -1), Nil) /\ Give(X, b, -1) \in Tallies
         /\ Unready(K, s) /\ Len(K[s].deps) = k /\ IsFree(K) = IsFree(H)
         /\ \A x \in Headers : Unready(K, x) <=> Unready(H, x)
<1> DEFINE Y == Give(X, b, -1)
           e == <<s, k>>
<1>0. /\ \A x \in Headers \ {s, b} : K[x] = H[x]
      /\ K[s].kind = H[s].kind /\ K[s].ref = H[s].ref /\ K[s].sucs = H[s].sucs
      /\ K[s].result = H[s].result /\ K[s].body = H[s].body /\ K[s].countdown = H[s].countdown
      /\ K[s].status = H[s].status + (IF f THEN 1 ELSE 0)
      /\ K[b].kind = H[b].kind /\ K[b].ref = H[b].ref /\ K[b].status = H[b].status
      /\ K[b].result = H[b].result /\ K[b].body = H[b].body /\ K[b].countdown = H[b].countdown
      /\ K[b].deps = H[b].deps /\ (~ f => K[b] = H[b])
  BY DEF Linking
<1>1. H \in Heaps /\ BodyOK(H, s) /\ s # Nil /\ ~ Ready(H, s) /\ H[s].kind = "dependent" /\ s # Always
  BY HeapHeader, KindFacts, Constants DEF Unready
<1>2. /\ Y \in Tallies /\ Y[b] = X[b] + (-1) /\ (\A x \in Headers \ {b} : Y[x] = X[x])
      /\ \A x \in Headers : X[x] \in Int
  BY GiveFacts
<1> HIDE DEF Y
<1>3. /\ DOMAIN H[s].deps = 1 .. k - 1 /\ DOMAIN K[s].deps = 1 .. k /\ Len(K[s].deps) = k
      /\ (\A i \in 1 .. k - 1 : K[s].deps[i] = H[s].deps[i]) /\ K[s].deps[k] = [dep |-> b, linked |-> f]
  <2>1. H[s].deps \in Seq([dep : Headers, linked : BOOLEAN]) /\ Len(H[s].deps) \in Nat
        /\ DOMAIN H[s].deps = 1 .. Len(H[s].deps)
    BY <1>1, FieldTypes
  <2>2. [dep |-> b, linked |-> f] \in [dep : Headers, linked : BOOLEAN]
    OBVIOUS
  <2>3. Len(H[s].deps) = k - 1
    BY <2>1
  <2>4. Len(K[s].deps) = Len(H[s].deps) + 1
        /\ (\A i \in 1 .. Len(H[s].deps) : K[s].deps[i] = H[s].deps[i])
        /\ K[s].deps[Len(H[s].deps) + 1] = [dep |-> b, linked |-> f]
    <3> DEFINE d == H[s].deps
               t == [dep |-> b, linked |-> f]
               T == [dep : Headers, linked : BOOLEAN]
    <3>1. K[s].deps = Append(d, t) /\ d \in Seq(T) /\ t \in T
      BY <2>1, <2>2 DEF Linking
    <3> HIDE DEF d, t, T
    <3>2. /\ Len(Append(d, t)) = Len(d) + 1 /\ (\A i \in 1 .. Len(d) : Append(d, t)[i] = d[i])
          /\ Append(d, t)[Len(d) + 1] = t
      BY <3>1, AppendProperties
    <3>3. QED
      BY <3>1, <3>2 DEF d, t
  <2>5. DOMAIN K[s].deps = 1 .. Len(K[s].deps)
    BY FieldTypes
  <2>6. QED
    BY <2>1, <2>3, <2>4, <2>5
<1>4. Cardinality(OpenOf(H, s)) \in Nat /\ H[s].status = Cardinality(OpenOf(H, s)) /\ IsFiniteSet(OpenOf(H, s))
  <2>1. OpenOf(H, s) \in SUBSET (1 .. k - 1) /\ k - 1 \in Nat
    BY <1>3 DEF OpenOf
  <2>2. Cardinality(OpenOf(H, s)) \in Nat /\ IsFiniteSet(OpenOf(H, s))
    BY <2>1, RankFacts
  <2>3. QED
    BY <1>1, <2>2 DEF BodyOK
<1>5. H[s].status \in Nat /\ K[s].status \in Nat
  BY <1>0, <1>4
<1>6. \A x \in Headers : /\ Ready(K, x) <=> Ready(H, x)
                         /\ Proxying(K, x) <=> Proxying(H, x)
                         /\ Unready(K, x) <=> Unready(H, x)
                         /\ IsResult(K, x) <=> IsResult(H, x)
                         /\ Allocated(K, x) <=> Allocated(H, x)
                         /\ K[x].kind = H[x].kind /\ K[x].ref = H[x].ref /\ K[x].result = H[x].result
                         /\ K[x].body = H[x].body /\ K[x].countdown = H[x].countdown
  <2> TAKE x \in Headers
  <2>1. CASE x = s
    <3>1. ~ Ready(K, s) /\ ~ Ready(H, s) /\ ~ Proxying(K, s) /\ ~ Proxying(H, s)
      BY <1>5 DEF Ready, Proxying, StatusReady, StatusProxying, StatusProxyingActive
    <3>2. QED
      BY <1>0, <2>1, <3>1 DEF Unready, IsResult, Allocated
  <2>2. CASE x = b
    BY <1>0, <2>2 DEF Ready, Proxying, Unready, IsResult, Allocated
  <2>3. CASE x \notin {s, b}
    BY <1>0, <2>3 DEF Ready, Proxying, Unready, IsResult, Allocated
  <2>4. QED
    BY <2>1, <2>2, <2>3
<1>7. \A x : ResultFor(K, x) = ResultFor(H, x)
  BY <1>6 DEF ResultFor
<1>8. \A x \in Headers \ {s} : K[x].deps = H[x].deps /\ K[x].status = H[x].status
  BY <1>0
<1>9. e \notin Links(H)
  <2>1. k \notin 1 .. k - 1
    OBVIOUS
  <2>2. QED
    BY <1>3, <2>1 DEF Links
<1>10. \A l : l \in Links(K) <=> l \in Links(H) \/ l = e
  <2>1. ASSUME NEW l \in Links(H)
        PROVE  l \in Links(K)
    <3>1. l[1] \in Headers /\ l[2] \in 1 .. MaxArgs /\ l = <<l[1], l[2]>> /\ l[2] \in DOMAIN H[l[1]].deps
      BY LinkParts
    <3>2. l[2] \in DOMAIN K[l[1]].deps
      BY <1>3, <1>8, <3>1
    <3>3. QED
      BY <3>1, <3>2 DEF Links
  <2>2. e \in Links(K)
    BY <1>3 DEF Links
  <2>3. ASSUME NEW l \in Links(K), l # e
        PROVE  l \in Links(H)
    <3>1. l[1] \in Headers /\ l[2] \in 1 .. MaxArgs /\ l = <<l[1], l[2]>> /\ l[2] \in DOMAIN K[l[1]].deps
      BY LinkParts
    <3>2. CASE l[1] = s
      <4>1. l[2] \in 1 .. k /\ l[2] # k
        BY <1>3, <2>3, <3>1, <3>2
      <4>2. l[2] \in DOMAIN H[l[1]].deps
        BY <1>3, <3>2, <4>1
      <4>3. QED
        BY <3>1, <4>2 DEF Links
    <3>3. CASE l[1] # s
      BY <1>8, <3>1, <3>3 DEF Links
    <3>4. QED
      BY <3>2, <3>3
  <2>4. QED
    BY <2>1, <2>2, <2>3
<1>11. /\ \A l \in Links(H) : LinkAt(K, l) = LinkAt(H, l)
       /\ LinkAt(K, e) = [dep |-> b, linked |-> f]
  <2>1. ASSUME NEW l \in Links(H)
        PROVE  LinkAt(K, l) = LinkAt(H, l)
    <3>1. l[1] \in Headers /\ l[2] \in DOMAIN H[l[1]].deps
      BY LinkParts
    <3>2. CASE l[1] = s
      BY <1>3, <3>1, <3>2 DEF LinkAt
    <3>3. CASE l[1] # s
      BY <1>8, <3>1, <3>3 DEF LinkAt
    <3>4. QED
      BY <3>2, <3>3
  <2>2. LinkAt(K, e) = [dep |-> b, linked |-> f]
    BY <1>3 DEF LinkAt
  <2>3. QED
    BY <2>1, <2>2
<1>12. LinksTo(K, b) = LinksTo(H, b) \cup {e} /\ \A x \in Headers \ {b} : LinksTo(K, x) = LinksTo(H, x)
  BY <1>9, <1>10, <1>11 DEF LinksTo
<1>13. /\ OpenTo(K, b) = IF f THEN OpenTo(H, b) \cup {e} ELSE OpenTo(H, b)
       /\ \A x \in Headers \ {b} : OpenTo(K, x) = OpenTo(H, x)
  <2>1. \A x \in Headers : \A l : l \in OpenTo(K, x) <=> \/ l \in OpenTo(H, x)
                                                         \/ l = e /\ x = b /\ f
    BY <1>9, <1>10, <1>11 DEF OpenTo, LinksTo
  <2>2. \A x \in Headers : OpenTo(K, x) \subseteq Pairs /\ OpenTo(H, x) \subseteq Pairs
    BY DEF OpenTo, LinksTo, Links, Pairs
  <2>3. QED
    BY <2>1, <2>2
<1>14. BodyOK(K, s)
  <2>1. OpenOf(K, s) = IF f THEN OpenOf(H, s) \cup {k} ELSE OpenOf(H, s)
    <3>1. K[s].deps[k].linked = f
      BY <1>3
    <3>2. \A i \in 1 .. k : i = k \/ (i \in 1 .. k - 1 /\ K[s].deps[i].linked = H[s].deps[i].linked)
      BY <1>3, SMTT(60)
    <3>3. \A i : i \in OpenOf(K, s) <=> i \in 1 .. k /\ K[s].deps[i].linked
      BY <1>3 DEF OpenOf
    <3>4. \A i : i \in OpenOf(H, s) <=> i \in 1 .. k - 1 /\ H[s].deps[i].linked
      BY <1>3 DEF OpenOf
    <3>5. k \in 1 .. k /\ k \notin 1 .. k - 1 /\ \A i \in 1 .. k - 1 : i \in 1 .. k
      OBVIOUS
    <3>6. CASE f
      BY <3>1, <3>2, <3>3, <3>4, <3>5, <3>6, ZenonT(60)
    <3>7. CASE ~ f
      BY <3>1, <3>2, <3>3, <3>4, <3>5, <3>7
    <3>8. QED
      BY <3>6, <3>7
  <2>2. k \notin OpenOf(H, s)
    BY <1>3 DEF OpenOf
  <2>3. K[s].status = Cardinality(OpenOf(K, s))
    <3> DEFINE O == OpenOf(H, s)
    <3>1. IsFiniteSet(O) /\ k \notin O /\ H[s].status = Cardinality(O) /\ Cardinality(O) \in Nat
      BY <1>4, <2>2
    <3> HIDE DEF O
    <3>2. Cardinality(O \cup {k}) = Cardinality(O) + 1
      BY <3>1, FS_AddElement
    <3>3. CASE f
      BY <1>0, <2>1, <3>1, <3>2, <3>3 DEF O
    <3>4. CASE ~ f
      BY <1>0, <2>1, <3>1, <3>4 DEF O
    <3>5. QED
      BY <3>3, <3>4
  <2>4. \A i \in DOMAIN K[s].deps : K[s].deps[i].linked \/ IsResult(K, K[s].deps[i].dep)
    <3> TAKE i \in DOMAIN K[s].deps
    <3>1. CASE i = k
      BY <1>3, <1>6, <3>1
    <3>2. CASE i # k
      <4>1. i \in 1 .. k - 1 /\ K[s].deps[i] = H[s].deps[i] /\ i \in DOMAIN H[s].deps
        BY <1>3, <3>2
      <4>2. H[s].deps[i].dep \in Headers
        BY <1>1, <4>1, FieldTypes
      <4>3. QED
        BY <1>1, <1>6, <4>1, <4>2 DEF BodyOK
    <3>3. QED
      BY <3>1, <3>2
  <2>5. Len(K[s].deps) <= MaxArgs
    BY <1>3, Constants
  <2>6. QED
    BY <1>0, <2>3, <2>4, <2>5 DEF BodyOK
<1>15. ASSUME NEW x \in Headers
       PROVE  HeaderOK(K, x, Nil)
  <2>1. HeaderOK(H, x, Nil)
    BY HeapHeader
  <2>2. CASE x = s
    <3>1. K[s].kind = "dependent" /\ Unready(K, s) /\ ~ Ready(K, s) /\ K[s].result = Nil
      BY <1>1, <1>6, <2>1, <2>2 DEF HeaderOK
    <3>2. QED
      BY <1>1, <1>14, <2>2, <3>1 DEF HeaderOK
  <2>3. CASE x # s
    <3>1. K[x].deps = H[x].deps /\ K[x].status = H[x].status
      BY <1>8, <2>3
    <3>2. \A j \in DOMAIN H[x].deps : IsResult(H, H[x].deps[j].dep) => IsResult(K, H[x].deps[j].dep)
      BY <1>1, <1>6, FieldTypes
    <3>3. H[x].result \in Headers \ {x} /\ IsResult(H, H[x].result) => IsResult(K, H[x].result)
      BY <1>6
    <3>4. Unready(H, x) /\ x # Nil /\ H[x].status = StatusProxying /\ ~ Proxying(H, Proxied(H, x))
           => ~ Proxying(K, Proxied(H, x))
      <4> SUFFICES ASSUME Unready(H, x), H[x].status = StatusProxying, ~ Proxying(H, Proxied(H, x)), x # Nil
                   PROVE  ~ Proxying(K, Proxied(H, x))
        OBVIOUS
      <4>1. Proxied(H, x) \in Headers
        <5>1. Proxying(H, x)
          BY DEF Proxying
        <5>2. QED
          BY <5>1, ProxiedFacts
      <4>2. QED
        BY <1>6, <4>1
    <3>5. ~ Allocated(H, x) => K[x] = H[x]
      <4>1. ~ Allocated(H, b) => ~ f
        OBVIOUS
      <4>2. QED
        BY <1>0, <2>3, <4>1
    <3>6. QED
      BY <1>1, <1>6, <2>1, <3>1, <3>2, <3>3, <3>4, <3>5, HeaderFrame
  <2>4. QED
    BY <2>2, <2>3
<1>16. ASSUME NEW x \in Headers
       PROVE  SuccessorsOK(K, x)
  <2>1. SuccessorsOK(H, x)
    BY HeapHeader
  <2>2. CASE x = b /\ f
    <3> DEFINE q == H[b].sucs
    <3>1. q \in Seq(Pairs) /\ e \in Pairs
      BY <1>1, FieldTypes DEF Pairs
    <3>2. <<e>> \in Seq(Pairs) /\ Lists!ToSet(<<e>>) = {e} /\ Lists!IsInjective(<<e>>)
      BY <3>1, SingletonSeq
    <3>3. Lists!ToSet(q) = OpenTo(H, b) /\ Lists!IsInjective(q)
      BY <2>1, <2>2 DEF SuccessorsOK
    <3>4. e \notin OpenTo(H, b)
      BY <1>9 DEF OpenTo, LinksTo
    <3>5. Lists!ToSet(<<e>>) \cap Lists!ToSet(q) = {}
      BY <3>2, <3>3, <3>4
    <3>6. Lists!ToSet(<<e>> \o q) = Lists!ToSet(<<e>>) \cup Lists!ToSet(q) /\ Lists!IsInjective(<<e>> \o q)
      <4> DEFINE p == <<e>>
      <4> HIDE DEF p, q
      <4>1. p \in Seq(Pairs) /\ q \in Seq(Pairs)
        BY <3>1, <3>2 DEF p
      <4>2. Lists!ToSet(p \o q) = Lists!ToSet(p) \cup Lists!ToSet(q)
        BY <4>1, ConcatFacts
      <4>3. Lists!IsInjective(p \o q)
        BY <3>2, <3>3, <3>5, <4>1, ConcatFacts DEF p
      <4>4. QED
        BY <4>2, <4>3 DEF p
    <3>7. K[b].sucs = <<e>> \o q
      BY <2>2 DEF Linking
    <3>8. QED
      BY <1>6, <1>13, <2>2, <3>2, <3>3, <3>6, <3>7, ZenonT(60) DEF SuccessorsOK
  <2>3. CASE ~ (x = b /\ f)
    <3>1. K[x].sucs = H[x].sucs /\ OpenTo(K, x) = OpenTo(H, x)
      BY <1>0, <1>13, <2>3
    <3>2. QED
      BY <1>6, <2>1, <3>1 DEF SuccessorsOK
  <2>4. QED
    BY <2>2, <2>3
<1>17. ASSUME NEW x \in Headers \ {Always}
       PROVE  CountOK(K, Y, Nil, x)
  <2>1. CountOK(H, X, Nil, x) /\ X[x] \in Int
    BY <1>2, HeapHeader
  <2>2. Own(K, x, Nil) = Own(H, x, Nil) /\ ResultFor(K, x) = ResultFor(H, x) /\ K[x].ref = H[x].ref
        /\ (Allocated(K, x) <=> Allocated(H, x)) /\ Own(H, x, Nil) \in Nat
    BY <1>6, <1>7 DEF Own
  <2>3. Y[x] + Cardinality(LinksTo(K, x)) = X[x] + Cardinality(LinksTo(H, x))
    <3>1. CASE x = b
      <4>1. IsFiniteSet(LinksTo(H, b)) /\ Cardinality(LinksTo(H, b)) \in Nat /\ e \notin LinksTo(H, b)
        BY <1>9, FiniteCounts DEF LinksTo
      <4>2. Cardinality(LinksTo(K, b)) = Cardinality(LinksTo(H, b)) + 1
        <5> DEFINE O == LinksTo(H, b)
        <5> HIDE DEF O, e
        <5>1. IsFiniteSet(O) /\ e \notin O
          BY <4>1 DEF O
        <5>2. Cardinality(O \cup {e}) = Cardinality(O) + 1
          BY <5>1, FS_AddElement
        <5>3. QED
          BY <1>12, <5>2 DEF O
      <4>3. Y[b] = X[b] + (-1) /\ X[b] \in Int
        BY <1>2
      <4>4. Y[b] + Cardinality(LinksTo(K, b)) = X[b] + Cardinality(LinksTo(H, b))
        BY <4>1, <4>2, <4>3
      <4>5. QED
        BY <3>1, <4>4
    <3>2. CASE x # b
      BY <1>2, <1>12, <3>2
    <3>3. QED
      BY <3>1, <3>2
  <2>4. /\ Cardinality(LinksTo(K, x)) \in Nat /\ Cardinality(LinksTo(H, x)) \in Nat
        /\ Cardinality(ResultFor(H, x)) \in Nat /\ Y[x] \in Int
    BY <1>2, FiniteCounts DEF Tallies
  <2>5. H[x].ref = X[x] + Cardinality(LinksTo(H, x)) + Cardinality(ResultFor(H, x)) + Own(H, x, Nil)
    BY <2>1 DEF CountOK
  <2>6. H[x].ref = Y[x] + Cardinality(LinksTo(K, x)) + Cardinality(ResultFor(H, x)) + Own(H, x, Nil)
    BY <2>1, <2>2, <2>3, <2>4, <2>5
  <2>7. QED
    BY <2>1, <2>2, <2>6 DEF CountOK
<1>18. K[Always] = H[Always]
  <2>1. Always \in Headers /\ IsResult(H, Always) /\ Allocated(H, Always)
    BY Constants, HeapHeader
  <2>2. Always = b => ~ f
    BY <2>1 DEF IsResult
  <2>3. QED
    BY <1>0, <1>1, <2>1, <2>2
<1>19. HeapOK(K, Y, Nil)
  BY <1>15, <1>16, <1>17, <1>18 DEF HeapOK, Heaps
<1>20. IsFree(K) = IsFree(H)
  BY <1>6 DEF IsFree
<1>21. QED
  BY <1>2, <1>3, <1>6, <1>19, <1>20 DEF Y

DepLists == Seq([dep : Headers, linked : BOOLEAN])

\* Assigning one field of one header.
LEMMA SetSucs ==
  ASSUME NEW H \in Heaps, NEW x \in Headers, NEW q \in Seq(Pairs)
  PROVE  LET K == [H EXCEPT ![x].sucs = q]
         IN  /\ K \in Heaps /\ \A y \in Headers \ {x} : K[y] = H[y]
             /\ K[x].sucs = q /\ K[x].kind = H[x].kind /\ K[x].ref = H[x].ref /\ K[x].status = H[x].status
             /\ K[x].result = H[x].result /\ K[x].body = H[x].body /\ K[x].deps = H[x].deps
             /\ K[x].countdown = H[x].countdown
<1> DEFINE K == [H EXCEPT ![x].sucs = q]
           r == [H[x] EXCEPT !.sucs = q]
<1>1. H[x] \in HeaderType /\ q \in Seq(Headers \X (1 .. MaxArgs))
  BY DEF Heaps, Pairs
<1>2. /\ r \in HeaderType
      /\ r.sucs = q /\ r.kind = H[x].kind /\ r.ref = H[x].ref /\ r.status = H[x].status
      /\ r.result = H[x].result /\ r.body = H[x].body /\ r.deps = H[x].deps /\ r.countdown = H[x].countdown
  BY <1>1 DEF HeaderType
<1>3. K = [H EXCEPT ![x] = r]
  OBVIOUS
<1> HIDE DEF r
<1>4. K \in Heaps /\ K[x] = r /\ \A y \in Headers \ {x} : K[y] = H[y]
  BY <1>2, <1>3 DEF Heaps
<1>5. QED
  BY <1>2, <1>4

\* Assigning deps changes nothing else.
LEMMA SetDeps ==
  ASSUME NEW H \in Heaps, NEW x \in Headers, NEW q \in DepLists
  PROVE  LET K == [H EXCEPT ![x].deps = q]
         IN  /\ K \in Heaps /\ \A y \in Headers \ {x} : K[y] = H[y]
             /\ K[x].deps = q /\ K[x].kind = H[x].kind /\ K[x].ref = H[x].ref /\ K[x].status = H[x].status
             /\ K[x].result = H[x].result /\ K[x].body = H[x].body /\ K[x].sucs = H[x].sucs
             /\ K[x].countdown = H[x].countdown
<1> DEFINE K == [H EXCEPT ![x].deps = q]
           r == [H[x] EXCEPT !.deps = q]
<1>1. H[x] \in HeaderType /\ q \in Seq([dep : Headers, linked : BOOLEAN])
  BY DEF Heaps, DepLists
<1>2. /\ r \in HeaderType
      /\ r.deps = q /\ r.kind = H[x].kind /\ r.ref = H[x].ref /\ r.status = H[x].status
      /\ r.result = H[x].result /\ r.body = H[x].body /\ r.sucs = H[x].sucs /\ r.countdown = H[x].countdown
  BY <1>1 DEF HeaderType
<1>3. K = [H EXCEPT ![x] = r]
  OBVIOUS
<1> HIDE DEF r
<1>4. K \in Heaps /\ K[x] = r /\ \A y \in Headers \ {x} : K[y] = H[y]
  BY <1>2, <1>3 DEF Heaps
<1>5. QED
  BY <1>2, <1>4

\* Assigning status_ changes nothing else.
LEMMA SetStatus ==
  ASSUME NEW H \in Heaps, NEW x \in Headers, NEW q \in -3 .. MaxArgs
  PROVE  LET K == [H EXCEPT ![x].status = q]
         IN  /\ K \in Heaps /\ \A y \in Headers \ {x} : K[y] = H[y]
             /\ K[x].status = q /\ K[x].kind = H[x].kind /\ K[x].ref = H[x].ref /\ K[x].deps = H[x].deps
             /\ K[x].result = H[x].result /\ K[x].body = H[x].body /\ K[x].sucs = H[x].sucs
             /\ K[x].countdown = H[x].countdown
<1> DEFINE K == [H EXCEPT ![x].status = q]
           r == [H[x] EXCEPT !.status = q]
<1>1. H[x] \in HeaderType
  BY DEF Heaps
<1>2. /\ r \in HeaderType
      /\ r.deps = H[x].deps /\ r.kind = H[x].kind /\ r.ref = H[x].ref /\ r.status = q
      /\ r.result = H[x].result /\ r.body = H[x].body /\ r.sucs = H[x].sucs /\ r.countdown = H[x].countdown
  BY <1>1 DEF HeaderType
<1>3. K = [H EXCEPT ![x] = r]
  OBVIOUS
<1> HIDE DEF r
<1>4. K \in Heaps /\ K[x] = r /\ \A y \in Headers \ {x} : K[y] = H[y]
  BY <1>2, <1>3 DEF Heaps
<1>5. QED
  BY <1>2, <1>4

Bodies == {"none", "then", "all", "proxy"}

\* Assigning the body changes nothing else.
LEMMA SetBody ==
  ASSUME NEW H \in Heaps, NEW x \in Headers, NEW q \in Bodies
  PROVE  LET K == [H EXCEPT ![x].body = q]
         IN  /\ K \in Heaps /\ \A y \in Headers \ {x} : K[y] = H[y]
             /\ K[x].body = q /\ K[x].kind = H[x].kind /\ K[x].ref = H[x].ref /\ K[x].deps = H[x].deps
             /\ K[x].result = H[x].result /\ K[x].status = H[x].status /\ K[x].sucs = H[x].sucs
             /\ K[x].countdown = H[x].countdown
<1> DEFINE K == [H EXCEPT ![x].body = q]
           r == [H[x] EXCEPT !.body = q]
<1>1. H[x] \in HeaderType /\ q \in {"none", "then", "all", "proxy"}
  BY DEF Heaps, Bodies
<1>2. /\ r \in HeaderType
      /\ r.deps = H[x].deps /\ r.kind = H[x].kind /\ r.ref = H[x].ref /\ r.status = H[x].status
      /\ r.result = H[x].result /\ r.body = q /\ r.sucs = H[x].sucs /\ r.countdown = H[x].countdown
  BY <1>1 DEF HeaderType
<1>3. K = [H EXCEPT ![x] = r]
  OBVIOUS
<1> HIDE DEF r
<1>4. K \in Heaps /\ K[x] = r /\ \A y \in Headers \ {x} : K[y] = H[y]
  BY <1>2, <1>3 DEF Heaps
<1>5. QED
  BY <1>2, <1>4

\* Assigning result_ changes nothing else.
LEMMA SetResult ==
  ASSUME NEW H \in Heaps, NEW x \in Headers, NEW q \in Headers \cup {Nil}
  PROVE  LET K == [H EXCEPT ![x].result = q]
         IN  /\ K \in Heaps /\ \A y \in Headers \ {x} : K[y] = H[y]
             /\ K[x].result = q /\ K[x].kind = H[x].kind /\ K[x].ref = H[x].ref /\ K[x].deps = H[x].deps
             /\ K[x].body = H[x].body /\ K[x].status = H[x].status /\ K[x].sucs = H[x].sucs
             /\ K[x].countdown = H[x].countdown
<1> DEFINE K == [H EXCEPT ![x].result = q]
           r == [H[x] EXCEPT !.result = q]
<1>1. H[x] \in HeaderType
  BY DEF Heaps
<1>2. /\ r \in HeaderType
      /\ r.deps = H[x].deps /\ r.kind = H[x].kind /\ r.ref = H[x].ref /\ r.status = H[x].status
      /\ r.result = q /\ r.body = H[x].body /\ r.sucs = H[x].sucs /\ r.countdown = H[x].countdown
  BY <1>1 DEF HeaderType
<1>3. K = [H EXCEPT ![x] = r]
  OBVIOUS
<1> HIDE DEF r
<1>4. K \in Heaps /\ K[x] = r /\ \A y \in Headers \ {x} : K[y] = H[y]
  BY <1>2, <1>3 DEF Heaps
<1>5. QED
  BY <1>2, <1>4

\* LinkDependencyTo puts an open link on both its ends.
LEMMA LinkToFields ==
  ASSUME NEW H \in Heaps, NEW s \in Headers, NEW b \in Headers \ {s}, NEW k \in 1 .. MaxArgs,
         H[s].status + 1 \in -3 .. MaxArgs
  PROVE  /\ LinkDependencyTo(H, b, s, k) \in Heaps
         /\ Linking(H, LinkDependencyTo(H, b, s, k), s, b, k, TRUE)
<1> DEFINE q == << <<s, k>> >> \o H[b].sucs
           A == [H EXCEPT ![b].sucs = q]
           t == [dep |-> b, linked |-> TRUE]
           d == Append(H[s].deps, t)
           B == [A EXCEPT ![s].deps = d]
           n == H[s].status + 1
           C == [B EXCEPT ![s].status = n]
<1>1. H[b].sucs \in Seq(Pairs) /\ H[s].deps \in Seq([dep : Headers, linked : BOOLEAN])
  BY FieldTypes
<1>2. q \in Seq(Pairs)
  <2>1. <<s, k>> \in Pairs
    BY DEF Pairs
  <2>2. << <<s, k>> >> \in Seq(Pairs)
    BY <2>1, SingletonSeq
  <2>3. QED
    BY <1>1, <2>2, ConcatFacts
<1>3. d \in DepLists
  <2>1. t \in [dep : Headers, linked : BOOLEAN]
    OBVIOUS
  <2>2. QED
    BY <1>1, <2>1, AppendProperties DEF DepLists
<1>4. n \in -3 .. MaxArgs
  OBVIOUS
<1> HIDE DEF q, d, n, t
<1>5. /\ A \in Heaps /\ \A y \in Headers \ {b} : A[y] = H[y]
      /\ A[b].sucs = q /\ A[b].kind = H[b].kind /\ A[b].ref = H[b].ref /\ A[b].status = H[b].status
      /\ A[b].result = H[b].result /\ A[b].body = H[b].body /\ A[b].deps = H[b].deps
      /\ A[b].countdown = H[b].countdown
  BY <1>2, SetSucs
<1> HIDE DEF A
<1>6. /\ B \in Heaps /\ \A y \in Headers \ {s} : B[y] = A[y]
      /\ B[s].deps = d /\ B[s].kind = A[s].kind /\ B[s].ref = A[s].ref /\ B[s].status = A[s].status
      /\ B[s].result = A[s].result /\ B[s].body = A[s].body /\ B[s].sucs = A[s].sucs
      /\ B[s].countdown = A[s].countdown
  BY <1>3, <1>5, SetDeps
<1> HIDE DEF B
<1>7. /\ C \in Heaps /\ \A y \in Headers \ {s} : C[y] = B[y]
      /\ C[s].status = n /\ C[s].kind = B[s].kind /\ C[s].ref = B[s].ref /\ C[s].deps = B[s].deps
      /\ C[s].result = B[s].result /\ C[s].body = B[s].body /\ C[s].sucs = B[s].sucs
      /\ C[s].countdown = B[s].countdown
  BY <1>4, <1>6, SetStatus
<1> HIDE DEF C
<1>8. LinkDependencyTo(H, b, s, k) = C
  <2>1. A[s] = H[s] /\ B[s].status = H[s].status
    BY <1>5, <1>6
  <2>2. LinkDependencyTo(H, b, s, k) =
          [[A EXCEPT ![s].deps = Append(A[s].deps, t)] EXCEPT ![s].status = @ + 1]
    BY Zenon DEF LinkDependencyTo, A, q, t
  <2>3. [A EXCEPT ![s].deps = Append(A[s].deps, t)] = B
    BY <2>1 DEF B, d
  <2>4. [B EXCEPT ![s].status = @ + 1] = C
    BY <2>1 DEF C, n
  <2>5. QED
    BY <2>2, <2>3, <2>4
<1>9. Linking(H, C, s, b, k, TRUE)
  BY <1>5, <1>6, <1>7 DEF Linking, q, d, n, t
<1>10. QED
  BY <1>7, <1>8, <1>9

\* A dependency on a result is a link that is not open.
LEMMA LinkDoneFields ==
  ASSUME NEW H \in Heaps, NEW s \in Headers, NEW b \in Headers \ {s}, NEW k \in 1 .. MaxArgs
  PROVE  LET K == [H EXCEPT ![s].deps = Append(@, [dep |-> b, linked |-> FALSE])]
         IN  K \in Heaps /\ Linking(H, K, s, b, k, FALSE)
<1> DEFINE t == [dep |-> b, linked |-> FALSE]
           d == Append(H[s].deps, t)
           K == [H EXCEPT ![s].deps = d]
<1>1. d \in DepLists
  <2>1. t \in [dep : Headers, linked : BOOLEAN]
    OBVIOUS
  <2>2. H[s].deps \in Seq([dep : Headers, linked : BOOLEAN])
    BY FieldTypes
  <2>3. QED
    BY <2>1, <2>2, AppendProperties DEF DepLists
<1> HIDE DEF d
<1>2. /\ K \in Heaps /\ \A y \in Headers \ {s} : K[y] = H[y]
      /\ K[s].deps = d /\ K[s].kind = H[s].kind /\ K[s].ref = H[s].ref /\ K[s].status = H[s].status
      /\ K[s].result = H[s].result /\ K[s].body = H[s].body /\ K[s].sucs = H[s].sucs
      /\ K[s].countdown = H[s].countdown
  BY <1>1, SetDeps
<1>3. H[s].status \in Int
  BY FieldTypes
<1> HIDE DEF K
<1>4. Linking(H, K, s, b, k, FALSE)
  BY <1>2, <1>3 DEF Linking, d
<1>5. QED
  BY <1>2, <1>4 DEF K, d

\* No header is made, and no dependent but s changes what it waits for.
Steady(H, K, s) ==
  /\ IsFree(K) = IsFree(H)
  /\ \A x \in Headers \ {s} :
       /\ Unready(K, x) <=> Unready(H, x)
       /\ Unready(H, x) => K[x].status = H[x].status /\ K[x].body = H[x].body

\* A step that leaves every dependent but s alone leaves alone who is due and who is a when_all.
LEMMA SteadyFacts ==
  ASSUME NEW H, NEW K, NEW s, Steady(H, K, s)
  PROVE  /\ Due(K) \ {s} = Due(H) \ {s}
         /\ \A L : Steady(K, L, s) => Steady(H, L, s)
         /\ \A X, Y, y, z : HeapOK(H, X, y) /\ HeapOK(K, Y, z) => Alls(K) \ {s} = Alls(H) \ {s}
<1>1. Due(K) \ {s} = Due(H) \ {s}
  BY DEF Due, Steady
<1>2. \A L : Steady(K, L, s) => Steady(H, L, s)
  BY DEF Steady
<1>3. ASSUME NEW X, NEW Y, NEW y, NEW z, HeapOK(H, X, y), HeapOK(K, Y, z)
      PROVE  Alls(K) \ {s} = Alls(H) \ {s}
  <2>1. \A x \in Headers : H[x].body = "all" => Unready(H, x)
    BY <1>3, KindFacts DEF Bodiless
  <2>2. \A x \in Headers : K[x].body = "all" => Unready(K, x)
    BY <1>3, KindFacts DEF Bodiless
  <2>3. QED
    BY <2>1, <2>2 DEF Alls, Steady
<1>4. QED
  BY <1>1, <1>2, <1>3

\* A step that keeps the dependents leaves them alone.
LEMMA KeepsSteady ==
  ASSUME NEW H, NEW K, Keeps(H, K), NEW s
  PROVE  Steady(H, K, s)
<1>1. \A x \in Headers : Unready(K, x) <=> Unready(H, x)
  BY KeepsFacts
<1>2. QED
  BY <1>1 DEF Keeps, Steady, Alike

\* A reference taken and given back leaves the tally as it was.
LEMMA GiveBack ==
  ASSUME NEW X \in Tallies, NEW a \in Headers, NEW b \in Headers
  PROVE  LET Y == Give(Give(X, a, -1), b, 1)
         IN  \A x \in Headers : Give(Y, b, -1)[x] = Give(X, a, -1)[x]
<1> DEFINE Z == Give(X, a, -1)
           Y == Give(Z, b, 1)
           V == Give(Y, b, -1)
<1>1. Z \in Tallies
  BY GiveFacts
<1> HIDE DEF Z
<1>2. Y \in Tallies /\ Y[b] = Z[b] + 1 /\ (\A x \in Headers \ {b} : Y[x] = Z[x]) /\ Z[b] \in Int
  BY <1>1, GiveFacts
<1> HIDE DEF Y
<1>3. V[b] = Y[b] + (-1) /\ (\A x \in Headers \ {b} : V[x] = Y[x])
  <2>1. Y \in Tallies /\ -1 \in Int
    BY <1>2
  <2>2. QED
    BY <2>1, GiveFacts
<1> HIDE DEF V
<1>4. V[b] = Z[b]
  BY <1>2, <1>3
<1>5. \A x \in Headers : V[x] = Z[x]
  BY <1>2, <1>3, <1>4
<1>6. QED
  BY <1>5 DEF V, Y, Z

\* A dependent s under construction: nothing links to it yet.
Building(H, X, s, k) ==
  /\ Unready(H, s) /\ H[s].body \in {"then", "all"} /\ H[s].ref = 2 /\ X[s] = 1
  /\ Len(H[s].deps) = k

\* Nothing waits for a dependent that is being built.
LEMMA BuildingFacts ==
  ASSUME NEW H, NEW X \in Tallies, HeapOK(H, X, Nil), NEW s \in Headers, NEW k, Building(H, X, s, k)
  PROVE  LinksTo(H, s) = {} /\ s \in Headers \ {Always} /\ s # Nil
<1>1. s # Nil /\ s # Always /\ H \in Heaps
  BY Constants, KindFacts, HeapHeader DEF Building
<1>2. CountOK(H, X, Nil, s) /\ Own(H, s, Nil) = 1
  BY <1>1, HeapHeader DEF Own, Building
<1>3. Cardinality(LinksTo(H, s)) \in Nat /\ Cardinality(ResultFor(H, s)) \in Nat /\ IsFiniteSet(LinksTo(H, s))
  BY FiniteCounts
<1>4. 2 = 1 + Cardinality(LinksTo(H, s)) + Cardinality(ResultFor(H, s)) + 1
  BY <1>2 DEF CountOK, Building
<1>5. Cardinality(LinksTo(H, s)) = 0
  BY <1>3, <1>4
<1>6. QED
  BY <1>1, <1>3, <1>5, FS_EmptySet

\* The first half of linking to a: past a proxy.
LEMMA PastProxy ==
  ASSUME NEW H, NEW X \in Tallies, HeapOK(H, X, Nil), NEW s \in Headers, NEW k, Building(H, X, s, k),
         NEW a \in Headers \ {s}, a # Always => X[a] >= 1, \A x \in Headers \ {Always} : X[x] >= 0
  PROVE  LET b == IF Proxying(H, a) THEN Proxied(H, a) ELSE a
             J == IF Proxying(H, a) THEN DropForProxied(H, a) ELSE H
         IN  \E Y \in Tallies :
               /\ HeapOK(J, Y, Nil) /\ Keeps(H, J) /\ b \in Headers \ {s} /\ (b # Always => Y[b] >= 1)
               /\ ~ Proxying(J, b) /\ Building(J, Y, s, k)
               /\ \A x \in Headers : Give(Y, b, -1)[x] = Give(X, a, -1)[x]
<1>1. a # Nil /\ s # Nil
  BY Constants
<1>2. CASE ~ Proxying(H, a)
  BY <1>2, KeepsSame
<1>3. CASE Proxying(H, a)
  <2> DEFINE b == Proxied(H, a)
             J == DropForProxied(H, a)
             Z == Give(X, a, -1)
             Y == Give(Z, b, 1)
  <2>1. b \in Headers \ {a} /\ a \in Headers \ {Always} /\ ~ Proxying(H, b) /\ LinksTo(H, b) # {}
    BY <1>1, <1>3, ProxiedFacts
  <2>2. b # s
    BY <2>1, BuildingFacts
  <2>3. X[a] >= 1
    BY <2>1
  <2>4. /\ Y \in Tallies /\ HeapOK(J, Y, Nil) /\ Keeps(H, J)
        /\ \A x \in Headers : Alike(J[x], H[x])
        /\ \A x \in Headers \ {a, b} : J[x] = H[x]
    BY <1>1, <1>3, <2>3, DropForProxiedOK
  <2>5. \A x \in Headers : Give(Y, b, -1)[x] = Give(X, a, -1)[x]
    BY <2>1, GiveBack
  <2>6. Z \in Tallies /\ (\A x \in Headers \ {a} : Z[x] = X[x]) /\ \A x \in Headers : X[x] \in Int
    BY GiveFacts
  <2> HIDE DEF Z, b, J
  <2>7. Y[b] = Z[b] + 1 /\ \A x \in Headers \ {b} : Y[x] = Z[x]
    BY <2>1, <2>6, GiveFacts
  <2>8. b # Always => Y[b] >= 1
    <3>1. b # Always => X[b] >= 0 /\ Z[b] = X[b] /\ X[b] \in Int
      BY <2>1, <2>6
    <3>2. QED
      BY <2>7, <3>1
  <2>9. Building(J, Y, s, k)
    <3>1. J[s] = H[s] /\ Y[s] = X[s]
      BY <2>1, <2>2, <2>4, <2>6, <2>7
    <3>2. QED
      BY <3>1 DEF Building, Unready, Ready
  <2>10. ~ Proxying(J, b)
    BY <2>1, <2>4 DEF Proxying, Alike
  <2> HIDE DEF Y
  <2>11. QED
    BY <1>3, <2>1, <2>2, <2>4, <2>5, <2>8, <2>9, <2>10 DEF b, J
<1>4. QED
  BY <1>2, <1>3

\* What a dependent gains when the dependency on a is linked.
LEMMA LinkDependencyOK ==
  ASSUME NEW H, NEW X \in Tallies, HeapOK(H, X, Nil), NEW s \in Headers, NEW k \in 1 .. MaxArgs,
         Building(H, X, s, k - 1), NEW a \in Headers \ {s}, a # Always => X[a] >= 1,
         \A x \in Headers \ {Always} : X[x] >= 0
  PROVE  LET K == LinkDependency(H, s, k, a)
         IN  /\ HeapOK(K, Give(X, a, -1), Nil) /\ Building(K, Give(X, a, -1), s, k)
             /\ Steady(H, K, s) /\ K[s].body = H[s].body
<1> DEFINE b == IF Proxying(H, a) THEN Proxied(H, a) ELSE a
           J == IF Proxying(H, a) THEN DropForProxied(H, a) ELSE H
           K == LinkDependency(H, s, k, a)
           W == Give(X, a, -1)
<1>1. PICK Y \in Tallies :
               /\ HeapOK(J, Y, Nil) /\ Keeps(H, J) /\ b \in Headers \ {s} /\ (b # Always => Y[b] >= 1)
               /\ ~ Proxying(J, b) /\ Building(J, Y, s, k - 1)
               /\ \A x \in Headers : Give(Y, b, -1)[x] = W[x]
  BY PastProxy
<1>2. K = IF Ready(J, b)
          THEN [DropForResult(J, b) EXCEPT ![s].deps = Append(@, [dep |-> J[b].result, linked |-> FALSE])]
          ELSE LinkDependencyTo(J, b, s, k)
  BY DEF LinkDependency
<1>3. W[s] = X[s] /\ X[s] = 1
  BY GiveFacts DEF Building
<1>4. J \in Heaps /\ Steady(H, J, s) /\ s # Nil /\ J[s].body = H[s].body
  <2>1. J \in Heaps /\ Unready(J, s)
    BY <1>1, HeapHeader DEF Building
  <2>2. J[s].body = H[s].body
    BY <1>1, <2>1 DEF Keeps, Alike
  <2>3. QED
    BY <1>1, <2>1, <2>2, KeepsSteady, Constants
<1> HIDE DEF b, J, K, W
<1>5. CASE ~ Ready(J, b)
  <2>1. K = LinkDependencyTo(J, b, s, k)
    BY <1>2, <1>5
  <2>2. Unready(J, s) /\ J[s].body \in {"then", "all"} /\ k = Len(J[s].deps) + 1 /\ J[s].ref = 2
    <3>1. Len(J[s].deps) = k - 1
      BY <1>1 DEF Building
    <3>2. QED
      BY <1>1, <3>1 DEF Building
  <2>3. J[s].status + 1 \in -3 .. MaxArgs
    <3>1. BodyOK(J, s)
      BY <1>1, <1>4, <2>2, KindFacts
    <3>2. OpenOf(J, s) \in SUBSET (1 .. k - 1) /\ k - 1 \in Nat
      BY <1>4, <2>2, FieldTypes DEF OpenOf
    <3>3. Cardinality(OpenOf(J, s)) \in Nat /\ Cardinality(OpenOf(J, s)) <= k - 1
      BY <3>2, RankFacts
    <3>4. J[s].status = Cardinality(OpenOf(J, s))
      BY <2>2, <3>1 DEF BodyOK
    <3>5. QED
      BY <3>3, <3>4, Constants
  <2>4. K \in Heaps /\ Linking(J, K, s, b, k, TRUE)
    BY <1>1, <1>4, <2>1, <2>3, LinkToFields
  <2>5. Allocated(J, b)
    BY <1>1, HeldAllocated
  <2>6. /\ HeapOK(K, Give(Y, b, -1), Nil) /\ Unready(K, s) /\ Len(K[s].deps) = k /\ IsFree(K) = IsFree(J)
        /\ \A x \in Headers : Unready(K, x) <=> Unready(J, x)
    <3> DEFINE f == TRUE
    <3>1. f \in BOOLEAN /\ (f => Allocated(J, b) /\ ~ Ready(J, b)) /\ (~ f => IsResult(J, b))
      BY <1>5, <2>5
    <3>2. Linking(J, K, s, b, k, f) /\ K \in Heaps
      BY <2>4
    <3>3. b \in Headers \ {s} /\ HeapOK(J, Y, Nil)
      BY <1>1
    <3> HIDE DEF f
    <3>4. QED
      BY <2>2, <3>1, <3>2, <3>3, LinkOK
  <2>7. HeapOK(K, W, Nil)
    BY <1>1, <2>6, HeapTally
  <2>8. K[s].ref = J[s].ref /\ K[s].body = J[s].body
    BY <2>4 DEF Linking
  <2>9. \A x \in Headers \ {s} : K[x].status = J[x].status /\ K[x].body = J[x].body
    BY <2>4 DEF Linking
  <2>10. Steady(J, K, s)
    BY <2>6, <2>9 DEF Steady
  <2>11. Building(K, W, s, k)
    BY <1>3, <2>2, <2>6, <2>8 DEF Building
  <2>12. QED
    BY <1>4, <2>7, <2>8, <2>10, <2>11, SteadyFacts DEF K, W
<1>6. CASE Ready(J, b)
  <2> DEFINE r == J[b].result
             L == DropForResult(J, b)
             Z == Give(Give(Y, b, -1), r, 1)
  <2>1. b # Nil
    BY <1>1, Constants
  <2>2. r \in Headers /\ Z \in Tallies /\ HeapOK(L, Z, Nil) /\ Keeps(J, L) /\ IsResult(L, r) /\ IsResult(J, r)
    BY <1>1, <1>6, <2>1, DropForResultOK
  <2>3. \A x \in Headers : Give(Z, r, -1)[x] = Give(Y, b, -1)[x]
    BY <1>1, <2>2, GiveBack
  <2>4. r # s
    <3>1. Unready(J, s)
      BY <1>1 DEF Building
    <3>2. ~ IsResult(J, s)
      BY <1>1, <3>1, KindFacts
    <3>3. QED
      BY <2>2, <3>2
  <2>5. L[s] = J[s]
    <3>1. s # b
      BY <1>1
    <3>2. \A n \in Int : AddRef(J, b, n)[s] = J[s] /\ DOMAIN AddRef(J, b, n) = Headers
      BY <1>4, <3>1 DEF AddRef, Heaps
    <3>3. \A G : DOMAIN G = Headers => AddRef(G, r, 1)[s] = G[s]
      BY <2>4 DEF AddRef
    <3>4. [J EXCEPT ![b] = DeadHeader][s] = J[s]
      BY <1>4, <3>1 DEF Heaps
    <3>5. QED
      BY <3>2, <3>3, <3>4 DEF DropForResult
  <2>6. L \in Heaps /\ Z[s] = 1
    <3>1. Z[s] = Give(Y, b, -1)[s]
      <4> DEFINE V == Give(Y, b, -1)
      <4>1. -1 \in Int /\ 1 \in Int /\ s \in Headers \ {r}
        BY <2>4
      <4>2. V \in Tallies
        BY <1>1, <4>1, GiveFacts
      <4> HIDE DEF V, r
      <4>3. Give(V, r, 1)[s] = V[s]
        BY <2>2, <4>1, <4>2, GiveFacts
      <4>4. QED
        BY <4>3 DEF V
    <3>2. QED
      BY <1>1, <1>3, <2>2, <3>1, HeapHeader
  <2> HIDE DEF L, Z, r
  <2>7. K = [L EXCEPT ![s].deps = Append(@, [dep |-> r, linked |-> FALSE])]
    BY <1>2, <1>6 DEF L, r
  <2>8. K \in Heaps /\ Linking(L, K, s, r, k, FALSE)
    BY <2>2, <2>4, <2>6, <2>7, LinkDoneFields
  <2>9. Unready(L, s) /\ L[s].body \in {"then", "all"} /\ k = Len(L[s].deps) + 1 /\ L[s].ref = 2
    <3>1. Len(J[s].deps) = k - 1
      BY <1>1 DEF Building
    <3>2. QED
      BY <1>1, <2>5, <3>1 DEF Building, Unready, Ready
  <2>10. /\ HeapOK(K, Give(Z, r, -1), Nil) /\ Unready(K, s) /\ Len(K[s].deps) = k /\ IsFree(K) = IsFree(L)
         /\ \A x \in Headers : Unready(K, x) <=> Unready(L, x)
    <3> DEFINE f == FALSE
    <3>1. f \in BOOLEAN /\ (f => Allocated(L, r) /\ ~ Ready(L, r)) /\ (~ f => IsResult(L, r))
      BY <2>2
    <3>2. Linking(L, K, s, r, k, f) /\ K \in Heaps
      BY <2>8
    <3>3. r \in Headers \ {s} /\ HeapOK(L, Z, Nil) /\ Z \in Tallies
      BY <2>2, <2>4
    <3> HIDE DEF f
    <3>4. QED
      BY <2>9, <3>1, <3>2, <3>3, LinkOK
  <2>11. HeapOK(K, W, Nil)
    BY <1>1, <2>3, <2>10, HeapTally
  <2>12. K[s].ref = L[s].ref /\ K[s].body = L[s].body
    BY <2>8 DEF Linking
  <2>13. \A x \in Headers \ {s} : K[x].status = L[x].status /\ K[x].body = L[x].body
    BY <2>8 DEF Linking
  <2>14. Steady(L, K, s)
    BY <2>10, <2>13 DEF Steady
  <2>15. Building(K, W, s, k)
    BY <1>3, <2>9, <2>10, <2>12 DEF Building
  <2>16. Steady(J, L, s)
    BY <2>2, KeepsSteady
  <2>17. Steady(H, K, s)
    BY <1>4, <2>14, <2>16, SteadyFacts
  <2>18. QED
    BY <1>4, <2>5, <2>11, <2>12, <2>15, <2>17 DEF K, W
<1>7. QED
  BY <1>5, <1>6

\* f is the sequence of heaps of the first n dependencies.
LinkRun(f, H, s, fs, n) ==
  f = [k \in 0 .. n |-> IF k = 0 THEN H ELSE LinkDependency(f[k - 1], s, k, fs[k])]

\* The heaps that linking the arguments one by one goes through exist.
LEMMA LinkRunExists ==
  ASSUME NEW H, NEW s, NEW fs
  PROVE  \A n \in Nat : \E f : LinkRun(f, H, s, fs, n)
<1> DEFINE Bad == {n \in Nat : ~ \E f : LinkRun(f, H, s, fs, n)}
<1> SUFFICES ASSUME Bad # {}
             PROVE  FALSE
  OBVIOUS
<1>1. PICK n \in Bad : \A k \in Bad : n <= k
  BY LeastNat
<1>2. n \in Nat /\ ~ \E f : LinkRun(f, H, s, fs, n)
  BY <1>1
<1>3. CASE n = 0
  <2> DEFINE f == [k \in 0 .. 0 |-> H]
  <2>1. \A k \in 0 .. 0 : k = 0
    OBVIOUS
  <2>2. LinkRun(f, H, s, fs, 0)
    BY <2>1 DEF LinkRun
  <2>3. QED
    BY <2>2, <1>2, <1>3
<1>4. CASE n # 0
  <2>1. n - 1 \in Nat /\ n - 1 \notin Bad
    BY <1>1, <1>2, <1>4
  <2>2. PICK f : LinkRun(f, H, s, fs, n - 1)
    BY <2>1
  <2> DEFINE g == [k \in 0 .. n |-> IF k < n THEN f[k] ELSE LinkDependency(f[n - 1], s, n, fs[n])]
  <2>3. \A k \in 0 .. n - 1 : f[k] = IF k = 0 THEN H ELSE LinkDependency(f[k - 1], s, k, fs[k])
    BY <2>2 DEF LinkRun
  <2>4. \A k \in 0 .. n - 1 : g[k] = f[k]
    BY <1>2
  <2>5. g[n] = LinkDependency(f[n - 1], s, n, fs[n])
    BY <1>2
  <2>6. DOMAIN g = 0 .. n /\ g = [k \in 0 .. n |-> g[k]]
    OBVIOUS
  <2> HIDE DEF g
  <2>7. ASSUME NEW k \in 0 .. n
        PROVE  g[k] = IF k = 0 THEN H ELSE LinkDependency(g[k - 1], s, k, fs[k])
    <3>1. CASE k = n
      <4>1. g[n - 1] = f[n - 1]
        BY <1>2, <2>1, <2>4
      <4>2. QED
        BY <1>4, <2>5, <3>1, <4>1
    <3>2. CASE k # n /\ k = 0
      BY <1>2, <2>1, <2>3, <2>4, <3>2
    <3>3. CASE k # n /\ k # 0
      <4>1. k \in 0 .. n - 1 /\ k - 1 \in 0 .. n - 1
        BY <1>2, <3>3
      <4>2. QED
        BY <2>3, <2>4, <3>3, <4>1
    <3>4. QED
      BY <3>1, <3>2, <3>3
  <2>8. LinkRun(g, H, s, fs, n)
    BY <2>6, <2>7 DEF LinkRun
  <2>9. QED
    BY <2>8, <1>2
<1>5. QED
  BY <1>3, <1>4

\* LinkAll is the last of these heaps.
LEMMA LinkAllRun ==
  ASSUME NEW H, NEW s, NEW fs, Len(fs) \in Nat
  PROVE  \E f : LinkRun(f, H, s, fs, Len(fs)) /\ LinkAll(H, s, fs) = f[Len(fs)]
<1> DEFINE n == Len(fs)
           f == CHOOSE g : g = [k \in 0 .. n |-> IF k = 0 THEN H ELSE LinkDependency(g[k - 1], s, k, fs[k])]
<1>1. \E g : g = [k \in 0 .. n |-> IF k = 0 THEN H ELSE LinkDependency(g[k - 1], s, k, fs[k])]
  <2>1. PICK g : LinkRun(g, H, s, fs, n)
    BY LinkRunExists
  <2>2. QED
    BY <2>1 DEF LinkRun
<1>2. LinkRun(f, H, s, fs, n)
  BY <1>1 DEF LinkRun
<1>3. LinkAll(H, s, fs) = f[n]
  BY DEF LinkAll
<1>4. QED
  BY <1>2, <1>3

\* The references that the arguments after the k'th still carry.
Uses(fs, k, x)  == {j \in k + 1 .. Len(fs) : fs[j] = x}
Owed(B, fs, k)  == [x \in Headers |-> B[x] + Cardinality(Uses(fs, k, x))]

\* How often a header is among the arguments that are still to be linked.
LEMMA UsesFacts ==
  ASSUME NEW fs \in Seq(Headers), NEW k \in 0 .. Len(fs), NEW x
  PROVE  /\ IsFiniteSet(Uses(fs, k, x)) /\ Cardinality(Uses(fs, k, x)) \in Nat
         /\ k = Len(fs) => Cardinality(Uses(fs, k, x)) = 0
         /\ k < Len(fs) => Cardinality(Uses(fs, k, x)) =
                             Cardinality(Uses(fs, k + 1, x)) + (IF fs[k + 1] = x THEN 1 ELSE 0)
<1> DEFINE n == Len(fs)
<1>1. n \in Nat /\ k \in 0 .. n
  BY LenProperties
<1> HIDE DEF n
<1>2. \A j \in Nat : Uses(fs, j, x) \in SUBSET (1 .. n)
  BY <1>1 DEF Uses, n
<1>3. \A j \in Nat : IsFiniteSet(Uses(fs, j, x)) /\ Cardinality(Uses(fs, j, x)) \in Nat
  BY <1>1, <1>2, RankFacts
<1>4. k = n => Cardinality(Uses(fs, k, x)) = 0
  <2>1. k = n => Uses(fs, k, x) = {}
    BY <1>1 DEF Uses, n
  <2>2. QED
    BY <2>1, FS_EmptySet
<1>5. ASSUME k < n
      PROVE  Cardinality(Uses(fs, k, x)) = Cardinality(Uses(fs, k + 1, x)) + (IF fs[k + 1] = x THEN 1 ELSE 0)
  <2> DEFINE U == Uses(fs, k + 1, x)
             e == k + 1
  <2>1. \A j : j \in k + 1 .. n <=> j = e \/ j \in e + 1 .. n
    BY <1>1, <1>5
  <2>2. Uses(fs, k, x) = IF fs[k + 1] = x THEN U \cup {e} ELSE U
    BY <2>1 DEF Uses, n
  <2>3. e \notin U /\ IsFiniteSet(U) /\ Cardinality(U) \in Nat
    <3>1. e \in Nat /\ e \notin e + 1 .. n
      BY <1>1
    <3>2. QED
      BY <1>3, <3>1 DEF Uses, n
  <2> HIDE DEF U, e
  <2>4. Cardinality(U \cup {e}) = Cardinality(U) + 1
    BY <2>3, FS_AddElement
  <2>5. QED
    BY <2>2, <2>3, <2>4 DEF U
<1>6. QED
  BY <1>1, <1>3, <1>4, <1>5 DEF n

\* The caller can link argument a to s with the references X.
Linkable(X, s, a) ==
  /\ X \in Tallies /\ (\A x \in Headers \ {Always} : X[x] >= 0)
  /\ a \in Headers \ {s} /\ (a # Always => X[a] >= 1)

\* Every heap that linking the arguments goes through is whole.
LEMMA LinkRunOK ==
  ASSUME NEW H, NEW B \in Tallies, NEW s \in Headers, NEW fs \in Seq(Headers), Len(fs) <= MaxArgs,
         \A x \in Headers \ {Always} : B[x] >= 0, \A j \in DOMAIN fs : fs[j] # s,
         HeapOK(H, Owed(B, fs, 0), Nil), Building(H, Owed(B, fs, 0), s, 0), NEW f, LinkRun(f, H, s, fs, Len(fs))
  PROVE  \A k \in 0 .. Len(fs) :
           /\ HeapOK(f[k], Owed(B, fs, k), Nil) /\ Building(f[k], Owed(B, fs, k), s, k)
           /\ Steady(H, f[k], s) /\ f[k][s].body = H[s].body
           /\ k # Len(fs) => Linkable(Owed(B, fs, k), s, fs[k + 1])
<1> DEFINE n == Len(fs)
           X(k) == Owed(B, fs, k)
<1>1. n \in Nat /\ DOMAIN fs = 1 .. n /\ \A j \in 1 .. n : fs[j] \in Headers \ {s}
  BY LenProperties
<1>2. LinkRun(f, H, s, fs, n)
  OBVIOUS
<1> HIDE DEF n
<1>3. f[0] = H /\ \A k \in 1 .. n : f[k] = LinkDependency(f[k - 1], s, k, fs[k])
  BY <1>1, <1>2 DEF LinkRun
<1>4. \A x \in Headers : B[x] \in Int
  BY DEF Tallies
<1>5. \A k \in 0 .. n : /\ X(k) \in Tallies
                        /\ \A x \in Headers : X(k)[x] = B[x] + Cardinality(Uses(fs, k, x))
                        /\ \A x \in Headers \ {Always} : X(k)[x] >= 0
  <2> TAKE k \in 0 .. n
  <2>1. \A x \in Headers : Cardinality(Uses(fs, k, x)) \in Nat
    BY UsesFacts DEF n
  <2>2. \A x \in Headers : X(k)[x] = B[x] + Cardinality(Uses(fs, k, x)) /\ X(k)[x] \in Int
    BY <1>4, <2>1 DEF Owed
  <2>3. X(k) \in Tallies
    BY <2>2 DEF Owed, Tallies
  <2>4. QED
    BY <1>4, <2>1, <2>2, <2>3
<1>6. ASSUME NEW k \in 1 .. n
      PROVE  X(k - 1)[fs[k]] >= 1 \/ fs[k] = Always
  <2>1. k - 1 \in 0 .. n /\ k - 1 < n /\ k \in 0 .. n /\ (k - 1) + 1 = k /\ fs[k] \in Headers
    BY <1>1
  <2>2. Cardinality(Uses(fs, k - 1, fs[k])) = Cardinality(Uses(fs, k, fs[k])) + 1
        /\ Cardinality(Uses(fs, k, fs[k])) \in Nat
    BY <2>1, UsesFacts DEF n
  <2>3. X(k - 1)[fs[k]] = B[fs[k]] + Cardinality(Uses(fs, k, fs[k])) + 1
    <3>1. X(k - 1)[fs[k]] = B[fs[k]] + Cardinality(Uses(fs, k - 1, fs[k])) /\ B[fs[k]] \in Int
      BY <1>4, <1>5, <2>1
    <3> DEFINE b == B[fs[k]]
               c == Cardinality(Uses(fs, k, fs[k]))
               e == X(k - 1)[fs[k]]
    <3>2. e = b + (c + 1) /\ b \in Int /\ c \in Nat
      BY <2>2, <3>1
    <3> HIDE DEF b, c, e
    <3>3. e = b + c + 1
      BY <3>2
    <3>4. QED
      BY <3>3 DEF b, c, e
  <2>4. fs[k] # Always => B[fs[k]] >= 0 /\ B[fs[k]] \in Int
    BY <1>4, <2>1
  <2>5. QED
    BY <2>2, <2>3, <2>4
<1>7. ASSUME NEW k \in 1 .. n, NEW x \in Headers
      PROVE  Give(X(k - 1), fs[k], -1)[x] = X(k)[x]
  <2>1. k - 1 \in 0 .. n /\ k - 1 < n /\ k \in 0 .. n /\ (k - 1) + 1 = k /\ fs[k] \in Headers /\ -1 \in Int
    BY <1>1
  <2>2. Cardinality(Uses(fs, k - 1, x)) = Cardinality(Uses(fs, k, x)) + (IF fs[k] = x THEN 1 ELSE 0)
        /\ Cardinality(Uses(fs, k, x)) \in Nat
    BY <2>1, UsesFacts DEF n
  <2>3. X(k - 1)[x] = B[x] + Cardinality(Uses(fs, k - 1, x)) /\ X(k)[x] = B[x] + Cardinality(Uses(fs, k, x))
        /\ X(k - 1) \in Tallies
    BY <1>5, <2>1
  <2>4. B[x] \in Int
    BY <1>4
  <2> HIDE DEF X
  <2>5. Give(X(k - 1), fs[k], -1)[x] = X(k - 1)[x] + (IF fs[k] = x THEN -1 ELSE 0)
    <3>1. X(k - 1)[x] \in Int
      BY <2>3 DEF Tallies
    <3>2. CASE fs[k] = x
      BY <2>1, <2>3, <3>2, GiveFacts
    <3>3. CASE fs[k] # x
      <4>1. x \in Headers \ {fs[k]}
        BY <3>3
      <4>2. Give(X(k - 1), fs[k], -1)[x] = X(k - 1)[x]
        <5> DEFINE Y == X(k - 1)
                   a == fs[k]
        <5>1. Y \in Tallies /\ a \in Headers /\ -1 \in Int /\ x \in Headers \ {a}
          BY <2>1, <2>3, <4>1
        <5> HIDE DEF Y, a
        <5>2. Give(Y, a, -1)[x] = Y[x]
          BY <5>1, GiveFacts
        <5>3. QED
          BY <5>2 DEF Y, a
      <4>3. QED
        BY <3>1, <3>3, <4>2
    <3>4. QED
      BY <3>2, <3>3
  <2>6. QED
    BY <2>2, <2>3, <2>4, <2>5
<1> DEFINE Good(k) == /\ HeapOK(f[k], X(k), Nil) /\ Building(f[k], X(k), s, k)
                      /\ Steady(H, f[k], s) /\ f[k][s].body = H[s].body
<1>8. Good(0)
  BY <1>3 DEF Steady
<1> HIDE DEF X
<1>9. ASSUME NEW k \in 1 .. n, Good(k - 1)
      PROVE  Good(k)
  <2> DEFINE J == f[k - 1]
             Y == X(k - 1)
             W == Give(Y, fs[k], -1)
  <2>1. HeapOK(J, Y, Nil) /\ Building(J, Y, s, k - 1) /\ Y \in Tallies /\ k \in 1 .. MaxArgs
        /\ \A x \in Headers \ {Always} : Y[x] >= 0
    BY <1>1, <1>5, <1>9, Constants DEF n
  <2>2. fs[k] \in Headers \ {s} /\ (fs[k] # Always => Y[fs[k]] >= 1)
    BY <1>1, <1>6
  <2>3. Steady(H, J, s) /\ J[s].body = H[s].body
    BY <1>9
  <2>4. f[k] = LinkDependency(J, s, k, fs[k])
    BY <1>3
  <2>5. \A x \in Headers : W[x] = X(k)[x]
    BY <1>7
  <2> HIDE DEF J, Y
  <2>6. /\ HeapOK(f[k], W, Nil) /\ Building(f[k], W, s, k)
        /\ Steady(J, f[k], s) /\ f[k][s].body = J[s].body
    BY <2>1, <2>2, <2>4, LinkDependencyOK
  <2> HIDE DEF W
  <2>7. HeapOK(f[k], X(k), Nil)
    BY <2>5, <2>6, HeapTally
  <2>8. Building(f[k], X(k), s, k)
    BY <2>5, <2>6 DEF Building
  <2>9. QED
    BY <2>3, <2>6, <2>7, <2>8, SteadyFacts
<1> HIDE DEF Good
<1>10. \A k \in 0 .. n : Good(k)
  <2> DEFINE Bad == {k \in Nat : k <= n /\ ~ Good(k)}
  <2> SUFFICES ASSUME Bad # {}
               PROVE  FALSE
    BY <1>1
  <2>1. PICK k \in Bad : \A j \in Bad : k <= j
    BY LeastNat
  <2>2. k \in Nat /\ k <= n /\ ~ Good(k) /\ k # 0
    BY <1>8, <2>1
  <2>3. k \in 1 .. n /\ k - 1 \in Nat /\ k - 1 <= n /\ ~ (k <= k - 1)
    BY <1>1, <2>2
  <2>4. Good(k - 1)
    BY <2>1, <2>3
  <2>5. QED
    BY <1>9, <2>2, <2>3, <2>4
<1>11. ASSUME NEW k \in 0 .. n, k # n
       PROVE  Linkable(X(k), s, fs[k + 1])
  <2>1. k + 1 \in 1 .. n /\ (k + 1) - 1 = k
    BY <1>1, <1>11
  <2>2. X(k)[fs[k + 1]] >= 1 \/ fs[k + 1] = Always
    BY <1>6, <2>1
  <2>3. QED
    BY <1>1, <1>5, <2>1, <2>2 DEF Linkable
<1>12. QED
  BY <1>10, <1>11 DEF Good, X, n

\* future_dependency_shref_base for every argument keeps the heap whole and leaves the caller with
\* what it did not pass.
LEMMA LinkAllOK ==
  ASSUME NEW H, NEW B \in Tallies, NEW s \in Headers, NEW fs \in Seq(Headers), Len(fs) <= MaxArgs,
         \A x \in Headers \ {Always} : B[x] >= 0, \A j \in DOMAIN fs : fs[j] # s,
         HeapOK(H, Owed(B, fs, 0), Nil), Building(H, Owed(B, fs, 0), s, 0)
  PROVE  LET K == LinkAll(H, s, fs)
         IN  HeapOK(K, B, Nil) /\ Building(K, B, s, Len(fs)) /\ Steady(H, K, s) /\ K[s].body = H[s].body
<1> DEFINE n == Len(fs)
           X == Owed(B, fs, n)
<1>1. n \in Nat /\ n \in 0 .. n
  BY LenProperties
<1>2. PICK f : LinkRun(f, H, s, fs, n) /\ LinkAll(H, s, fs) = f[n]
  BY <1>1, LinkAllRun
<1>3. HeapOK(f[n], X, Nil) /\ Building(f[n], X, s, n) /\ Steady(H, f[n], s) /\ f[n][s].body = H[s].body
  BY <1>1, <1>2, LinkRunOK
<1>4. \A x \in Headers : B[x] = X[x]
  <2>1. \A x \in Headers : Cardinality(Uses(fs, n, x)) = 0 /\ B[x] \in Int
    BY <1>1, UsesFacts DEF Tallies
  <2>2. \A x \in Headers : X[x] = B[x] + Cardinality(Uses(fs, n, x))
    BY DEF Owed
  <2> HIDE DEF X, n
  <2>3. QED
    BY <2>1, <2>2
<1> HIDE DEF X, n
<1>5. HeapOK(f[n], B, Nil)
  BY <1>3, <1>4, HeapTally
<1>6. Building(f[n], B, s, n)
  BY <1>3, <1>4 DEF Building
<1>7. QED
  BY <1>2, <1>3, <1>5, <1>6 DEF n

-----------------------------------------------------------------------------
(* A header becomes ready                                                  *)

\* A sequence of distinct elements has as many places as elements.
LEMMA SeqCount ==
  ASSUME NEW T, NEW s \in Seq(T), Lists!IsInjective(s)
  PROVE  IsFiniteSet(Lists!ToSet(s)) /\ Cardinality(Lists!ToSet(s)) = Len(s)
<1> DEFINE n == Len(s)
           f == [i \in 1 .. n |-> s[i]]
<1>1. n \in Nat /\ DOMAIN s = 1 .. n
  BY LenProperties
<1>2. IsFiniteSet(1 .. n) /\ Cardinality(1 .. n) = n
  BY <1>1, FS_Interval
<1>3. f \in Surjection(1 .. n, Lists!ToSet(s))
  BY <1>1 DEF Surjection, Lists!ToSet
<1>4. f \in Injection(1 .. n, Lists!ToSet(s))
  BY <1>1, <1>3 DEF Surjection, Injection, IsInjective, Lists!IsInjective
<1>5. ExistsBijection(1 .. n, Lists!ToSet(s))
  BY <1>3, <1>4 DEF Bijection, ExistsBijection
<1>6. QED
  BY <1>2, <1>5, FS_Bijection

\* The entries of the successor list of h that belong to d, and the links of d to h.
Hits(H, h, d)  == {j \in DOMAIN H[h].sucs : H[h].sucs[j][1] = d}
Waits(H, h, d) == {k \in DOMAIN H[d].deps : <<d, k>> \in OpenTo(H, h)}

\* The entries of a successor list that belong to d are the open links of d to its header.
LEMMA HitsFacts ==
  ASSUME NEW H, NEW X, NEW z, HeapOK(H, X, z), NEW h \in Headers, NEW d \in Headers
  PROVE  /\ Hits(H, h, d) \in SUBSET (1 .. Len(H[h].sucs)) /\ IsFiniteSet(Hits(H, h, d))
         /\ Cardinality(Hits(H, h, d)) \in Nat /\ Cardinality(Hits(H, h, d)) = Cardinality(Waits(H, h, d))
         /\ Waits(H, h, d) = {k \in OpenOf(H, d) : H[d].deps[k].dep = h}
         /\ IsFiniteSet(OpenOf(H, d)) /\ Cardinality(OpenOf(H, d)) \in Nat
         /\ ~ Unready(H, d) \/ d = z => OpenOf(H, d) = {}
<1> DEFINE n == Len(H[h].sucs)
           s == H[h].sucs
           A == Hits(H, h, d)
           B == Waits(H, h, d)
           f == [j \in A |-> s[j][2]]
<1>1. H \in Heaps /\ n \in Nat /\ DOMAIN s = 1 .. n /\ (\A j \in 1 .. n : s[j] \in Pairs)
      /\ Lists!IsInjective(s) /\ Lists!ToSet(s) = OpenTo(H, h)
  BY HeapHeader, FieldTypes DEF SuccessorsOK
<1>2. A \in SUBSET (1 .. n) /\ IsFiniteSet(A) /\ Cardinality(A) \in Nat
  <2>1. A \in SUBSET (1 .. n)
    BY <1>1 DEF Hits
  <2>2. QED
    BY <1>1, <2>1, RankFacts
<1>3. OpenOf(H, d) \in SUBSET (1 .. Len(H[d].deps)) /\ Len(H[d].deps) \in Nat
  BY <1>1, FieldTypes DEF OpenOf
<1>4. IsFiniteSet(OpenOf(H, d)) /\ Cardinality(OpenOf(H, d)) \in Nat
  BY <1>3, RankFacts
<1>5. ~ Unready(H, d) \/ d = z => OpenOf(H, d) = {}
  BY KindFacts DEF OpenOf, Bodiless
<1>6. B = {k \in OpenOf(H, d) : H[d].deps[k].dep = h}
  <2>1. ASSUME NEW k \in B
        PROVE  k \in OpenOf(H, d) /\ H[d].deps[k].dep = h
    BY DEF OpenTo, LinksTo, LinkAt, OpenOf, Waits
  <2>2. ASSUME NEW k \in OpenOf(H, d), H[d].deps[k].dep = h
        PROVE  k \in B
    <3>1. Unready(H, d) /\ d # z
      BY <1>5
    <3>2. Len(H[d].deps) <= MaxArgs
      BY <3>1, KindFacts DEF BodyOK
    <3>3. k \in 1 .. MaxArgs /\ k \in DOMAIN H[d].deps
      BY <1>3, <3>2, Constants DEF OpenOf
    <3>4. <<d, k>> \in Links(H)
      BY <3>3 DEF Links
    <3>5. QED
      BY <2>2, <3>3, <3>4 DEF Waits, OpenTo, LinksTo, LinkAt, OpenOf
  <2>3. QED
    BY <2>1, <2>2 DEF Waits
<1>7. \A j \in A : s[j] = <<d, s[j][2]>> /\ s[j] \in OpenTo(H, h)
  <2> TAKE j \in A
  <2>1. j \in 1 .. n /\ s[j][1] = d /\ s[j] \in Pairs /\ s[j] \in Lists!ToSet(s)
    BY <1>1 DEF Hits, Lists!ToSet
  <2>2. QED
    BY <1>1, <2>1 DEF Pairs
<1>8. f \in [A -> B]
  <2>1. \A j \in A : s[j][2] \in B
    BY <1>7 DEF Waits, OpenTo, LinksTo, Links
  <2>2. QED
    BY <2>1
<1>9. f \in Injection(A, B)
  <2>1. ASSUME NEW i \in A, NEW j \in A, s[i][2] = s[j][2]
        PROVE  i = j
    <3>1. s[i] = s[j] /\ i \in DOMAIN s /\ j \in DOMAIN s
      BY <1>7, <2>1 DEF Hits
    <3>2. QED
      BY <1>1, <3>1 DEF Lists!IsInjective
  <2> HIDE DEF A, B
  <2>2. QED
    BY <1>8, <2>1 DEF Injection, IsInjective
<1>10. f \in Surjection(A, B)
  <2>1. ASSUME NEW k \in B
        PROVE  \E j \in A : s[j][2] = k
    <3>1. <<d, k>> \in Lists!ToSet(s)
      BY <1>1 DEF Waits
    <3>2. PICK j \in DOMAIN s : s[j] = <<d, k>>
      BY <3>1 DEF Lists!ToSet
    <3>3. QED
      BY <3>2 DEF Hits
  <2> HIDE DEF A, B
  <2>2. QED
    BY <1>8, <2>1 DEF Surjection
<1> HIDE DEF A, B, f
<1>11. Cardinality(A) = Cardinality(B)
  <2>1. ExistsBijection(A, B)
    BY <1>9, <1>10 DEF Bijection, ExistsBijection
  <2>2. QED
    BY <1>2, <2>1, FS_Bijection
<1>12. QED
  BY <1>2, <1>4, <1>5, <1>6, <1>11 DEF A, B

\* h is ready with result r, and the links to it are resolved.
Resolving(H, K, h, r) ==
  /\ K[h].kind = H[h].kind /\ K[h].ref = H[h].ref /\ K[h].countdown = H[h].countdown
  /\ K[h].status = StatusReady /\ K[h].result = r /\ K[h].body = "none" /\ K[h].deps = <<>> /\ K[h].sucs = <<>>
  /\ \A d \in Headers \ {h} :
       /\ K[d].kind = H[d].kind /\ K[d].ref = H[d].ref /\ K[d].countdown = H[d].countdown
       /\ K[d].result = H[d].result /\ K[d].body = H[d].body /\ K[d].sucs = H[d].sucs
       /\ K[d].status = H[d].status - Cardinality(Hits(H, h, d))
       /\ K[d].deps = [k \in DOMAIN H[d].deps |-> IF <<d, k>> \in OpenTo(H, h)
                                                 THEN [dep |-> r, linked |-> FALSE] ELSE H[d].deps[k]]

\* The header that becomes ready: a dependent whose body is destroyed, or a promise.
Readied(H, X, z, h, r) ==
  /\ HeapOK(H, X, z) /\ h \in Headers \ {Always} /\ r \in Headers
  /\ \/ z = h /\ Unready(H, h) /\ r # h /\ IsResult(H, r)
     \/ z = Nil /\ H[h].kind = "promise" /\ ~ Ready(H, h) /\ H[h].countdown = 0 /\ r = h

\* What the header that is about to become ready looks like.
LEMMA ReadiedFacts ==
  ASSUME NEW H, NEW X, NEW z, NEW h, NEW r, Readied(H, X, z, h, r)
  PROVE  /\ H \in Heaps /\ ~ Ready(H, h) /\ Allocated(H, h) /\ LinksTo(H, h) = OpenTo(H, h)
         /\ ResultFor(H, h) = {} /\ Bodiless(H, h) /\ Own(H, h, z) = 0 /\ \A d \in Headers \ {h} : d # z
         /\ h \in Headers \ {Always} /\ r \in Headers /\ (H[h].kind = "dependent" => H[h].result = Nil)
         /\ (H[h].kind # "dependent" => H[h].result = h)
<1>1. H \in Heaps /\ h \in Headers \ {Always} /\ r \in Headers /\ HeapOK(H, X, z)
  BY HeapHeader DEF Readied
<1>2. ~ Ready(H, h) /\ Allocated(H, h) /\ Bodiless(H, h) /\ Own(H, h, z) = 0
      /\ (H[h].kind = "dependent" => H[h].result = Nil) /\ (H[h].kind # "dependent" => H[h].result = h)
  <2>1. CASE z = h /\ Unready(H, h)
    BY <1>1, <2>1, KindFacts DEF Unready, Own
  <2>2. CASE H[h].kind = "promise" /\ ~ Ready(H, h)
    <3>1. ~ Unready(H, h) /\ Allocated(H, h)
      BY <2>2 DEF Unready, Allocated
    <3>2. HeaderOK(H, h, z)
      BY <1>1, HeapHeader
    <3>3. H[h].result = h /\ Bodiless(H, h)
      BY <2>2, <3>2 DEF HeaderOK
    <3>4. QED
      BY <2>2, <3>1, <3>3 DEF Own
  <2>3. QED
    BY <2>1, <2>2 DEF Readied
<1>3. LinksTo(H, h) = OpenTo(H, h)
  <2>1. ASSUME NEW l \in LinksTo(H, h)
        PROVE  LinkAt(H, l).linked
    <3>1. l \in Links(H) /\ LinkAt(H, l).dep = h
      BY DEF LinksTo
    <3>2. QED
      BY <1>1, <1>2, <3>1, LinkFacts DEF IsResult
  <2>2. QED
    BY <2>1 DEF OpenTo
<1>4. ResultFor(H, h) = {}
  <2>1. ASSUME NEW d \in Headers \ {h}, H[d].result = h
        PROVE  FALSE
    <3>1. H[d].result \in Headers \ {d}
      BY <1>1, <2>1
    <3>2. IsResult(H, h)
      BY <1>1, <2>1, <3>1, KindFacts
    <3>3. QED
      BY <1>2, <3>2 DEF IsResult
  <2>2. QED
    BY <2>1 DEF ResultFor
<1>5. \A d \in Headers \ {h} : d # z
  BY Constants DEF Readied
<1>6. QED
  BY <1>1, <1>2, <1>3, <1>4, <1>5

\* What becomes of the dependents when the links to h are resolved.
LEMMA ResolveFields ==
  ASSUME NEW H, NEW X, NEW z, NEW h, NEW r, Readied(H, X, z, h, r), NEW K, Resolving(H, K, h, r),
         NEW d \in Headers \ {h}
  PROVE  /\ DOMAIN K[d].deps = DOMAIN H[d].deps /\ K[d].deps \in DepLists
         /\ Len(K[d].deps) = Len(H[d].deps)
         /\ \A k \in DOMAIN H[d].deps :
              IF k \in Waits(H, h, d) THEN K[d].deps[k].dep = r /\ ~ K[d].deps[k].linked
              ELSE K[d].deps[k] = H[d].deps[k]
         /\ OpenOf(K, d) = OpenOf(H, d) \ Waits(H, h, d)
<1>1. H \in Heaps /\ r \in Headers
  BY ReadiedFacts
<1>2. H[d].deps \in Seq([dep : Headers, linked : BOOLEAN]) /\ Len(H[d].deps) \in Nat
      /\ DOMAIN H[d].deps = 1 .. Len(H[d].deps)
  BY <1>1, FieldTypes
<1> DEFINE T == [dep : Headers, linked : BOOLEAN]
           n == Len(H[d].deps)
           t == [dep |-> r, linked |-> FALSE]
           e == H[d].deps
           W == {k \in DOMAIN e : <<d, k>> \in OpenTo(H, h)}
           f == [k \in 1 .. n |-> IF k \in W THEN t ELSE e[k]]
<1>3. t \in T /\ t.dep = r /\ t.linked = FALSE
  BY <1>1
<1>4. K[d].deps = [k \in DOMAIN e |-> IF <<d, k>> \in OpenTo(H, h) THEN t ELSE e[k]]
  BY DEF Resolving
<1>5. K[d].deps = f
  BY <1>2, <1>4
<1>6. e \in Seq(T) /\ DOMAIN e = 1 .. n /\ n \in Nat /\ n = Len(e)
  BY <1>2
<1>7. W = Waits(H, h, d)
  BY DEF Waits
<1> HIDE DEF T, t, n, W
<1>8. \A k \in 1 .. n : e[k] \in T
  BY <1>6, ElementOfSeq
<1> HIDE DEF e
<1>9. f \in Seq(T) /\ Len(f) = n /\ DOMAIN f = 1 .. n
  <2>1. f \in [1 .. n -> T]
    BY <1>3, <1>8
  <2> HIDE DEF f
  <2>2. f \in Seq(T)
    BY <1>6, <2>1, SeqDef
  <2>3. QED
    BY <1>6, <2>1, <2>2, LenProperties
<1>10. \A k \in 1 .. n : f[k] = IF k \in W THEN t ELSE e[k]
  OBVIOUS
<1> HIDE DEF f
<1>11. \A k : k \in OpenOf(K, d) <=> k \in 1 .. n /\ f[k].linked
  BY <1>5, <1>9 DEF OpenOf
<1>12. \A k : k \in OpenOf(H, d) <=> k \in 1 .. n /\ e[k].linked
  BY <1>6 DEF OpenOf, e
<1>13. OpenOf(K, d) = OpenOf(H, d) \ W
  BY <1>3, <1>10, <1>11, <1>12
<1>14. QED
  BY <1>3, <1>5, <1>6, <1>7, <1>9, <1>10, <1>13 DEF e, T, DepLists

\* The status of a successor after its links were resolved: it counts the open links that are left.
LEMMA ResolveStatus ==
  ASSUME NEW H, NEW X, NEW z, NEW h, NEW r, Readied(H, X, z, h, r), NEW K, Resolving(H, K, h, r),
         NEW d \in Headers \ {h}
  PROVE  LET c == Cardinality(Hits(H, h, d))
         IN  /\ c \in Nat /\ K[d].status \in -3 .. MaxArgs /\ H[d].status \in Int /\ K[d].status = H[d].status - c
             /\ ~ Unready(H, d) => c = 0 /\ K[d].deps = H[d].deps
             /\ Unready(H, d) /\ H[d].body \in {"then", "all"} =>
                  /\ H[d].status >= c /\ K[d].status = Cardinality(OpenOf(K, d)) /\ K[d].status >= 0
             /\ Unready(H, d) /\ H[d].body \notin {"then", "all"} =>
                  /\ H[d].body = "proxy" /\ Len(H[d].deps) = 1
                  /\ c = 0 \/ (c = 1 /\ H[d].status = -2 /\ K[d].status = -3 /\ ~ K[d].deps[1].linked)
                  /\ c = 0 => K[d].deps[1] = H[d].deps[1] /\ K[d].status = H[d].status
                  /\ H[d].status \in {-2, -3}
<1> DEFINE c == Cardinality(Hits(H, h, d))
           W == Waits(H, h, d)
           O == OpenOf(H, d)
<1>0. HeapOK(H, X, z) /\ H \in Heaps /\ h \in Headers /\ d # z
  BY ReadiedFacts DEF Readied
<1>1. /\ c \in Nat /\ c = Cardinality(W) /\ W = {k \in O : H[d].deps[k].dep = h} /\ IsFiniteSet(O)
      /\ Cardinality(O) \in Nat /\ (~ Unready(H, d) => O = {})
  BY <1>0, HitsFacts
<1>2. H[d].status \in -3 .. MaxArgs /\ K[d].status = H[d].status - c /\ Len(H[d].deps) \in Nat
      /\ DOMAIN H[d].deps = 1 .. Len(H[d].deps)
  BY <1>0, FieldTypes DEF Resolving
<1>9. c \in Nat /\ H[d].status \in Int /\ K[d].status = H[d].status - c
  <2>1. c \in Nat
    BY <1>1
  <2>2. H[d].status \in Int
    BY <1>2
  <2>3. QED
    BY <1>2, <2>1, <2>2
<1>3. /\ \A k \in DOMAIN H[d].deps :
              IF k \in W THEN K[d].deps[k].dep = r /\ ~ K[d].deps[k].linked
              ELSE K[d].deps[k] = H[d].deps[k]
      /\ OpenOf(K, d) = O \ W /\ DOMAIN K[d].deps = DOMAIN H[d].deps
      /\ K[d].deps \in DepLists
  <2>1. DOMAIN K[d].deps = DOMAIN H[d].deps /\ K[d].deps \in DepLists
    BY ResolveFields
  <2>2. OpenOf(K, d) = O \ W
    BY ResolveFields
  <2>3. ASSUME NEW k \in DOMAIN H[d].deps
        PROVE  IF k \in W THEN K[d].deps[k].dep = r /\ ~ K[d].deps[k].linked
               ELSE K[d].deps[k] = H[d].deps[k]
    BY ResolveFields
  <2>4. QED
    BY <2>1, <2>2, <2>3
<1> HIDE DEF c, W
<1>4. W \subseteq O /\ Cardinality(O \ W) = Cardinality(O) - c /\ Cardinality(O \ W) \in Nat /\ c <= Cardinality(O)
  <2>1. W \subseteq O
    BY <1>1
  <2> HIDE DEF O
  <2>2. IsFiniteSet(W) /\ Cardinality(W) <= Cardinality(O)
    BY <1>1, <2>1, FS_Subset
  <2>3. O \cap W = W
    BY <2>1
  <2>4. Cardinality(O \ W) = Cardinality(O) - Cardinality(O \cap W) /\ IsFiniteSet(O \ W)
    BY <1>1, <2>2, FS_Difference
  <2>5. Cardinality(O \ W) \in Nat
    BY <2>4, FS_CardinalityType
  <2>6. QED
    BY <1>1, <2>1, <2>2, <2>3, <2>4, <2>5
<1>5. CASE ~ Unready(H, d)
  <2>1. O = {} /\ W = {}
    BY <1>1, <1>5
  <2>2. c = 0
    BY <1>1, <2>1, FS_EmptySet
  <2>3. H[d].deps = <<>>
    BY <1>0, <1>5, KindFacts DEF Bodiless
  <2>4. K[d].deps = <<>>
    <3>1. DOMAIN K[d].deps = {}
      BY <1>3, <2>3
    <3>2. Len(K[d].deps) = 0
      <4> DEFINE e == K[d].deps
                 T == [dep : Headers, linked : BOOLEAN]
      <4>1. e \in Seq(T) /\ DOMAIN e = {}
        BY <1>3, <3>1 DEF DepLists
      <4> HIDE DEF e, T
      <4>2. Len(e) \in Nat /\ DOMAIN e = 1 .. Len(e)
        BY <4>1, LenProperties
      <4>3. Len(e) = 0
        BY <4>1, <4>2
      <4>4. QED
        BY <4>3 DEF e
    <3>3. QED
      BY <1>3, <3>2, EmptySeq DEF DepLists
  <2>5. QED
    BY <1>2, <1>5, <2>2, <2>3, <2>4 DEF c
<1>6. CASE Unready(H, d) /\ H[d].body \in {"then", "all"}
  <2>1. H[d].status = Cardinality(O)
    BY <1>0, <1>6, KindFacts DEF BodyOK
  <2>2. K[d].status = Cardinality(O \ W) /\ H[d].status >= c
    BY <1>1, <1>2, <1>4, <2>1
  <2>3. K[d].status \in -3 .. MaxArgs /\ K[d].status >= 0 /\ K[d].status = Cardinality(OpenOf(K, d))
    <3>1. K[d].status = Cardinality(OpenOf(K, d)) /\ K[d].status \in Nat
      BY <1>3, <1>4, <2>2
    <3>2. K[d].status <= H[d].status
      BY <1>9
    <3>3. QED
      BY <1>2, <3>1, <3>2, Constants
  <2>4. QED
    BY <1>6, <1>9, <2>2, <2>3 DEF c
<1>7. CASE Unready(H, d) /\ H[d].body \notin {"then", "all"}
  <2>1. /\ H[d].body = "proxy" /\ Len(H[d].deps) = 1
        /\ H[d].status = (IF H[d].deps[1].linked THEN -2 ELSE -3)
    BY <1>0, <1>7, KindFacts DEF BodyOK, StatusProxying, StatusProxyingActive
  <2>2. DOMAIN H[d].deps = {1} /\ 1 \in DOMAIN H[d].deps
    BY <1>2, <2>1
  <2>3. CASE 1 \in W
    <3>1. W = {1} /\ H[d].deps[1].linked
      BY <1>1, <2>2, <2>3 DEF O, OpenOf
    <3>2. c = 1
      BY <1>1, <3>1, FS_Singleton
    <3>3. QED
      BY <1>2, <1>3, <1>7, <2>1, <2>2, <2>3, <3>1, <3>2, Constants DEF c
  <2>4. CASE 1 \notin W
    <3>1. W = {}
      BY <1>1, <2>2, <2>4 DEF O, OpenOf
    <3>2. c = 0
      BY <1>1, <3>1, FS_EmptySet
    <3>3. QED
      BY <1>2, <1>3, <1>7, <2>1, <2>2, <2>4, <3>2 DEF c
  <2>5. QED
    BY <2>3, <2>4
<1>8. QED
  BY <1>5, <1>6, <1>7

\* Resolving the successors of h makes h ready and no other header, and un-makes no result.
LEMMA ResolveShape ==
  ASSUME NEW H, NEW X, NEW z, NEW h, NEW r, Readied(H, X, z, h, r), NEW K \in Heaps, Resolving(H, K, h, r),
         NEW d \in Headers
  PROVE  /\ d # h => (Ready(K, d) <=> Ready(H, d)) /\ (Unready(K, d) <=> Unready(H, d))
         /\ Proxying(K, d) => Proxying(H, d)
         /\ IsResult(H, d) => IsResult(K, d) /\ d # h
         /\ Allocated(K, d) <=> Allocated(H, d)
         /\ K[d].kind = H[d].kind /\ K[d].ref = H[d].ref /\ K[d].countdown = H[d].countdown
         /\ Ready(K, h) /\ ~ Unready(K, h) /\ IsResult(K, r) /\ r \in Headers
<1> DEFINE P == /\ d # h => (Ready(K, d) <=> Ready(H, d)) /\ (Unready(K, d) <=> Unready(H, d))
                /\ Proxying(K, d) => Proxying(H, d)
                /\ IsResult(H, d) => IsResult(K, d) /\ d # h
                /\ Allocated(K, d) <=> Allocated(H, d)
<1>0. HeapOK(H, X, z) /\ H \in Heaps /\ h \in Headers /\ r \in Headers /\ ~ Ready(H, h)
  BY ReadiedFacts DEF Readied
<1>1. Ready(K, h) /\ ~ Unready(K, h) /\ K[h].result = r
  BY DEF Resolving, Ready, Unready
<1>2. K[d].kind = H[d].kind /\ K[d].ref = H[d].ref /\ K[d].countdown = H[d].countdown
  BY <1>0 DEF Resolving
<1>3. ASSUME d = h PROVE P
  <2>1. ~ Proxying(K, d)
    BY <1>1, <1>3 DEF Ready, Proxying, StatusReady, StatusProxying, StatusProxyingActive
  <2>2. ~ IsResult(H, d)
    BY <1>0, <1>3 DEF IsResult
  <2>3. QED
    BY <1>2, <1>3, <2>1, <2>2 DEF Allocated
<1>4. ASSUME d # h PROVE P
  <2>1. d \in Headers \ {h} /\ K[d].result = H[d].result
    BY <1>4 DEF Resolving
  <2>2. CASE ~ Unready(H, d)
    <3>1. K[d].status = H[d].status
      <4>1. /\ Cardinality(Hits(H, h, d)) = 0 /\ H[d].status \in Int
            /\ K[d].status = H[d].status - Cardinality(Hits(H, h, d))
        BY <2>1, <2>2, ResolveStatus
      <4>2. QED
        BY <4>1
    <3>2. QED
      BY <1>2, <1>4, <2>1, <2>2, <3>1 DEF Ready, Unready, Proxying, IsResult, Allocated
  <2>3. CASE Unready(H, d) /\ H[d].body \in {"then", "all"}
    <3>1. K[d].status >= 0 /\ K[d].status \in Int
      BY <2>1, <2>3, ResolveStatus
    <3>2. ~ Ready(K, d) /\ ~ Proxying(K, d)
      BY <3>1 DEF Ready, Proxying, StatusReady, StatusProxying, StatusProxyingActive
    <3>3. ~ IsResult(H, d)
      BY <1>0, <2>3, KindFacts
    <3>4. QED
      BY <1>2, <1>4, <2>1, <2>3, <3>2, <3>3 DEF Unready, Allocated
  <2>4. CASE Unready(H, d) /\ H[d].body \notin {"then", "all"}
    <3>1. K[d].status \in {-2, -3} /\ H[d].status \in {-2, -3}
      BY <2>1, <2>4, ResolveStatus
    <3>2. ~ Ready(K, d) /\ Proxying(H, d)
      BY <3>1 DEF Ready, Proxying, StatusReady, StatusProxying, StatusProxyingActive
    <3>3. ~ IsResult(H, d)
      BY <1>0, <2>4, KindFacts
    <3>4. QED
      BY <1>2, <1>4, <2>1, <2>4, <3>2, <3>3 DEF Unready, Allocated
  <2>5. QED
    BY <2>2, <2>3, <2>4
<1>5. IsResult(K, r)
  <2>1. CASE r = h
    BY <1>1, <2>1 DEF IsResult
  <2>2. CASE r # h
    <3>1. IsResult(H, r) /\ r \in Headers \ {h} /\ ~ Unready(H, r)
      BY <1>0, <2>2, KindFacts DEF Readied
    <3>4. K[r].result = H[r].result
      BY <3>1 DEF Resolving
    <3>2. K[r].status = H[r].status
      <4>1. /\ Cardinality(Hits(H, h, r)) = 0 /\ H[r].status \in Int
            /\ K[r].status = H[r].status - Cardinality(Hits(H, h, r))
        BY <3>1, ResolveStatus
      <4>2. QED
        BY <4>1
    <3>3. QED
      BY <3>1, <3>2, <3>4 DEF IsResult, Ready
  <2>3. QED
    BY <2>1, <2>2
<1>6. QED
  BY <1>0, <1>1, <1>2, <1>3, <1>4, <1>5

\* Resolving the successors of h moves the links of h, and only those, to its result.
LEMMA ResolveLinks ==
  ASSUME NEW H, NEW X, NEW z, NEW h, NEW r, Readied(H, X, z, h, r), NEW K \in Heaps, Resolving(H, K, h, r)
  PROVE  /\ OpenTo(K, h) = {} /\ (\A x \in Headers \ {h} : OpenTo(K, x) = OpenTo(H, x))
         /\ r = h => \A x \in Headers : LinksTo(K, x) = LinksTo(H, x)
         /\ r # h => /\ LinksTo(K, h) = {} /\ LinksTo(K, r) = LinksTo(H, r) \cup OpenTo(H, h)
                     /\ \A x \in Headers \ {h, r} : LinksTo(K, x) = LinksTo(H, x)
         /\ r = h => \A x \in Headers : ResultFor(K, x) = ResultFor(H, x)
         /\ r # h => /\ ResultFor(K, r) = ResultFor(H, r) \cup {h} /\ h \notin ResultFor(H, r)
                     /\ \A x \in Headers \ {r} : ResultFor(K, x) = ResultFor(H, x)
<1>0. HeapOK(H, X, z) /\ H \in Heaps /\ h \in Headers /\ r \in Headers /\ ~ Ready(H, h) /\ Bodiless(H, h)
      /\ LinksTo(H, h) = OpenTo(H, h)
  BY ReadiedFacts DEF Readied
<1>1. DOMAIN K[h].deps = {} /\ DOMAIN H[h].deps = {}
  BY <1>0 DEF Resolving, Bodiless
<1>2. \A d \in Headers : DOMAIN K[d].deps = DOMAIN H[d].deps
  <2> TAKE d \in Headers
  <2>1. CASE d = h
    BY <1>1, <2>1
  <2>2. CASE d # h
    BY <2>2, ResolveFields
  <2>3. QED
    BY <2>1, <2>2
<1>3. Links(K) = Links(H)
  BY <1>2 DEF Links
<1>4. ASSUME NEW l \in Links(H)
      PROVE  IF l \in OpenTo(H, h) THEN LinkAt(K, l).dep = r /\ ~ LinkAt(K, l).linked
             ELSE LinkAt(K, l) = LinkAt(H, l)
  <2>1. l[1] \in Headers /\ l[2] \in DOMAIN H[l[1]].deps /\ l = <<l[1], l[2]>>
    BY LinkParts
  <2>2. l[1] \in Headers \ {h}
    BY <1>1, <2>1
  <2>3. l \in OpenTo(H, h) <=> l[2] \in Waits(H, h, l[1])
    BY <2>1 DEF Waits
  <2>4. IF l[2] \in Waits(H, h, l[1]) THEN K[l[1]].deps[l[2]].dep = r /\ ~ K[l[1]].deps[l[2]].linked
        ELSE K[l[1]].deps[l[2]] = H[l[1]].deps[l[2]]
    BY <2>1, <2>2, ResolveFields
  <2>5. QED
    BY <2>3, <2>4 DEF LinkAt
<1>5. \A l \in OpenTo(H, h) : l \in Links(H) /\ LinkAt(H, l).dep = h /\ LinkAt(H, l).linked
  BY DEF OpenTo, LinksTo
<1>6. \A l \in Links(H) : LinkAt(H, l).dep = h => l \in OpenTo(H, h)
  BY <1>0 DEF LinksTo
<1>7. OpenTo(K, h) = {} /\ \A x \in Headers \ {h} : OpenTo(K, x) = OpenTo(H, x)
  <2>1. \A l : l \notin OpenTo(K, h)
    BY <1>3, <1>4, <1>6 DEF OpenTo, LinksTo
  <2>2. ASSUME NEW x \in Headers \ {h}, NEW l
        PROVE  l \in OpenTo(K, x) <=> l \in OpenTo(H, x)
    BY <1>3, <1>4, <1>5 DEF OpenTo, LinksTo
  <2>3. QED
    BY <2>1, <2>2 DEF OpenTo, LinksTo
<1>8. \A x \in Headers : \A l : l \in LinksTo(K, x) <=> \/ l \in LinksTo(H, x) /\ l \notin OpenTo(H, h)
                                                        \/ l \in OpenTo(H, h) /\ x = r
  BY <1>3, <1>4, <1>5 DEF LinksTo
<1>9. r = h => \A x \in Headers : LinksTo(K, x) = LinksTo(H, x)
  <2>1. ASSUME r = h, NEW x \in Headers, NEW l
        PROVE  l \in LinksTo(K, x) <=> l \in LinksTo(H, x)
    <3>1. l \in OpenTo(H, h) /\ l \in LinksTo(H, x) => x = h
      BY DEF OpenTo, LinksTo
    <3>2. QED
      BY <1>0, <1>8, <2>1, <3>1
  <2>2. QED
    BY <2>1 DEF LinksTo
<1>10. ASSUME r # h
       PROVE  /\ LinksTo(K, h) = {} /\ LinksTo(K, r) = LinksTo(H, r) \cup OpenTo(H, h)
              /\ \A x \in Headers \ {h, r} : LinksTo(K, x) = LinksTo(H, x)
  <2>1. \A x \in Headers \ {h} : \A l : ~ (l \in OpenTo(H, h) /\ l \in LinksTo(H, x))
    BY DEF OpenTo, LinksTo
  <2>2. \A l : l \notin LinksTo(K, h)
    BY <1>0, <1>8, <1>10
  <2>3. \A l : l \in LinksTo(K, r) <=> l \in LinksTo(H, r) \/ l \in OpenTo(H, h)
    BY <1>0, <1>8, <1>10, <2>1
  <2>4. \A x \in Headers \ {h, r} : \A l : l \in LinksTo(K, x) <=> l \in LinksTo(H, x)
    BY <1>8, <2>1
  <2>5. \A x, l : l \in LinksTo(K, x) => l \in Pairs
    BY DEF LinksTo, Links, Pairs
  <2>6. \A x, l : l \in LinksTo(H, x) => l \in Pairs
    BY DEF LinksTo, Links, Pairs
  <2>7. QED
    BY <2>2, <2>3, <2>4, <2>5, <2>6
<1>11. /\ K[h].result = r /\ \A d \in Headers \ {h} : K[d].result = H[d].result
  BY DEF Resolving
<1>12. /\ r = h => \A x \in Headers : ResultFor(K, x) = ResultFor(H, x)
       /\ r # h => H[h].result = Nil
  <2>1. r = h => H[h].result = h
    <3>1. r = h => H[h].kind = "promise"
      BY DEF Readied
    <3>2. QED
      BY <3>1, ReadiedFacts
  <2>2. r # h => H[h].result = Nil
    <3>1. r # h => H[h].kind = "dependent"
      BY DEF Readied, Unready
    <3>2. QED
      BY <3>1, ReadiedFacts
  <2>3. ASSUME r = h, NEW x \in Headers
        PROVE  ResultFor(K, x) = ResultFor(H, x)
    <3>1. \A d \in Headers : K[d].result = H[d].result
      BY <1>11, <2>1, <2>3
    <3>2. QED
      BY <3>1 DEF ResultFor
  <2>4. QED
    BY <2>2, <2>3
<1>13. ASSUME r # h
       PROVE  /\ ResultFor(K, r) = ResultFor(H, r) \cup {h} /\ h \notin ResultFor(H, r)
              /\ \A x \in Headers \ {r} : ResultFor(K, x) = ResultFor(H, x)
  <2>1. H[h].result = Nil /\ Nil \notin Headers
    BY <1>12, <1>13, Constants
  <2>2. QED
    BY <1>0, <1>11, <1>13, <2>1 DEF ResultFor
<1>14. QED
  BY <1>7, <1>9, <1>10, <1>12, <1>13

\* The references that change hands when h becomes ready.
ResolveTally(H, X, h, r) ==
  [x \in Headers |-> X[x] + (IF x = h /\ r # h THEN Len(H[h].sucs) ELSE 0)
                          - (IF x = r /\ r # h THEN Len(H[h].sucs) + 1 ELSE 0)]

\* Resolving the successors of h leaves every header in a legal state.
LEMMA ResolveHeader ==
  ASSUME NEW H, NEW X, NEW z, NEW h, NEW r, Readied(H, X, z, h, r), NEW K \in Heaps, Resolving(H, K, h, r),
         NEW d \in Headers
  PROVE  HeaderOK(K, d, Nil)
<1>0. HeapOK(H, X, z) /\ H \in Heaps /\ h \in Headers \ {Always} /\ r \in Headers /\ Nil \notin Headers
  BY ReadiedFacts, Constants DEF Readied
<1>1. HeaderOK(H, d, z)
  BY <1>0, HeapHeader
<1>2. Ready(K, h) /\ ~ Unready(K, h) /\ IsResult(K, r)
  BY ResolveShape
<1>3. CASE d = h
  <2>1. Bodiless(K, h) /\ K[h].kind = H[h].kind /\ K[h].result = r /\ K[h].countdown = H[h].countdown
    BY DEF Resolving, Bodiless
  <2>2. CASE H[h].kind = "dependent"
    <3>1. r # h
      BY <2>2 DEF Readied
    <3>2. QED
      BY <1>0, <1>2, <1>3, <2>1, <2>2, <3>1 DEF HeaderOK, Unready
  <2>3. CASE H[h].kind = "promise"
    <3>1. r = h /\ H[h].countdown = 0
      BY <2>3 DEF Readied, Unready
    <3>2. QED
      BY <1>2, <1>3, <2>1, <2>3, <3>1 DEF HeaderOK, Unready
  <2>4. H[h].kind = "dependent" \/ H[h].kind = "promise"
    BY DEF Readied, Unready
  <2>5. QED
    BY <2>2, <2>3, <2>4
<1>4. CASE d # h /\ ~ Unready(H, d)
  <2>1. d \in Headers \ {h} /\ d # z
    BY <1>4, ReadiedFacts
  <2>2. /\ Cardinality(Hits(H, h, d)) = 0 /\ H[d].status \in Int
        /\ K[d].status = H[d].status - Cardinality(Hits(H, h, d)) /\ K[d].deps = H[d].deps
    BY <1>4, <2>1, ResolveStatus
  <2>3. K[d].status = H[d].status
    BY <2>2
  <2>4. /\ K[d].kind = H[d].kind /\ K[d].result = H[d].result /\ K[d].body = H[d].body
        /\ K[d].countdown = H[d].countdown /\ K[d].sucs = H[d].sucs /\ K[d].ref = H[d].ref
    BY <2>1 DEF Resolving
  <2>5. K[d] = H[d]
    <3>1. K[d] \in HeaderType /\ H[d] \in HeaderType
      BY <1>0 DEF Heaps
    <3>2. QED
      BY <2>2, <2>3, <2>4, <3>1, SameFields
  <2>6. DOMAIN H[d].deps = {}
    BY <1>0, <1>4, KindFacts DEF Bodiless
  <2>7. H[d].result \in Headers \ {d} /\ IsResult(H, H[d].result) => IsResult(K, H[d].result)
    <3>1. \A x \in Headers : IsResult(H, x) => IsResult(K, x)
      BY ResolveShape
    <3>2. QED
      BY <3>1
  <2>8. d # Nil /\ (d = Nil <=> d = z)
    BY <1>0, <2>1
  <2>9. QED
    BY <1>0, <1>1, <1>4, <2>2, <2>3, <2>4, <2>5, <2>6, <2>7, <2>8, HeaderFrame
<1>5. CASE d # h /\ Unready(H, d)
  <2>1. d \in Headers \ {h} /\ d # z /\ d # Nil
    BY <1>0, <1>5, ReadiedFacts
  <2>2. /\ K[d].kind = "dependent" /\ K[d].result = Nil /\ K[d].body = H[d].body
    <3>1. K[d].kind = H[d].kind /\ K[d].result = H[d].result /\ K[d].body = H[d].body
      BY <2>1 DEF Resolving
    <3>2. QED
      BY <1>0, <1>5, <3>1, KindFacts DEF Unready
  <2>3. Unready(K, d) /\ ~ Ready(K, d)
    <3>1. Unready(K, d)
      BY <1>5, <2>1, ResolveShape
    <3>2. QED
      BY <3>1 DEF Unready
  <2>4. BodyOK(H, d)
    BY <1>0, <1>5, <2>1, KindFacts
  <2>5. Len(K[d].deps) = Len(H[d].deps) /\ DOMAIN K[d].deps = DOMAIN H[d].deps
    BY <2>1, ResolveFields
  <2>6. ASSUME NEW k \in DOMAIN K[d].deps
        PROVE  K[d].deps[k].linked \/ IsResult(K, K[d].deps[k].dep)
    <3>1. k \in DOMAIN H[d].deps /\ H[d].deps[k].dep \in Headers
      BY <1>0, <2>5, FieldTypes
    <3>2. CASE k \in Waits(H, h, d)
      <4>1. K[d].deps[k].dep = r
        BY <2>1, <3>1, <3>2, ResolveFields
      <4>2. QED
        BY <1>2, <4>1
    <3>3. CASE k \notin Waits(H, h, d)
      <4>1. K[d].deps[k] = H[d].deps[k]
        BY <2>1, <3>1, <3>3, ResolveFields
      <4>2. H[d].deps[k].linked \/ IsResult(H, H[d].deps[k].dep)
        BY <2>4, <3>1 DEF BodyOK
      <4>3. IsResult(H, H[d].deps[k].dep) => IsResult(K, H[d].deps[k].dep)
        BY <3>1, ResolveShape
      <4>4. QED
        BY <4>1, <4>2, <4>3
    <3>4. QED
      BY <3>2, <3>3
  <2>7. BodyOK(K, d)
    <3>1. Len(K[d].deps) <= MaxArgs
      BY <2>4, <2>5 DEF BodyOK
    <3>2. CASE H[d].body \in {"then", "all"}
      <4>1. K[d].status = Cardinality(OpenOf(K, d))
        BY <1>5, <2>1, <3>2, ResolveStatus
      <4>2. QED
        BY <2>2, <2>6, <3>1, <3>2, <4>1 DEF BodyOK
    <3>3. CASE H[d].body \notin {"then", "all"}
      <4> DEFINE c == Cardinality(Hits(H, h, d))
      <4>1. /\ H[d].body = "proxy" /\ Len(H[d].deps) = 1
            /\ c = 0 \/ (c = 1 /\ H[d].status = -2 /\ K[d].status = -3 /\ ~ K[d].deps[1].linked)
            /\ c = 0 => K[d].deps[1] = H[d].deps[1] /\ K[d].status = H[d].status
        BY <1>5, <2>1, <3>3, ResolveStatus
      <4> HIDE DEF c
      <4>2. CASE c = 0
        <5>1. K[d].deps[1] = H[d].deps[1] /\ K[d].status = H[d].status
          BY <4>1, <4>2
        <5>2. IF H[d].deps[1].linked THEN H[d].status = StatusProxying /\ ~ Proxying(H, Proxied(H, d))
              ELSE H[d].status = StatusProxyingActive
          BY <2>4, <4>1 DEF BodyOK
        <5>3. Proxied(H, d) \in Headers /\ Proxied(K, d) = Proxied(H, d)
          <6>1. Proxying(H, d)
            BY <5>2 DEF Proxying
          <6>2. Proxied(H, d) \in Headers
            BY <1>0, <2>1, <6>1, ProxiedFacts
          <6>3. QED
            BY <5>1, <6>2 DEF Proxied
        <5>4. ~ Proxying(H, Proxied(H, d)) => ~ Proxying(K, Proxied(K, d))
          BY <5>3, ResolveShape
        <5>5. QED
          BY <2>2, <2>5, <2>6, <3>1, <4>1, <5>1, <5>2, <5>4 DEF BodyOK
      <4>3. CASE c # 0
        BY <2>2, <2>5, <2>6, <3>1, <4>1, <4>3 DEF BodyOK, StatusProxyingActive
      <4>4. QED
        BY <4>2, <4>3
    <3>4. QED
      BY <3>2, <3>3
  <2>8. QED
    BY <2>1, <2>2, <2>3, <2>7 DEF HeaderOK
<1>6. QED
  BY <1>3, <1>4, <1>5

\* Resolving the successors of h keeps the heap whole, but for the references that the moved links
\* owe to the result.
LEMMA ResolveOK ==
  ASSUME NEW H, NEW X \in Tallies, NEW z, NEW h, NEW r, Readied(H, X, z, h, r), NEW K \in Heaps,
         Resolving(H, K, h, r)
  PROVE  HeapOK(K, ResolveTally(H, X, h, r), Nil) /\ ResolveTally(H, X, h, r) \in Tallies
<1> DEFINE Y == ResolveTally(H, X, h, r)
           n == Len(H[h].sucs)
<1>0. HeapOK(H, X, z) /\ H \in Heaps /\ h \in Headers \ {Always} /\ r \in Headers /\ Nil \notin Headers
      /\ \A d \in Headers \ {h} : d # z
  BY ReadiedFacts, Constants DEF Readied
<1>1. n \in Nat /\ Lists!IsInjective(H[h].sucs) /\ Lists!ToSet(H[h].sucs) = OpenTo(H, h) /\ H[h].sucs \in Seq(Pairs)
  BY <1>0, FieldTypes, HeapHeader DEF SuccessorsOK
<1>2. Cardinality(OpenTo(H, h)) = n /\ IsFiniteSet(OpenTo(H, h))
  BY <1>1, SeqCount
<1> HIDE DEF n
<1>3. \A x \in Headers : X[x] \in Int
  BY DEF Tallies
<1>4. \A x \in Headers : Y[x] = X[x] + (IF x = h /\ r # h THEN n ELSE 0) - (IF x = r /\ r # h THEN n + 1 ELSE 0)
  BY DEF ResolveTally, n
<1>5. Y \in Tallies
  <2>1. \A x \in Headers : Y[x] \in Int
    BY <1>1, <1>3, <1>4
  <2>2. QED
    BY <2>1 DEF ResolveTally, Tallies
<1> HIDE DEF Y
<1>6. \A d \in Headers : HeaderOK(K, d, Nil)
  BY ResolveHeader
<1>7. ASSUME NEW d \in Headers
      PROVE  SuccessorsOK(K, d)
  <2>1. SuccessorsOK(H, d)
    BY <1>0, HeapHeader
  <2>2. CASE d = h
    <3>1. K[h].sucs = <<>> /\ OpenTo(K, h) = {}
      BY ResolveLinks DEF Resolving
    <3>2. Lists!ToSet(<<>>) = {} /\ Lists!IsInjective(<<>>)
      BY DEF Lists!ToSet, Lists!IsInjective
    <3>3. QED
      BY <2>2, <3>1, <3>2 DEF SuccessorsOK
  <2>3. CASE d # h
    <3>1. d \in Headers \ {h}
      BY <2>3
    <3>2. K[d].sucs = H[d].sucs
      BY <3>1 DEF Resolving
    <3>3. OpenTo(K, d) = OpenTo(H, d)
      BY <3>1, ResolveLinks
    <3>4. Ready(K, d) <=> Ready(H, d)
      BY <3>1, ResolveShape
    <3>5. QED
      BY <2>1, <3>2, <3>3, <3>4 DEF SuccessorsOK
  <2>4. QED
    BY <2>2, <2>3
<1>8. ASSUME NEW d \in Headers \ {Always}
      PROVE  CountOK(K, Y, Nil, d)
  <2> DEFINE a == Cardinality(LinksTo(H, d))
             b == Cardinality(ResultFor(H, d))
             a1 == Cardinality(LinksTo(K, d))
             b1 == Cardinality(ResultFor(K, d))
             o == Own(H, d, z)
  <2>1. CountOK(H, X, z, d)
    BY <1>0, HeapHeader
  <2>2. a \in Nat /\ b \in Nat /\ a1 \in Nat /\ b1 \in Nat /\ o \in {0, 1} /\ X[d] \in Int
    BY <1>3, FiniteCounts DEF Own
  <2>3. H[d].ref = X[d] + a + b + o
    BY <2>1 DEF CountOK
  <2>4. K[d].ref = H[d].ref /\ (Allocated(K, d) <=> Allocated(H, d))
    BY ResolveShape
  <2>5. Own(K, d, Nil) = o
    <3>1. CASE d = h
      <4>1. ~ Unready(K, d) /\ o = 0
        BY <3>1, ResolveShape, ReadiedFacts
      <4>2. QED
        BY <4>1 DEF Own
    <3>2. CASE d # h
      <4>1. Unready(K, d) <=> Unready(H, d)
        BY <3>2, ResolveShape
      <4>2. d # z /\ d # Nil
        BY <1>0, <3>2
      <4>3. QED
        BY <4>1, <4>2 DEF Own
    <3>3. QED
      BY <3>1, <3>2
  <2>6. Y[d] + a1 + b1 = X[d] + a + b
    <3>1. CASE r = h
      <4>1. LinksTo(K, d) = LinksTo(H, d) /\ ResultFor(K, d) = ResultFor(H, d)
        BY <3>1, ResolveLinks
      <4>2. Y[d] = X[d]
        BY <1>4, <2>2, <3>1
      <4>3. QED
        BY <4>1, <4>2
    <3>2. CASE r # h /\ d = h
      <4>1. LinksTo(K, d) = {} /\ ResultFor(K, d) = ResultFor(H, d) /\ LinksTo(H, d) = OpenTo(H, h)
        BY <1>0, <3>2, ResolveLinks, ReadiedFacts
      <4>2. a1 = 0 /\ b1 = b /\ a = n
        BY <1>2, <4>1, FS_EmptySet
      <4>3. Y[d] = X[d] + n
        BY <1>1, <1>4, <2>2, <3>2
      <4> HIDE DEF a, b, a1, b1
      <4>4. QED
        BY <1>1, <2>2, <4>2, <4>3
    <3>3. CASE r # h /\ d = r
      <4>1. /\ LinksTo(K, d) = LinksTo(H, d) \cup OpenTo(H, h) /\ ResultFor(K, d) = ResultFor(H, d) \cup {h}
            /\ h \notin ResultFor(H, d)
        BY <3>3, ResolveLinks
      <4>2. LinksTo(H, d) \cap OpenTo(H, h) = {}
        BY <3>3 DEF LinksTo, OpenTo
      <4>3. b1 = b + 1
        <5> DEFINE R == ResultFor(H, d)
        <5>1. IsFiniteSet(R) /\ h \notin R
          BY <4>1, FiniteCounts
        <5> HIDE DEF R
        <5>2. Cardinality(R \cup {h}) = Cardinality(R) + 1
          BY <5>1, FS_AddElement
        <5>3. QED
          BY <4>1, <5>2 DEF R
      <4>4. a1 = a + n
        <5> DEFINE R == LinksTo(H, d)
                   Q == OpenTo(H, h)
        <5>1. IsFiniteSet(R) /\ IsFiniteSet(Q) /\ R \cap Q = {} /\ Cardinality(Q) = n
          BY <1>2, <4>2, FiniteCounts
        <5> HIDE DEF R, Q
        <5>2. Cardinality(R \cup Q) = Cardinality(R) + Cardinality(Q) - Cardinality(R \cap Q)
          BY <5>1, FS_Union
        <5>3. Cardinality(R \cap Q) = 0 /\ Cardinality(R) \in Nat
          BY <5>1, FS_EmptySet, FS_CardinalityType
        <5>4. Cardinality(R \cup Q) = Cardinality(R) + n
          BY <1>1, <5>1, <5>2, <5>3
        <5>5. QED
          BY <4>1, <5>4 DEF R, Q
      <4>5. Y[d] = X[d] - (n + 1)
        BY <1>1, <1>4, <2>2, <3>3
      <4> HIDE DEF a, b, a1, b1
      <4>6. n \in Nat
        BY <1>1
      <4>7. QED
        BY <2>2, <4>3, <4>4, <4>5, <4>6
    <3>4. CASE r # h /\ d # h /\ d # r
      <4>1. d \in Headers \ {h, r} /\ d \in Headers \ {r}
        BY <3>4
      <4>2. LinksTo(K, d) = LinksTo(H, d) /\ ResultFor(K, d) = ResultFor(H, d)
        BY <3>4, <4>1, ResolveLinks
      <4>3. Y[d] = X[d]
        BY <1>4, <2>2, <3>4
      <4>4. a1 = a /\ b1 = b
        BY <4>2
      <4> HIDE DEF a, b, a1, b1
      <4>5. QED
        BY <4>3, <4>4
    <3>5. QED
      BY <3>1, <3>2, <3>3, <3>4
  <2>7. Y[d] \in Int
    BY <1>5 DEF Tallies
  <2>8. K[d].ref = Y[d] + a1 + b1 + Own(K, d, Nil)
    <3> HIDE DEF a, b, a1, b1, o
    <3>1. QED
      BY <2>2, <2>3, <2>4, <2>5, <2>6, <2>7
  <2>9. QED
    BY <2>1, <2>4, <2>8 DEF CountOK
<1>9. K[Always] = ResultHeader(Always, -1)
  <2>1. Always \in Headers \ {h} /\ H[Always] = ResultHeader(Always, -1) /\ IsResult(H, Always)
    BY <1>0, Constants, HeapHeader DEF HeapOK
  <2>2. ~ Unready(H, Always)
    BY <1>0, <2>1, KindFacts
  <2>3. /\ Cardinality(Hits(H, h, Always)) = 0 /\ H[Always].status \in Int
        /\ K[Always].status = H[Always].status - Cardinality(Hits(H, h, Always)) /\ K[Always].deps = H[Always].deps
    BY <2>1, <2>2, ResolveStatus
  <2>4. K[Always].status = H[Always].status
    BY <2>3
  <2>5. /\ K[Always].kind = H[Always].kind /\ K[Always].result = H[Always].result
        /\ K[Always].body = H[Always].body /\ K[Always].countdown = H[Always].countdown
        /\ K[Always].sucs = H[Always].sucs /\ K[Always].ref = H[Always].ref
    BY <2>1 DEF Resolving
  <2>6. K[Always] \in HeaderType /\ H[Always] \in HeaderType
    BY <1>0, <2>1 DEF Heaps
  <2>7. K[Always] = H[Always]
    BY <2>3, <2>4, <2>5, <2>6, SameFields
  <2>8. QED
    BY <2>1, <2>7
<1>10. HeapOK(K, Y, Nil)
  BY <1>6, <1>7, <1>8, <1>9 DEF HeapOK, Heaps
<1>11. QED
  BY <1>5, <1>10 DEF Y

\* The bulk update of the two reference counts pays what the moved links owe, and deletes h if
\* nobody is left.
LEMMA HandOverOK ==
  ASSUME NEW H, NEW X \in Tallies, NEW z, NEW h, NEW r, Readied(H, X, z, h, r), r # h, X[h] >= 0,
         NEW K \in Heaps, Resolving(H, K, h, r)
  PROVE  LET L == HandOver(K, h, r, Len(H[h].sucs))
         IN  HeapOK(L, Give(X, r, -1), Nil) /\ Keeps(K, L) /\ Give(X, r, -1) \in Tallies
<1> DEFINE n == Len(H[h].sucs)
           Y == ResolveTally(H, X, h, r)
           V == Give(X, r, -1)
           L == HandOver(K, h, r, n)
<1>0. HeapOK(H, X, z) /\ H \in Heaps /\ h \in Headers \ {Always} /\ r \in Headers /\ Nil \notin Headers
  BY ReadiedFacts, Constants DEF Readied
<1>1. n \in Nat /\ Lists!IsInjective(H[h].sucs) /\ Lists!ToSet(H[h].sucs) = OpenTo(H, h) /\ H[h].sucs \in Seq(Pairs)
  BY <1>0, FieldTypes, HeapHeader DEF SuccessorsOK
<1>2. Cardinality(OpenTo(H, h)) = n
  BY <1>1, SeqCount
<1>3. /\ \A x \in Headers : X[x] \in Int
      /\ Y[h] = X[h] + n /\ Y[r] = X[r] - (n + 1) /\ \A x \in Headers \ {h, r} : Y[x] = X[x]
  <2>1. \A x \in Headers : X[x] \in Int
    BY DEF Tallies
  <2>2. n \in Nat
    BY <1>1
  <2> HIDE DEF n
  <2>3. Y[h] = X[h] + n /\ Y[r] = X[r] - (n + 1) /\ \A x \in Headers \ {h, r} : Y[x] = X[x]
    <3>1. \A x \in Headers : Y[x] = X[x] + (IF x = h THEN n ELSE 0) - (IF x = r THEN n + 1 ELSE 0)
      BY DEF ResolveTally, n
    <3> HIDE DEF Y
    <3>2. Y[h] = X[h] + n - 0 /\ Y[r] = X[r] + 0 - (n + 1) /\ \A x \in Headers \ {h, r} : Y[x] = X[x] + 0 - 0
      BY <1>0, <3>1
    <3>3. X[h] \in Int /\ X[r] \in Int
      BY <1>0, <2>1
    <3>4. Y[h] = X[h] + n /\ Y[r] = X[r] - (n + 1)
      BY <2>2, <3>2, <3>3
    <3>5. \A x \in Headers \ {h, r} : Y[x] = X[x]
      BY <2>1, <3>2
    <3>6. QED
      BY <3>4, <3>5
  <2>4. QED
    BY <2>1, <2>3
<1>4. HeapOK(K, Y, Nil) /\ Y \in Tallies
  BY ResolveOK
<1>5. H[h].ref = X[h] + n /\ K[h].ref = H[h].ref /\ H[h].ref > 0
  <2>1. CountOK(H, X, z, h) /\ Own(H, h, z) = 0 /\ LinksTo(H, h) = OpenTo(H, h) /\ ResultFor(H, h) = {}
        /\ Allocated(H, h)
    BY <1>0, HeapHeader, ReadiedFacts
  <2>2. H[h].ref = X[h] + Cardinality(OpenTo(H, h)) + Cardinality({}) + 0 /\ H[h].ref > 0
    BY <2>1 DEF CountOK
  <2>3. Cardinality({}) = 0 /\ X[h] \in Int /\ n \in Nat
    BY <1>0, <1>1, <1>3, FS_EmptySet
  <2>4. K[h].ref = H[h].ref
    BY DEF Resolving
  <2> HIDE DEF n
  <2>5. QED
    BY <1>2, <2>2, <2>3, <2>4
<1>6. Allocated(K, r) /\ (r # Always => K[r].ref > 0 /\ K[r].ref \in Nat) /\ Allocated(K, h) /\ K[h].result = r
  <2>1. IsResult(K, r)
    BY <1>0, ResolveShape
  <2>2. Allocated(K, r)
    BY <1>0, <1>4, <2>1, KindFacts
  <2>3. Allocated(K, h)
    BY <1>0, ResolveShape, ReadiedFacts
  <2>4. r # Always => K[r].ref > 0 /\ K[r].ref \in Nat
    BY <1>0, <1>4, <2>2, KindFacts
  <2>5. K[h].result = r
    BY DEF Resolving
  <2>6. QED
    BY <2>2, <2>3, <2>4, <2>5
<1>7. V \in Tallies /\ V[r] = X[r] - 1 /\ \A x \in Headers \ {r} : V[x] = X[x]
  <2>1. -1 \in Int
    OBVIOUS
  <2>2. V \in Tallies /\ V[r] = X[r] + (-1) /\ \A x \in Headers \ {r} : V[x] = X[x]
    BY <1>0, <2>1, GiveFacts
  <2>3. X[r] \in Int
    BY <1>0, <1>3
  <2> HIDE DEF V
  <2>4. QED
    BY <2>2, <2>3
<1>8. n \in Nat /\ X[h] \in Int /\ X[r] \in Int
  BY <1>0, <1>1, <1>3
<1> HIDE DEF n, Y, V
<1>9. CASE K[h].ref = n
  <2> DEFINE G == AddRef(K, r, n - 1)
             U == Give(Y, r, n - 1)
             Z == BuryTally(G, U, h)
  <2>1. n - 1 \in Nat /\ n - 1 \in Int /\ X[h] = 0
    BY <1>5, <1>8, <1>9
  <2>2. r # Always => K[r].ref + (n - 1) > 0
    BY <1>6, <2>1
  <2>3. /\ HeapOK(G, U, Nil) /\ Keeps(K, G) /\ (\A x \in Headers : Alike(G[x], K[x]))
        /\ \A x \in Headers \ {r} : G[x] = K[x]
    BY <1>0, <1>4, <1>6, <2>1, <2>2, AddRefOK
  <2>4. U \in Tallies /\ U[r] = Y[r] + (n - 1) /\ \A x \in Headers \ {r} : U[x] = Y[x]
    BY <1>0, <1>4, <2>1, GiveFacts, ZenonT(60)
  <2> HIDE DEF G, U
  <2>5. G[h] = K[h]
    BY <1>0, <2>3
  <2>6. U[h] = Y[h]
    BY <1>0, <2>4
  <2>7. U[h] >= G[h].ref /\ Allocated(G, h) /\ G[h].ref = n
    BY <1>3, <1>5, <1>6, <1>8, <1>9, <2>1, <2>5, <2>6 DEF Allocated
  <2>8. h \in Headers \ {Always} /\ h # Nil
    BY <1>0
  <2>9. /\ HeapOK([G EXCEPT ![h] = DeadHeader], Z, Nil) /\ Z \in Tallies
        /\ Keeps(G, [G EXCEPT ![h] = DeadHeader])
    BY <2>3, <2>4, <2>7, <2>8, BuryOK
  <2>10. \A x \in Headers : Z[x] = V[x]
    <3>1. \A x \in Headers : Z[x] = IF x = h THEN 0 ELSE IF x = r THEN U[x] + 1 ELSE U[x]
      BY <1>6, <2>5 DEF BuryTally
    <3>2. Z[h] = V[h]
      BY <1>0, <1>3, <1>7, <1>8, <2>1, <2>6, <2>7, <3>1
    <3>3. Z[r] = V[r]
      BY <1>0, <1>3, <1>7, <1>8, <2>4, <3>1
    <3>4. ASSUME NEW x \in Headers \ {h, r}
          PROVE  Z[x] = V[x]
      <4>1. U[x] = X[x] /\ V[x] = X[x] /\ X[x] \in Int
        BY <1>3, <1>7, <2>4
      <4>2. QED
        BY <3>1, <4>1
    <3>5. QED
      BY <3>2, <3>3, <3>4
  <2>11. L = [G EXCEPT ![h] = DeadHeader]
    BY <1>9 DEF HandOver, G
  <2> HIDE DEF Z, L
  <2>12. HeapOK(L, V, Nil)
    BY <2>9, <2>10, <2>11, HeapTally
  <2>13. Keeps(K, L)
    BY <2>3, <2>9, <2>11, KeepsFacts
  <2>14. QED
    BY <1>7, <2>12, <2>13 DEF L, V, n
<1>10. CASE K[h].ref # n
  <2> DEFINE G == AddRef(K, r, n)
             U == Give(Y, r, n)
             F == AddRef(G, h, -n)
             Z == Give(U, h, -n)
  <2>1. n \in Int /\ -n \in Int
    BY <1>8
  <2>2. r # Always => K[r].ref + n > 0
    BY <1>6, <1>8
  <2>3. /\ HeapOK(G, U, Nil) /\ Keeps(K, G) /\ (\A x \in Headers : Alike(G[x], K[x]))
        /\ \A x \in Headers \ {r} : G[x] = K[x]
    BY <1>0, <1>4, <1>6, <2>1, <2>2, AddRefOK
  <2>4. U \in Tallies /\ U[r] = Y[r] + n /\ \A x \in Headers \ {r} : U[x] = Y[x]
    BY <1>0, <1>4, <2>1, GiveFacts
  <2> HIDE DEF G, U
  <2>5. G[h] = K[h]
    BY <1>0, <2>3
  <2>6. h # Always => G[h].ref + (-n) > 0
    BY <1>5, <1>8, <1>10, <2>5
  <2>7. HeapOK(F, Z, Nil) /\ Keeps(G, F)
    <3>1. Allocated(G, h) /\ h \in Headers
      BY <1>0, <1>6, <2>5 DEF Allocated
    <3>2. QED
      BY <2>1, <2>3, <2>4, <2>6, <3>1, AddRefOK
  <2>8. Z[h] = U[h] + (-n) /\ \A x \in Headers \ {h} : Z[x] = U[x]
    BY <1>0, <2>1, <2>4, GiveFacts
  <2> HIDE DEF Z
  <2>9. \A x \in Headers : Z[x] = V[x]
    <3>1. Z[h] = V[h]
      <4>1. Z[h] = X[h] + n + (-n) /\ V[h] = X[h]
        BY <1>0, <1>3, <1>7, <2>4, <2>8
      <4>2. QED
        BY <1>8, <4>1
    <3>2. Z[r] = V[r]
      <4>1. Z[r] = X[r] - (n + 1) + n /\ V[r] = X[r] - 1
        BY <1>0, <1>3, <1>7, <2>4, <2>8
      <4>2. QED
        BY <1>8, <4>1
    <3>3. ASSUME NEW x \in Headers \ {h, r}
          PROVE  Z[x] = V[x]
      BY <1>3, <1>7, <2>4, <2>8
    <3>4. QED
      BY <3>1, <3>2, <3>3
  <2>10. L = F
    BY <1>10 DEF HandOver, G
  <2> HIDE DEF F, L
  <2>11. HeapOK(L, V, Nil)
    BY <2>7, <2>9, <2>10, HeapTally
  <2>12. Keeps(K, L)
    BY <2>3, <2>7, <2>10, KeepsFacts
  <2>13. QED
    BY <1>7, <2>11, <2>12 DEF L, V, n
<1>11. QED
  BY <1>9, <1>10

\* Only successors of h become due when h becomes ready.
LEMMA ResolveDue ==
  ASSUME NEW H, NEW X, NEW z, NEW h, NEW r, Readied(H, X, z, h, r), NEW K \in Heaps, Resolving(H, K, h, r)
  PROVE  /\ \A d \in Headers \ {h} : Cardinality(Hits(H, h, d)) = 0 =>
              (d \in Due(K) <=> d \in Due(H)) /\ K[d].status = H[d].status
         /\ \A d \in Headers \ {h} : d \in Due(H) => Cardinality(Hits(H, h, d)) = 0
         /\ h \notin Due(K)
<1>1. ASSUME NEW d \in Headers \ {h}, Cardinality(Hits(H, h, d)) = 0
      PROVE  (d \in Due(K) <=> d \in Due(H)) /\ K[d].status = H[d].status
  <2>1. K[d].status = H[d].status - Cardinality(Hits(H, h, d)) /\ H[d].status \in Int
    BY ResolveStatus
  <2>2. K[d].status = H[d].status
    BY <1>1, <2>1
  <2>3. Unready(K, d) <=> Unready(H, d)
    BY ResolveShape
  <2>4. QED
    BY <2>2, <2>3 DEF Due
<1>2. ASSUME NEW d \in Headers \ {h}, d \in Due(H), Cardinality(Hits(H, h, d)) # 0
      PROVE  FALSE
  <2> DEFINE c == Cardinality(Hits(H, h, d))
  <2>1. Unready(H, d) /\ H[d].status \in {0, -3}
    BY <1>2 DEF Due, StatusActive, StatusProxyingActive
  <2>2. c \in Nat
    BY ResolveStatus
  <2>3. H[d].body \in {"then", "all"} => H[d].status >= c
    BY <2>1, ResolveStatus
  <2>4. H[d].body \notin {"then", "all"} => H[d].status \in {-2, -3} /\ (c = 0 \/ H[d].status = -2)
    BY <2>1, ResolveStatus
  <2> HIDE DEF c
  <2>5. c # 0
    BY <1>2 DEF c
  <2>6. QED
    BY <2>1, <2>2, <2>3, <2>4, <2>5
<1>3. h \notin Due(K)
  <2>1. ~ Unready(K, h)
    BY ResolveShape, ReadiedFacts
  <2>2. QED
    BY <2>1 DEF Due
<1>4. QED
  BY <1>1, <1>2, <1>3

\* entered_ready_with_sucs wakes a successor at its last link in the list, and only if it is due
\* then.
LEMMA WakesFacts ==
  ASSUME NEW H, NEW X, NEW z, NEW h, NEW r, Readied(H, X, z, h, r), NEW K \in Heaps, Resolving(H, K, h, r),
         NEW i \in DOMAIN H[h].sucs
  PROVE  LET d == H[h].sucs[i][1]
         IN  /\ d \in Headers \ {h} /\ i \in Hits(H, h, d) /\ d \notin Due(H)
             /\ Wakes(H, H[h].sucs, i) <=> Rank(Hits(H, h, d), i) = Cardinality(Hits(H, h, d)) /\ d \in Due(K)
<1> DEFINE s == H[h].sucs
           d == s[i][1]
           c == Cardinality(Hits(H, h, d))
           k == Rank(Hits(H, h, d), i)
<1>0. HeapOK(H, X, z) /\ H \in Heaps /\ h \in Headers \ {Always} /\ r \in Headers
  BY ReadiedFacts DEF Readied
<1>1. s[i] \in OpenTo(H, h) /\ Len(s) \in Nat /\ DOMAIN s = 1 .. Len(s)
  <2>1. Lists!ToSet(s) = OpenTo(H, h)
    BY <1>0, HeapHeader DEF SuccessorsOK
  <2>2. QED
    BY <1>0, <2>1, FieldTypes DEF Lists!ToSet
<1>2. d \in Headers /\ Unready(H, d) /\ d # z
  <2>1. s[i] \in Links(H)
    BY <1>1 DEF OpenTo, LinksTo
  <2>2. QED
    BY <1>0, <2>1, LinkFacts
<1>3. d \in Headers \ {h}
  <2>1. d # h
    BY <1>2 DEF Readied, Unready
  <2>2. QED
    BY <1>2, <2>1
<1>4. i \in Hits(H, h, d) /\ Hits(H, h, d) \in SUBSET (1 .. Len(s))
  BY <1>1 DEF Hits
<1>5. c \in Nat /\ k \in 1 .. c
  BY <1>1, <1>4, RankFacts
<1>6. StatusAfter(H, s, i) = H[d].status - k
  <2>1. {j \in 1 .. i : s[j][1] = d} = {j \in Hits(H, h, d) : j <= i}
    <3>1. \A j : j \in 1 .. i <=> j \in 1 .. Len(s) /\ j <= i
      BY <1>1
    <3>2. QED
      BY <1>1, <3>1 DEF Hits
  <2>2. QED
    BY <2>1 DEF StatusAfter, Rank
<1>7. Wakes(H, s, i) <=> H[d].status - k <= 0
  BY <1>6 DEF Wakes, StatusActive
<1>8. c \in Nat /\ K[d].status \in -3 .. MaxArgs /\ H[d].status \in Int /\ K[d].status = H[d].status - c
  BY <1>3, ResolveStatus
<1>9. /\ H[d].body \in {"then", "all"} => H[d].status >= c /\ K[d].status >= 0
      /\ H[d].body \notin {"then", "all"} => c = 0 \/ (c = 1 /\ H[d].status = -2 /\ K[d].status = -3)
  BY <1>2, <1>3, ResolveStatus
<1>10. Unready(K, d)
  BY <1>2, <1>3, ResolveShape
<1>11. d \in Due(K) <=> K[d].status \in {0, -3}
  BY <1>2, <1>10 DEF Due, StatusActive, StatusProxyingActive
<1>12. d \notin Due(H)
  <2>1. c # 0
    BY <1>5
  <2>2. QED
    BY <1>3, <2>1, ResolveDue
<1> HIDE DEF c, k
<1>13. CASE H[d].body \in {"then", "all"}
  <2> DEFINE a == H[d].status
             b == K[d].status
  <2>0. c \in Nat /\ k \in Nat /\ k <= c /\ a \in Int /\ b = a - c /\ b >= 0
    BY <1>5, <1>8, <1>9, <1>13
  <2> HIDE DEF a, b
  <2>1. H[d].status - k <= 0 <=> k = c /\ K[d].status = 0
    <3>1. a - k <= 0 <=> k = c /\ b = 0
      BY <2>0
    <3>2. QED
      BY <3>1, Zenon DEF a, b
  <2>2. K[d].status \in {0, -3} <=> K[d].status = 0
    <3>1. b \in {0, -3} <=> b = 0
      BY <2>0
    <3>2. QED
      BY <3>1, Zenon DEF a, b
  <2>3. Wakes(H, s, i) <=> k = c /\ d \in Due(K)
    BY <1>7, <1>11, <2>1, <2>2
  <2>4. QED
    BY <1>3, <1>4, <1>12, <2>3 DEF c, k
<1>14. CASE H[d].body \notin {"then", "all"}
  <2>1. c = 1 /\ k = 1 /\ H[d].status = -2 /\ K[d].status = -3
    BY <1>5, <1>9, <1>14
  <2>2. Wakes(H, s, i) /\ k = c /\ d \in Due(K)
    BY <1>7, <1>11, <2>1
  <2>3. QED
    BY <1>3, <1>4, <1>12, <2>2 DEF c, k
<1>15. QED
  BY <1>13, <1>14

\* The headers that join the queue.
Awake(H, h) ==
  LET links == H[h].sucs
      woken == PickAt(links, {i \in DOMAIN links : Wakes(H, links, i)})
  IN  [i \in DOMAIN woken |-> woken[i][1]]

\* The successors that enter the active queue are those that become due, once each.
LEMMA AwakeFacts ==
  ASSUME NEW H, NEW X, NEW z, NEW h, NEW r, Readied(H, X, z, h, r), NEW K \in Heaps, Resolving(H, K, h, r)
  PROVE  /\ Awake(H, h) \in Seq(Headers) /\ Lists!IsInjective(Awake(H, h))
         /\ Lists!ToSet(Awake(H, h)) = Due(K) \ Due(H)
<1> DEFINE s == H[h].sucs
           W == {i \in DOMAIN s : Wakes(H, s, i)}
           m == Cardinality(W)
           p == PickAt(s, W)
           q == [i \in DOMAIN p |-> p[i][1]]
<1>0. HeapOK(H, X, z) /\ H \in Heaps /\ h \in Headers \ {Always} /\ r \in Headers
  BY ReadiedFacts DEF Readied
<1>1. s \in Seq(Pairs) /\ W \in SUBSET DOMAIN s /\ Len(s) \in Nat /\ DOMAIN s = 1 .. Len(s)
  BY <1>0, FieldTypes
<1>2. Awake(H, h) = q
  BY DEF Awake
<1>3. \A i \in W : /\ s[i][1] \in Headers \ {h} /\ i \in Hits(H, h, s[i][1]) /\ s[i][1] \notin Due(H)
                   /\ Rank(Hits(H, h, s[i][1]), i) = Cardinality(Hits(H, h, s[i][1])) /\ s[i][1] \in Due(K)
  BY WakesFacts
<1>4. ASSUME NEW i \in W, NEW j \in W, s[i][1] = s[j][1]
      PROVE  i = j
  <2> DEFINE d == s[i][1]
             A == Hits(H, h, d)
  <2>1. i \in A /\ j \in A /\ Rank(A, i) = Rank(A, j)
    BY <1>3, <1>4
  <2>2. A \in SUBSET (1 .. Len(s))
    BY <1>1 DEF Hits
  <2> HIDE DEF A
  <2>3. /\ i < j => Rank(A, i) < Rank(A, j)
        /\ j < i => Rank(A, j) < Rank(A, i)
        /\ Rank(A, i) \in 1 .. Cardinality(A) /\ Cardinality(A) \in Nat
    BY <1>1, <2>1, <2>2, RankFacts
  <2>4. i \in Int /\ j \in Int
    BY <2>1, <2>2
  <2>5. Rank(A, i) \in Int
    BY <2>3
  <2>6. QED
    BY <2>1, <2>3, <2>4, <2>5
<1>5. ASSUME NEW d \in Due(K) \ Due(H)
      PROVE  \E i \in W : s[i][1] = d
  <2> DEFINE A == Hits(H, h, d)
             c == Cardinality(A)
             i == Place(A, c)
  <2>1. d \in Headers \ {h} /\ c # 0
    <3>1. d \in Headers /\ d # h
      BY ResolveDue DEF Due
    <3>2. QED
      BY <3>1, ResolveDue
  <2>2. A \in SUBSET (1 .. Len(s))
    BY <1>1 DEF Hits
  <2>3. c \in Nat
    BY <1>1, <2>2, RankFacts
  <2>4. c \in 1 .. c
    BY <2>1, <2>3
  <2>5. i \in A /\ Rank(A, i) = c
    <3> HIDE DEF A
    <3>1. QED
      BY <1>1, <2>2, <2>4, PlaceFacts
  <2>6. i \in DOMAIN s /\ s[i][1] = d
    BY <2>5 DEF Hits
  <2>7. Wakes(H, s, i)
    <3> HIDE DEF i
    <3>1. QED
      BY <2>5, <2>6, WakesFacts
  <2>8. QED
    BY <2>6, <2>7
<1> HIDE DEF s, W
<1>6. /\ DOMAIN p = 1 .. m /\ m \in Nat
      /\ {p[i] : i \in DOMAIN p} = {s[i] : i \in W}
      /\ \A k \in 1 .. m : Place(W, k) \in W /\ p[k] = s[Place(W, k)]
      /\ \A k, l \in 1 .. m : Place(W, k) = Place(W, l) => k = l
  BY <1>1, PickFacts, SMTT(60)
<1> HIDE DEF p, m
<1>7. q \in [1 .. m -> Headers] /\ DOMAIN q = 1 .. m /\ \A k \in 1 .. m : q[k] = s[Place(W, k)][1]
  <2>1. \A k \in 1 .. m : p[k][1] = s[Place(W, k)][1] /\ s[Place(W, k)][1] \in Headers
    BY <1>3, <1>6
  <2>2. QED
    BY <1>6, <2>1
<1> HIDE DEF q
<1>8. q \in Seq(Headers)
  BY <1>6, <1>7, SeqDef
<1>9. Lists!IsInjective(q)
  <2>1. ASSUME NEW a \in 1 .. m, NEW b \in 1 .. m, q[a] = q[b]
        PROVE  a = b
    <3>1. Place(W, a) \in W /\ Place(W, b) \in W /\ s[Place(W, a)][1] = s[Place(W, b)][1]
      BY <1>6, <1>7, <2>1
    <3>2. Place(W, a) = Place(W, b)
      BY <1>4, <3>1
    <3>3. QED
      BY <1>6, <3>2
  <2>2. QED
    BY <1>7, <2>1 DEF Lists!IsInjective
<1>10. Lists!ToSet(q) = Due(K) \ Due(H)
  <2>1. ASSUME NEW k \in 1 .. m
        PROVE  q[k] \in Due(K) \ Due(H)
    <3>1. Place(W, k) \in W /\ q[k] = s[Place(W, k)][1]
      BY <1>6, <1>7
    <3>2. QED
      BY <1>3, <3>1
  <2>2. ASSUME NEW d \in Due(K) \ Due(H)
        PROVE  \E k \in 1 .. m : q[k] = d
    <3>1. PICK i \in W : s[i][1] = d
      BY <1>5
    <3>2. s[i] \in {p[j] : j \in DOMAIN p}
      BY <1>6
    <3>3. PICK k \in 1 .. m : p[k] = s[i]
      BY <1>6, <3>2
    <3>4. QED
      BY <1>6, <3>1, <3>3 DEF q
  <2>3. QED
    BY <1>7, <2>1, <2>2 DEF Lists!ToSet
<1>11. QED
  BY <1>2, <1>8, <1>9, <1>10

Touch(a, s, e) == [[a EXCEPT !.status = s] EXCEPT !.deps = e]

\* Assigning status_ and deps changes nothing else.
LEMMA SetPair ==
  ASSUME NEW a \in HeaderType, NEW s, NEW e, NEW b, b = Touch(a, s, e)
  PROVE  /\ b.kind = a.kind /\ b.ref = a.ref /\ b.status = s /\ b.sucs = a.sucs /\ b.result = a.result
         /\ b.body = a.body /\ b.deps = e /\ b.countdown = a.countdown
         /\ s \in -3 .. MaxArgs /\ e \in DepLists => b \in HeaderType
<1> DEFINE c == [a EXCEPT !.status = s]
<1>0. b = [c EXCEPT !.deps = e]
  BY DEF Touch
<1>1. /\ c.kind = a.kind /\ c.ref = a.ref /\ c.status = s /\ c.sucs = a.sucs /\ c.result = a.result
      /\ c.body = a.body /\ c.deps = a.deps /\ c.countdown = a.countdown /\ DOMAIN c = DOMAIN a
  BY DEF HeaderType
<1>2. DOMAIN a = {"kind", "ref", "status", "sucs", "result", "body", "deps", "countdown"}
  BY DEF HeaderType
<1>3. s \in -3 .. MaxArgs => c \in HeaderType
  BY DEF HeaderType
<1> HIDE DEF c
<1>4. /\ b.kind = a.kind /\ b.ref = a.ref /\ b.status = s /\ b.sucs = a.sucs /\ b.result = a.result
      /\ b.body = a.body /\ b.deps = e /\ b.countdown = a.countdown
  BY <1>0, <1>1, <1>2
<1>5. ASSUME s \in -3 .. MaxArgs, e \in DepLists
      PROVE  b \in HeaderType
  BY <1>0, <1>3, <1>5 DEF HeaderType, DepLists
<1>6. QED
  BY <1>4, <1>5

\* The links of dependent d, with those to h resolved to r.
Resolved(H, h, r, d) ==
  [k \in DOMAIN H[d].deps |-> IF \E j \in DOMAIN H[h].sucs : H[h].sucs[j] = <<d, k>>
                              THEN [dep |-> r, linked |-> FALSE] ELSE H[d].deps[k]]

\* The heap of EnterReady before references are handed over: its definition, in steps.
Touched(H, h, r) ==
  [d \in Headers |->
     IF Cardinality(Hits(H, h, d)) > 0
     THEN Touch(H[d], H[d].status - Cardinality(Hits(H, h, d)), Resolved(H, h, r, d))
     ELSE H[d]]
Entered(G, h, r) ==
  [G EXCEPT ![h].status = StatusReady, ![h].result = r, ![h].body = "none", ![h].deps = <<>>, ![h].sucs = <<>>]

\* EnterReady resolves the successors, hands the references over and wakes who is due.
LEMMA EnterReadyParts ==
  ASSUME NEW H \in Heaps, NEW q, NEW h \in Headers, NEW r
  PROVE  LET K == Entered(Touched(H, h, r), h, r)
         IN  EnterReady(H, q, h, r) = [heap |-> IF r = h THEN K ELSE HandOver(K, h, r, Len(H[h].sucs)),
                                       queue |-> q \o Awake(H, h)]
<1> DEFINE hits(d) == Cardinality({j \in DOMAIN H[h].sucs : H[h].sucs[j][1] = d})
           resolved(d) == [H[d] EXCEPT !.status = @ - hits(d),
                                       !.deps = [k \in DOMAIN @ |->
                         IF \E j \in DOMAIN H[h].sucs : H[h].sucs[j] = <<d, k>>
                         THEN [dep |-> r, linked |-> FALSE] ELSE @[k]]]
<1>1. ASSUME NEW d \in Headers
      PROVE  resolved(d) = Touch(H[d], H[d].status - Cardinality(Hits(H, h, d)), Resolved(H, h, r, d))
  <2>1. H[d] \in HeaderType
    BY DEF Heaps
  <2>2. QED
    BY <2>1 DEF HeaderType, Hits, Resolved, Touch
<1>2. [d \in Headers |-> IF hits(d) > 0 THEN resolved(d) ELSE H[d]] = Touched(H, h, r)
  <2> HIDE DEF resolved
  <2>1. \A d : hits(d) = Cardinality(Hits(H, h, d))
    BY DEF Hits
  <2> HIDE DEF hits
  <2>2. QED
    BY <1>1, <2>1 DEF Touched
<1>3. QED
  BY <1>2, ZenonT(60) DEF EnterReady, Entered, Awake

\* The heap in which the successors of h are resolved.
LEMMA EnterFields ==
  ASSUME NEW H \in Heaps, NEW X, NEW z, NEW h \in Headers, NEW r, Readied(Cleared(H, h), X, z, h, r)
  PROVE  LET K == Entered(Touched(H, h, r), h, r)
         IN  K \in Heaps /\ Resolving(Cleared(H, h), K, h, r)
<1> DEFINE C == Cleared(H, h)
           G == Touched(H, h, r)
           hit(d) == Cardinality(Hits(C, h, d))
           e(d) == [k \in DOMAIN C[d].deps |-> IF <<d, k>> \in OpenTo(C, h)
                                               THEN [dep |-> r, linked |-> FALSE] ELSE C[d].deps[k]]
<1>1. /\ C \in Heaps /\ (\A x \in Headers \ {h} : C[x] = H[x]) /\ C[h].kind = H[h].kind /\ C[h].ref = H[h].ref
      /\ C[h].sucs = H[h].sucs /\ C[h].countdown = H[h].countdown
  BY ClearedFields
<1>2. HeapOK(C, X, z) /\ r \in Headers
  BY DEF Readied
<1> HIDE DEF C
<1>3. \A d : Hits(H, h, d) = Hits(C, h, d)
  BY <1>1 DEF Hits
<1>4. \A l : l \in OpenTo(C, h) <=> \E j \in DOMAIN H[h].sucs : H[h].sucs[j] = l
  <2>1. Lists!ToSet(C[h].sucs) = OpenTo(C, h)
    BY <1>2, HeapHeader DEF SuccessorsOK
  <2>2. QED
    BY <1>1, <2>1 DEF Lists!ToSet
<1>5. \A d \in Headers : d \in Headers \ {h} => Resolved(H, h, r, d) = e(d)
  BY <1>1, <1>4 DEF Resolved
<1>6. ASSUME NEW d \in Headers, hit(d) = 0
      PROVE  Waits(C, h, d) = {}
  <2>1. hit(d) = Cardinality(Waits(C, h, d)) /\ IsFiniteSet(OpenOf(C, d))
        /\ Waits(C, h, d) = {k \in OpenOf(C, d) : C[d].deps[k].dep = h}
    BY <1>2, HitsFacts
  <2>2. IsFiniteSet(Waits(C, h, d))
    BY <2>1, FS_Subset
  <2>3. QED
    BY <1>6, <2>1, <2>2, FS_EmptySet
<1>7. ASSUME NEW d \in Headers \ {h}, hit(d) = 0
      PROVE  e(d) = C[d].deps /\ C[d].status - hit(d) = C[d].status
  <2>1. \A k \in DOMAIN C[d].deps : <<d, k>> \notin OpenTo(C, h)
    BY <1>6, <1>7 DEF Waits
  <2>2. C[d].status \in Int /\ C[d].deps \in Seq([dep : Headers, linked : BOOLEAN])
    <3>1. d \in Headers
      OBVIOUS
    <3>2. C[d].status \in -3 .. MaxArgs /\ C[d].deps \in Seq([dep : Headers, linked : BOOLEAN])
      BY <1>1, <3>1, FieldTypes
    <3>3. C[d].status \in Int
      BY <3>2
    <3>4. QED
      BY <3>2, <3>3
  <2>3. C[d].deps = [k \in DOMAIN C[d].deps |-> C[d].deps[k]]
    <3> DEFINE T == [dep : Headers, linked : BOOLEAN]
               f == C[d].deps
    <3>1. f \in Seq(T)
      BY <2>2
    <3> HIDE DEF T, f
    <3>2. f = [k \in DOMAIN f |-> f[k]]
      BY <3>1, LenProperties
    <3>3. QED
      BY <3>2 DEF f
  <2>4. e(d) = C[d].deps
    BY <2>1, <2>3
  <2>5. QED
    BY <1>7, <2>2, <2>4
<1>8. \A d \in Headers : hit(d) \in Nat
  BY <1>2, HitsFacts
<1>9. hit(h) = 0
  <2>1. Bodiless(C, h)
    BY ReadiedFacts DEF C
  <2>2. OpenOf(C, h) = {}
    BY <2>1 DEF OpenOf, Bodiless
  <2>3. Waits(C, h, h) = {} /\ hit(h) = Cardinality(Waits(C, h, h))
    BY <1>2, <2>2, HitsFacts
  <2>4. QED
    BY <2>3, FS_EmptySet
<1> HIDE DEF hit, e
<1>10. ASSUME NEW d \in Headers \ {h}
       PROVE  /\ G[d].kind = C[d].kind /\ G[d].ref = C[d].ref /\ G[d].countdown = C[d].countdown
              /\ G[d].result = C[d].result /\ G[d].body = C[d].body /\ G[d].sucs = C[d].sucs
              /\ G[d].status = C[d].status - hit(d) /\ G[d].deps = e(d)
              /\ C[d].status - hit(d) \in -3 .. MaxArgs /\ e(d) \in DepLists => G[d] \in HeaderType
  <2>1. C[d] = H[d] /\ H[d] \in HeaderType
    BY <1>1 DEF Heaps
  <2>2. CASE hit(d) = 0
    <3>1. G[d] = H[d]
      BY <1>3, <2>2 DEF Touched, hit
    <3>2. QED
      BY <1>7, <2>1, <2>2, <3>1
  <2>3. CASE hit(d) # 0
    <3>1. hit(d) > 0
      BY <1>8, <2>3
    <3>2. G[d] = Touch(H[d], H[d].status - hit(d), Resolved(H, h, r, d))
      <4>1. Cardinality(Hits(H, h, d)) = hit(d)
        BY <1>3 DEF hit
      <4>2. QED
        BY <3>1, <4>1, Zenon DEF Touched
    <3>3. Resolved(H, h, r, d) = e(d)
      BY <1>5
    <3> DEFINE a == H[d]
               s == H[d].status - hit(d)
               w == e(d)
    <3>4. a \in HeaderType /\ G[d] = Touch(a, s, w)
      BY <2>1, <3>2, <3>3
    <3> HIDE DEF a, s, w, G
    <3>5. /\ G[d].kind = a.kind /\ G[d].ref = a.ref /\ G[d].status = s /\ G[d].sucs = a.sucs
          /\ G[d].result = a.result /\ G[d].body = a.body /\ G[d].deps = w /\ G[d].countdown = a.countdown
          /\ s \in -3 .. MaxArgs /\ w \in DepLists => G[d] \in HeaderType
      BY <3>4, SetPair
    <3>6. QED
      BY <2>1, <3>5 DEF a, s, w
  <2>4. QED
    BY <2>2, <2>3
<1>11. G[h] = H[h] /\ DOMAIN G = Headers /\ G = [x \in Headers |-> G[x]]
  <2>1. ~ (Cardinality(Hits(H, h, h)) > 0)
    BY <1>3, <1>9 DEF hit
  <2>2. QED
    BY <2>1 DEF Touched
<1> HIDE DEF G
<1> DEFINE w == [kind |-> H[h].kind, ref |-> H[h].ref, status |-> StatusReady, sucs |-> <<>>, result |-> r,
                 body |-> "none", deps |-> <<>>, countdown |-> H[h].countdown]
           K0 == [x \in Headers |-> IF x = h THEN w ELSE G[x]]
<1>12. Resolving(C, K0, h, r)
  <2>1. K0[h] = w /\ \A d \in Headers \ {h} : K0[d] = G[d]
    OBVIOUS
  <2> HIDE DEF K0
  <2>2. /\ K0[h].kind = C[h].kind /\ K0[h].ref = C[h].ref /\ K0[h].countdown = C[h].countdown
        /\ K0[h].status = StatusReady /\ K0[h].result = r /\ K0[h].body = "none" /\ K0[h].deps = <<>>
        /\ K0[h].sucs = <<>>
    BY <1>1, <2>1
  <2>3. QED
    BY <1>10, <2>1, <2>2 DEF Resolving, hit, e
<1>13. ASSUME NEW d \in Headers \ {h}
       PROVE  G[d] \in HeaderType
  <2>1. K0[d].status \in -3 .. MaxArgs
    BY <1>12, ResolveStatus DEF C
  <2>2. K0[d].deps \in DepLists
    BY <1>12, ResolveFields DEF C
  <2>3. K0[d] = G[d]
    OBVIOUS
  <2> HIDE DEF K0
  <2>4. QED
    BY <1>10, <2>1, <2>2, <2>3
<1>14. G \in Heaps
  <2>1. \A d \in Headers : G[d] \in HeaderType
    BY <1>11, <1>13 DEF Heaps
  <2>2. QED
    BY <1>11, <2>1 DEF Heaps
<1> HIDE DEF w, K0
<1> DEFINE K1 == [G EXCEPT ![h].status = StatusReady]
           K2 == [K1 EXCEPT ![h].result = r]
           K3 == [K2 EXCEPT ![h].body = "none"]
           K4 == [K3 EXCEPT ![h].deps = <<>>]
           K5 == [K4 EXCEPT ![h].sucs = <<>>]
<1>15. StatusReady \in -3 .. MaxArgs /\ <<>> \in DepLists /\ <<>> \in Seq(Pairs) /\ r \in Headers \cup {Nil}
       /\ "none" \in {"none", "then", "all", "proxy"}
  BY <1>2, Constants, EmptySeq DEF StatusReady, DepLists
<1>16. /\ K1 \in Heaps /\ (\A y \in Headers \ {h} : K1[y] = G[y]) /\ K1[h].status = StatusReady
       /\ K1[h].kind = H[h].kind /\ K1[h].ref = H[h].ref /\ K1[h].countdown = H[h].countdown
  <2> DEFINE v == StatusReady
  <2>1. G \in Heaps /\ v \in -3 .. MaxArgs
    BY <1>14, <1>15
  <2> HIDE DEF v
  <2>2. LET L == [G EXCEPT ![h].status = v]
        IN  /\ L \in Heaps /\ (\A y \in Headers \ {h} : L[y] = G[y]) /\ L[h].status = v
            /\ L[h].kind = G[h].kind /\ L[h].ref = G[h].ref /\ L[h].result = G[h].result /\ L[h].body = G[h].body /\ L[h].deps = G[h].deps /\ L[h].sucs = G[h].sucs /\ L[h].countdown = G[h].countdown
    BY <2>1, SetStatus
  <2>3. QED
    BY <1>11, <2>2 DEF v
<1> HIDE DEF K1
<1>17. /\ K2 \in Heaps /\ (\A y \in Headers \ {h} : K2[y] = G[y]) /\ K2[h].status = StatusReady
       /\ K2[h].kind = H[h].kind /\ K2[h].ref = H[h].ref /\ K2[h].countdown = H[h].countdown
       /\ K2[h].result = r
  BY <1>15, <1>16, SetResult
<1> HIDE DEF K2
<1>18. /\ K3 \in Heaps /\ (\A y \in Headers \ {h} : K3[y] = G[y]) /\ K3[h].status = StatusReady
       /\ K3[h].kind = H[h].kind /\ K3[h].ref = H[h].ref /\ K3[h].countdown = H[h].countdown
       /\ K3[h].result = r /\ K3[h].body = "none"
  <2> DEFINE v == "none"
  <2>1. K2 \in Heaps /\ v \in Bodies
    BY <1>17, <1>15 DEF Bodies
  <2> HIDE DEF v
  <2> DEFINE L == [K2 EXCEPT ![h].body = v]
  <2>2.     /\ L \in Heaps /\ (\A y \in Headers \ {h} : L[y] = K2[y]) /\ L[h].body = v
            /\ L[h].kind = K2[h].kind /\ L[h].ref = K2[h].ref /\ L[h].status = K2[h].status /\ L[h].result = K2[h].result /\ L[h].deps = K2[h].deps /\ L[h].sucs = K2[h].sucs /\ L[h].countdown = K2[h].countdown
    BY <2>1, SetBody
  <2>3. QED
    BY <1>17, <2>2 DEF v
<1> HIDE DEF K3
<1>19. /\ K4 \in Heaps /\ (\A y \in Headers \ {h} : K4[y] = G[y]) /\ K4[h].status = StatusReady
       /\ K4[h].kind = H[h].kind /\ K4[h].ref = H[h].ref /\ K4[h].countdown = H[h].countdown
       /\ K4[h].result = r /\ K4[h].body = "none" /\ K4[h].deps = <<>>
  BY <1>15, <1>18, SetDeps
<1> HIDE DEF K4
<1>20. /\ K5 \in Heaps /\ (\A y \in Headers \ {h} : K5[y] = G[y]) /\ K5[h].status = StatusReady
       /\ K5[h].kind = H[h].kind /\ K5[h].ref = H[h].ref /\ K5[h].countdown = H[h].countdown
       /\ K5[h].result = r /\ K5[h].body = "none" /\ K5[h].deps = <<>> /\ K5[h].sucs = <<>>
  <2> DEFINE v == <<>>
  <2>1. K4 \in Heaps /\ v \in Seq(Pairs)
    BY <1>19, <1>15
  <2> HIDE DEF v
  <2>2. LET L == [K4 EXCEPT ![h].sucs = v]
        IN  /\ L \in Heaps /\ (\A y \in Headers \ {h} : L[y] = K4[y]) /\ L[h].sucs = v
            /\ L[h].kind = K4[h].kind /\ L[h].ref = K4[h].ref /\ L[h].status = K4[h].status /\ L[h].result = K4[h].result /\ L[h].body = K4[h].body /\ L[h].deps = K4[h].deps /\ L[h].countdown = K4[h].countdown
    BY <2>1, SetSucs
  <2>3. QED
    BY <1>19, <2>2 DEF v
<1>21. Entered(G, h, r) = K5
  BY Zenon DEF Entered, K5, K4, K3, K2, K1
<1> HIDE DEF K5
<1>22. Resolving(C, K5, h, r)
  BY <1>1, <1>10, <1>20 DEF Resolving, hit, e
<1>23. QED
  BY <1>20, <1>21, <1>22 DEF G, C

\* No header is made, no dependent but h changes its body, and what is due stays due.
Moves(H, K, h) ==
  /\ IsFree(K) = IsFree(H)
  /\ \A x \in Headers \ {h} :
       /\ Unready(K, x) <=> Unready(H, x)
       /\ Unready(H, x) => K[x].body = H[x].body
       /\ x \in Due(H) => x \in Due(K) /\ K[x].status = H[x].status

\* enter_ready keeps the heap whole, moves no other dependent out of its state and queues exactly
\* those that become due.
LEMMA EnterReadyOK ==
  ASSUME NEW H \in Heaps, NEW X \in Tallies, NEW z, NEW h \in Headers, NEW r,
         Readied(Cleared(H, h), X, z, h, r), r # h => X[h] >= 0,
         NEW q \in Seq(Headers), Lists!IsInjective(q), Lists!ToSet(q) \subseteq Due(Cleared(H, h))
  PROVE  LET C == Cleared(H, h)
             E == EnterReady(H, q, h, r)
         IN  /\ r = h => HeapOK(E.heap, X, Nil)
             /\ r # h => HeapOK(E.heap, Give(X, r, -1), Nil)
             /\ E.queue \in Seq(Headers) /\ Lists!IsInjective(E.queue)
             /\ Lists!ToSet(E.queue) = Lists!ToSet(q) \cup (Due(E.heap) \ Due(C))
             /\ Moves(C, E.heap, h) /\ ~ Unready(E.heap, h)
<1> DEFINE C == Cleared(H, h)
           K == Entered(Touched(H, h, r), h, r)
           L == IF r = h THEN K ELSE HandOver(K, h, r, Len(H[h].sucs))
           E == EnterReady(H, q, h, r)
<1>1. K \in Heaps /\ Resolving(C, K, h, r)
  BY EnterFields
<1>2. E = [heap |-> L, queue |-> q \o Awake(H, h)]
  BY EnterReadyParts, SMTT(60)
<1>3. E.heap = L /\ E.queue = q \o Awake(H, h)
  BY <1>2
<1>4. C \in Heaps /\ C[h].sucs = H[h].sucs /\ \A x \in Headers : C[x].status = H[x].status
  <2>1. /\ C \in Heaps /\ C[h].sucs = H[h].sucs /\ C[h].status = H[h].status
        /\ \A x \in Headers \ {h} : C[x] = H[x]
    BY ClearedFields
  <2>2. QED
    BY <2>1
<1>5. Readied(C, X, z, h, r)
  OBVIOUS
<1> HIDE DEF C, K, E
<1>6. Awake(H, h) = Awake(C, h)
  <2>1. \A i \in DOMAIN C[h].sucs : C[h].sucs[i][1] \in Headers
    BY <1>4, FieldTypes DEF Pairs
  <2>2. \A i \in DOMAIN C[h].sucs : Wakes(H, C[h].sucs, i) <=> Wakes(C, C[h].sucs, i)
    BY <1>4, <2>1 DEF Wakes, StatusAfter
  <2>3. {i \in DOMAIN C[h].sucs : Wakes(H, C[h].sucs, i)} = {i \in DOMAIN C[h].sucs : Wakes(C, C[h].sucs, i)}
    BY <2>2
  <2>4. QED
    BY <1>4, <2>3 DEF Awake
<1>7. /\ Awake(C, h) \in Seq(Headers) /\ Lists!IsInjective(Awake(C, h))
      /\ Lists!ToSet(Awake(C, h)) = Due(K) \ Due(C)
  BY <1>1, <1>5, AwakeFacts
<1>8. HeapOK(L, IF r = h THEN X ELSE Give(X, r, -1), Nil) /\ Keeps(K, L)
  <2>1. CASE r = h
    <3>1. HeapOK(K, ResolveTally(C, X, h, r), Nil)
      BY <1>1, <1>5, ResolveOK
    <3>2. \A x \in Headers : X[x] = ResolveTally(C, X, h, r)[x]
      <4>1. \A x \in Headers : X[x] \in Int
        BY DEF Tallies
      <4>2. \A x \in Headers : ResolveTally(C, X, h, r)[x] = X[x] + 0 - 0
        BY <2>1 DEF ResolveTally
      <4>3. QED
        BY <4>1, <4>2
    <3>3. HeapOK(K, X, Nil)
      BY <3>1, <3>2, HeapTally
    <3>4. QED
      BY <2>1, <3>3, KeepsSame
  <2>2. CASE r # h
    <3>1. HeapOK(HandOver(K, h, r, Len(C[h].sucs)), Give(X, r, -1), Nil)
          /\ Keeps(K, HandOver(K, h, r, Len(C[h].sucs)))
      BY <1>1, <1>5, <2>2, HandOverOK
    <3>2. QED
      BY <1>4, <2>2, <3>1
  <2>3. QED
    BY <2>1, <2>2
<1> HIDE DEF L
<1>9. Due(L) = Due(K) /\ IsFree(L) = IsFree(K) /\ \A x \in Headers : Unready(L, x) <=> Unready(K, x)
  BY <1>8, KeepsFacts DEF Keeps
<1>10. \A x \in Headers : Unready(K, x) => L[x].status = K[x].status /\ L[x].body = K[x].body
  BY <1>8 DEF Keeps, Alike
<1>11. /\ E.queue \in Seq(Headers) /\ Lists!IsInjective(E.queue)
       /\ Lists!ToSet(E.queue) = Lists!ToSet(q) \cup (Due(L) \ Due(C))
  <2> DEFINE p == Awake(C, h)
  <2>1. p \in Seq(Headers) /\ Lists!IsInjective(p) /\ Lists!ToSet(p) = Due(L) \ Due(C) /\ E.queue = q \o p
    BY <1>3, <1>6, <1>7, <1>9
  <2>2. Lists!ToSet(q) \cap Lists!ToSet(p) = {}
    <3>1. Lists!ToSet(q) \subseteq Due(C)
      BY DEF C
    <3>2. QED
      BY <2>1, <3>1
  <2> HIDE DEF p
  <2>3. QED
    BY <2>1, <2>2, ConcatFacts
<1>12. IsFree(K) = IsFree(C)
  <2>1. \A x \in Headers : K[x].kind = C[x].kind
    BY <1>1, <1>5, ResolveShape
  <2>2. QED
    BY <2>1 DEF IsFree
<1>13. Moves(C, L, h)
  <2>1. ASSUME NEW x \in Headers \ {h}
        PROVE  /\ Unready(L, x) <=> Unready(C, x)
               /\ Unready(C, x) => L[x].body = C[x].body
               /\ x \in Due(C) => x \in Due(L) /\ L[x].status = C[x].status
    <3>1. Unready(K, x) <=> Unready(C, x)
      BY <1>1, <1>5, ResolveShape
    <3>2. K[x].body = C[x].body
      BY <1>1 DEF Resolving
    <3>3. x \in Due(C) => x \in Due(K) /\ K[x].status = C[x].status
      BY <1>1, <1>5, ResolveDue
    <3>4. x \in Due(C) => Unready(C, x)
      BY DEF Due
    <3>5. QED
      BY <1>9, <1>10, <3>1, <3>2, <3>3, <3>4
  <2>2. QED
    BY <1>9, <1>12, <2>1 DEF Moves
<1>14. ~ Unready(L, h)
  BY <1>1, <1>5, <1>9, ResolveShape
<1>15. QED
  BY <1>3, <1>8, <1>11, <1>13, <1>14 DEF C, E

-----------------------------------------------------------------------------
(* A header becomes a proxy                                                *)

\* Picking from a list of distinct elements.
LEMMA PickInjective ==
  ASSUME NEW T, NEW s \in Seq(T), Lists!IsInjective(s), NEW W \in SUBSET DOMAIN s
  PROVE  /\ PickAt(s, W) \in Seq(T) /\ Lists!IsInjective(PickAt(s, W))
         /\ Lists!ToSet(PickAt(s, W)) = {s[i] : i \in W}
<1> DEFINE p == PickAt(s, W)
           m == Cardinality(W)
<1>1. /\ p \in Seq(T) /\ DOMAIN p = 1 .. m
      /\ {p[i] : i \in DOMAIN p} = {s[i] : i \in W}
      /\ \A k \in 1 .. m : Place(W, k) \in W /\ p[k] = s[Place(W, k)]
      /\ \A k, l \in 1 .. m : Place(W, k) = Place(W, l) => k = l
  <2>1. p \in Seq(T) /\ DOMAIN p = 1 .. m
    BY PickFacts
  <2>2. {p[i] : i \in DOMAIN p} = {s[i] : i \in W}
    BY PickFacts
  <2>3. \A k \in 1 .. m : Place(W, k) \in W /\ p[k] = s[Place(W, k)]
    BY PickFacts
  <2>4. \A k, l \in 1 .. m : Place(W, k) = Place(W, l) => k = l
    BY PickFacts
  <2> HIDE DEF p, m
  <2>5. QED
    BY <2>1, <2>2, <2>3, <2>4
<1> HIDE DEF p, m
<1>2. ASSUME NEW k \in 1 .. m, NEW l \in 1 .. m, p[k] = p[l]
      PROVE  k = l
  <2>1. Place(W, k) \in DOMAIN s /\ Place(W, l) \in DOMAIN s /\ s[Place(W, k)] = s[Place(W, l)]
    BY <1>1, <1>2
  <2>2. Place(W, k) = Place(W, l)
    BY <2>1 DEF Lists!IsInjective
  <2>3. QED
    BY <1>1, <2>2
<1>3. Lists!IsInjective(p)
  BY <1>1, <1>2 DEF Lists!IsInjective
<1>4. Lists!ToSet(p) = {s[i] : i \in W}
  BY <1>1 DEF Lists!ToSet
<1>5. QED
  BY <1>1, <1>3, <1>4 DEF p

\* Reversing a list of distinct elements.
LEMMA ReverseFacts ==
  ASSUME NEW T, NEW s \in Seq(T), Lists!IsInjective(s)
  PROVE  /\ Lists!Reverse(s) \in Seq(T) /\ Lists!IsInjective(Lists!Reverse(s))
         /\ Lists!ToSet(Lists!Reverse(s)) = Lists!ToSet(s) /\ Len(Lists!Reverse(s)) = Len(s)
<1> DEFINE n == Len(s)
           f == [i \in 1 .. n |-> s[(n - i) + 1]]
<1>1. n \in Nat /\ DOMAIN s = 1 .. n /\ \A i \in 1 .. n : s[i] \in T
  BY LenProperties, ElementOfSeq
<1>2. Lists!Reverse(s) = f
  BY DEF Lists!Reverse
<1> HIDE DEF n
<1>3. \A i \in 1 .. n : (n - i) + 1 \in 1 .. n /\ (n - ((n - i) + 1)) + 1 = i
  BY <1>1
<1>4. f \in [1 .. n -> T] /\ (\A i \in 1 .. n : f[i] = s[(n - i) + 1]) /\ DOMAIN f = 1 .. n
  BY <1>1, <1>3
<1> HIDE DEF f
<1>5. f \in Seq(T)
  BY <1>1, <1>4, SeqDef
<1>6. Len(f) = n
  BY <1>1, <1>4, <1>5, LenProperties
<1>7. Lists!IsInjective(f)
  <2>1. ASSUME NEW i \in 1 .. n, NEW j \in 1 .. n, f[i] = f[j]
        PROVE  i = j
    <3>1. s[(n - i) + 1] = s[(n - j) + 1] /\ (n - i) + 1 \in DOMAIN s /\ (n - j) + 1 \in DOMAIN s
      BY <1>1, <1>3, <1>4, <2>1
    <3>2. (n - i) + 1 = (n - j) + 1
      BY <3>1 DEF Lists!IsInjective
    <3>3. QED
      BY <1>1, <3>2
  <2>2. QED
    BY <1>4, <2>1 DEF Lists!IsInjective
<1>8. Lists!ToSet(f) = Lists!ToSet(s)
  <2>1. \A i \in 1 .. n : f[i] \in Lists!ToSet(s)
    BY <1>1, <1>3, <1>4 DEF Lists!ToSet
  <2>2. ASSUME NEW i \in 1 .. n
        PROVE  \E j \in 1 .. n : f[j] = s[i]
    <3> DEFINE j == (n - i) + 1
    <3>1. j \in 1 .. n /\ (n - j) + 1 = i
      BY <1>3
    <3> HIDE DEF j
    <3>2. f[j] = s[i]
      BY <1>4, <3>1
    <3>3. QED
      BY <3>1, <3>2
  <2>3. QED
    BY <1>1, <1>4, <2>1, <2>2 DEF Lists!ToSet
<1>9. QED
  BY <1>2, <1>5, <1>6, <1>7, <1>8 DEF n

\* The links of the dependents that proxy h.
Movers(H, h) == {l \in OpenTo(H, h) : H[l[1]].status = StatusProxying}

IsProxy(H, d) == H[d].body = "proxy" /\ Len(H[d].deps) = 1

\* A proxy has one dependency.
LEMMA ProxyBody ==
  ASSUME NEW H, NEW X, NEW z, HeapOK(H, X, z), NEW d \in Headers, Proxying(H, d), d # z
  PROVE  IsProxy(H, d)
<1>1. Unready(H, d) /\ BodyOK(H, d)
  BY KindFacts
<1>2. H[d].status \in {-2, -3}
  BY DEF Proxying, StatusProxying, StatusProxyingActive
<1>3. Cardinality(OpenOf(H, d)) \in Nat
  BY HitsFacts
<1>4. QED
  BY <1>1, <1>2, <1>3 DEF BodyOK, IsProxy

\* A link that enter_proxying moves past h is that of a proxy of h.
LEMMA MoverFacts ==
  ASSUME NEW H, NEW X, NEW z, HeapOK(H, X, z), NEW h \in Headers, NEW l \in Movers(H, h)
  PROVE  /\ l \in OpenTo(H, h) /\ l \in Links(H) /\ l = <<l[1], 1>> /\ l[1] \in Headers /\ l[1] # z
         /\ Unready(H, l[1]) /\ H[l[1]].body = "proxy" /\ Len(H[l[1]].deps) = 1 /\ DOMAIN H[l[1]].deps = {1}
         /\ Proxying(H, l[1]) /\ H[l[1]].deps[1].dep = h /\ H[l[1]].deps[1].linked /\ H[l[1]].status = StatusProxying
<1> DEFINE d == l[1]
<1>1. l \in Links(H) /\ l \in OpenTo(H, h) /\ LinkAt(H, l).dep = h /\ LinkAt(H, l).linked /\ H[d].status = StatusProxying
  BY DEF Movers, OpenTo, LinksTo
<1>2. d \in Headers /\ l = <<d, l[2]>> /\ l[2] \in DOMAIN H[d].deps /\ Unready(H, d) /\ d # z
  BY <1>1, LinkFacts
<1>3. Proxying(H, d)
  BY <1>1 DEF Proxying
<1>4. H[d].body = "proxy" /\ Len(H[d].deps) = 1
  <2> HIDE DEF d
  <2>1. d \in Headers /\ d # z /\ Proxying(H, d)
    BY <1>2, <1>3
  <2>2. IsProxy(H, d)
    BY <2>1, ProxyBody
  <2>3. QED
    BY <2>2 DEF IsProxy
<1>5. DOMAIN H[d].deps = 1 .. Len(H[d].deps)
  <2>1. H \in Heaps
    BY HeapHeader
  <2>2. QED
    BY <1>2, <2>1, FieldTypes
<1>6. DOMAIN H[d].deps = {1} /\ l[2] = 1
  BY <1>2, <1>4, <1>5
<1>7. QED
  BY <1>1, <1>2, <1>3, <1>4, <1>6 DEF LinkAt

\* h proxies b from now on, and so do the dependents that proxied h.
Proxify(H, K, h, b) ==
  /\ K[h].kind = H[h].kind /\ K[h].ref = H[h].ref /\ K[h].countdown = H[h].countdown /\ K[h].result = H[h].result
  /\ K[h].status = StatusProxying /\ K[h].body = "proxy" /\ K[h].deps = <<[dep |-> b, linked |-> TRUE]>>
  /\ \A d \in Headers \ {h} :
       /\ K[d].kind = H[d].kind /\ K[d].ref = H[d].ref /\ K[d].countdown = H[d].countdown
       /\ K[d].result = H[d].result /\ K[d].body = H[d].body /\ K[d].status = H[d].status
       /\ K[d].deps = IF <<d, 1>> \in Movers(H, h) THEN <<[dep |-> b, linked |-> TRUE]>> ELSE H[d].deps
       /\ d # b => K[d].sucs = H[d].sucs
  /\ Lists!IsInjective(K[h].sucs) /\ Lists!ToSet(K[h].sucs) = OpenTo(H, h) \ Movers(H, h)
  /\ Lists!IsInjective(K[b].sucs)
  /\ Lists!ToSet(K[b].sucs) = {<<h, 1>>} \cup Movers(H, h) \cup OpenTo(H, b)

\* The header that becomes a proxy, and the one it stands for.
Standing(H, X, h, b) ==
  /\ HeapOK(H, X, h) /\ h \in Headers \ {Always} /\ Unready(H, h)
  /\ b \in Headers \ {h} /\ Allocated(H, b) /\ ~ Ready(H, b) /\ ~ Proxying(H, b)

\* Turning h into a proxy makes no header ready and un-makes no result.
LEMMA ProxifyShape ==
  ASSUME NEW H, NEW X, NEW h, NEW b, Standing(H, X, h, b), NEW K \in Heaps, Proxify(H, K, h, b), NEW d \in Headers
  PROVE  /\ Ready(K, d) <=> Ready(H, d)
         /\ Unready(K, d) <=> Unready(H, d)
         /\ d # h => (Proxying(K, d) <=> Proxying(H, d))
         /\ IsResult(H, d) => IsResult(K, d) /\ d # h
         /\ Allocated(K, d) <=> Allocated(H, d)
         /\ K[d].kind = H[d].kind /\ K[d].ref = H[d].ref /\ K[d].countdown = H[d].countdown
         /\ ResultFor(K, d) = ResultFor(H, d) /\ ~ Proxying(K, b)
<1>1. h \in Headers /\ ~ Ready(H, h) /\ K[h].status = StatusProxying /\ K[h].kind = H[h].kind
      /\ b \in Headers \ {h} /\ ~ Proxying(H, b)
  BY DEF Standing, Unready, Proxify
<1>2. \A x \in Headers \ {h} : K[x].status = H[x].status /\ K[x].result = H[x].result /\ K[x].kind = H[x].kind
  BY DEF Proxify
<1>3. \A x \in Headers : K[x].result = H[x].result
  BY <1>2 DEF Proxify
<1>4. K[d].kind = H[d].kind /\ K[d].ref = H[d].ref /\ K[d].countdown = H[d].countdown
  BY <1>1 DEF Proxify
<1>5. ~ Ready(K, h)
  BY <1>1 DEF Ready, StatusProxying, StatusReady
<1>6. ResultFor(K, d) = ResultFor(H, d)
  BY <1>3 DEF ResultFor
<1>7. Ready(K, d) <=> Ready(H, d)
  BY <1>1, <1>2, <1>5 DEF Ready
<1>8. Unready(K, d) <=> Unready(H, d)
  BY <1>4, <1>7 DEF Unready
<1>9. d # h => (Proxying(K, d) <=> Proxying(H, d))
  BY <1>2 DEF Proxying
<1>10. IsResult(H, d) => IsResult(K, d) /\ d # h
  BY <1>1, <1>3, <1>7 DEF IsResult
<1>11. ~ Proxying(K, b)
  BY <1>1, <1>2 DEF Proxying
<1>12. QED
  BY <1>4, <1>6, <1>7, <1>8, <1>9, <1>10, <1>11 DEF Allocated

\* Turning h into a proxy of b adds its link and moves those of its proxies to b.
LEMMA ProxifyDeps ==
  ASSUME NEW H, NEW X, NEW h, NEW b, Standing(H, X, h, b), NEW K \in Heaps, Proxify(H, K, h, b)
  PROVE  /\ Links(K) = Links(H) \cup {<<h, 1>>} /\ <<h, 1>> \notin Links(H)
         /\ \A l \in Links(H) \ Movers(H, h) : LinkAt(K, l) = LinkAt(H, l)
         /\ \A l \in Movers(H, h) \cup {<<h, 1>>} : LinkAt(K, l).dep = b /\ LinkAt(K, l).linked
<1> DEFINE M == Movers(H, h)
           e == <<[dep |-> b, linked |-> TRUE]>>
<1>1. HeapOK(H, X, h) /\ h \in Headers /\ H \in Heaps /\ H[h].deps = <<>>
  BY HeapHeader, KindFacts DEF Standing, Bodiless
<1>2. DOMAIN e = {1} /\ e[1].dep = b /\ e[1].linked
  OBVIOUS
<1>3. K[h].deps = e /\ \A d \in Headers \ {h} : K[d].deps = IF <<d, 1>> \in M THEN e ELSE H[d].deps
  BY DEF Proxify
<1> HIDE DEF e
<1>4. \A l \in M : /\ l \in Links(H) /\ l = <<l[1], 1>> /\ l[1] \in Headers \ {h} /\ DOMAIN H[l[1]].deps = {1}
  BY <1>1, MoverFacts
<1>5. 1 \in 1 .. MaxArgs
  BY Constants
<1>6. \A l \in Links(H) : l[1] \in Headers \ {h} /\ l[2] \in 1 .. MaxArgs /\ l = <<l[1], l[2]>> /\ l[2] \in DOMAIN H[l[1]].deps
  BY <1>1, LinkFacts
<1>7. ASSUME NEW d \in Headers \ {h}
      PROVE  DOMAIN K[d].deps = DOMAIN H[d].deps
  <2>1. CASE <<d, 1>> \in M
    <3>1. DOMAIN H[d].deps = {1}
      BY <1>4, <2>1
    <3>2. QED
      BY <1>2, <1>3, <2>1, <3>1
  <2>2. CASE <<d, 1>> \notin M
    BY <1>3, <2>2
  <2>3. QED
    BY <2>1, <2>2
<1>8. <<h, 1>> \notin Links(H)
  BY <1>6
<1>9. Links(K) = Links(H) \cup {<<h, 1>>}
  <2>1. ASSUME NEW l \in Links(K)
        PROVE  l \in Links(H) \cup {<<h, 1>>}
    <3>1. l[1] \in Headers /\ l[2] \in 1 .. MaxArgs /\ l = <<l[1], l[2]>> /\ l[2] \in DOMAIN K[l[1]].deps
          /\ l \in Headers \X (1 .. MaxArgs)
      BY LinkParts DEF Links
    <3>2. CASE l[1] = h
      BY <1>2, <1>3, <3>1, <3>2
    <3>3. CASE l[1] # h
      <4>1. l[2] \in DOMAIN H[l[1]].deps
        BY <1>7, <3>1, <3>3
      <4>2. QED
        BY <3>1, <4>1 DEF Links
    <3>4. QED
      BY <3>2, <3>3
  <2>2. ASSUME NEW l \in Links(H)
        PROVE  l \in Links(K)
    <3>1. l \in Headers \X (1 .. MaxArgs) /\ l[2] \in DOMAIN K[l[1]].deps
      BY <1>6, <1>7 DEF Links
    <3>2. QED
      BY <3>1 DEF Links
  <2>3. <<h, 1>> \in Links(K)
    BY <1>1, <1>2, <1>3, <1>5 DEF Links
  <2>4. QED
    BY <2>1, <2>2, <2>3
<1>10. ASSUME NEW l \in Links(H) \ M
       PROVE  LinkAt(K, l) = LinkAt(H, l)
  <2>1. <<l[1], 1>> \notin M
    BY <1>4, <1>6
  <2>2. K[l[1]].deps = H[l[1]].deps
    BY <1>3, <1>6, <2>1
  <2>3. QED
    BY <2>2 DEF LinkAt
<1>11. ASSUME NEW l \in M \cup {<<h, 1>>}
       PROVE  LinkAt(K, l).dep = b /\ LinkAt(K, l).linked
  <2>1. l[2] = 1 /\ K[l[1]].deps = e
    BY <1>3, <1>4
  <2>2. QED
    BY <1>2, <2>1 DEF LinkAt
<1>12. QED
  BY <1>8, <1>9, <1>10, <1>11

\* How the links move when h becomes a proxy of b.
Relinked(H, K, h, b) ==
  /\ LinksTo(K, h) = LinksTo(H, h) \ Movers(H, h)
  /\ LinksTo(K, b) = LinksTo(H, b) \cup (Movers(H, h) \cup {<<h, 1>>})
  /\ \A x \in Headers \ {h, b} : LinksTo(K, x) = LinksTo(H, x) /\ OpenTo(K, x) = OpenTo(H, x)
  /\ OpenTo(K, h) = OpenTo(H, h) \ Movers(H, h)
  /\ OpenTo(K, b) = {<<h, 1>>} \cup Movers(H, h) \cup OpenTo(H, b)
  /\ LinksTo(H, b) \cap Movers(H, h) = {} /\ <<h, 1>> \notin LinksTo(H, b) \cup Movers(H, h)
  /\ Movers(H, h) \subseteq LinksTo(H, h)

\* The successor lists of h and b after h became a proxy of b are again their open links.
LEMMA ProxifyLinks ==
  ASSUME NEW H, NEW X, NEW h, NEW b, Standing(H, X, h, b), NEW K \in Heaps, Proxify(H, K, h, b)
  PROVE  Relinked(H, K, h, b)
<1> DEFINE M == Movers(H, h)
<1>1. b # h
  BY DEF Standing
<1>2. /\ Links(K) = Links(H) \cup {<<h, 1>>} /\ <<h, 1>> \notin Links(H)
      /\ \A l \in Links(H) \ M : LinkAt(K, l) = LinkAt(H, l)
      /\ \A l \in M \cup {<<h, 1>>} : LinkAt(K, l).dep = b /\ LinkAt(K, l).linked
  BY ProxifyDeps
<1>3. \A l \in M : l \in Links(H) /\ LinkAt(H, l).dep = h /\ LinkAt(H, l).linked
  BY DEF Movers, OpenTo, LinksTo
<1> HIDE DEF M
<1>4. LinksTo(K, h) = LinksTo(H, h) \ M
  BY <1>1, <1>2, <1>3 DEF LinksTo
<1>5. LinksTo(K, b) = LinksTo(H, b) \cup (M \cup {<<h, 1>>})
  BY <1>1, <1>2, <1>3 DEF LinksTo
<1>6. ASSUME NEW x \in Headers \ {h, b}
      PROVE  LinksTo(K, x) = LinksTo(H, x)
  BY <1>1, <1>2, <1>3 DEF LinksTo
<1>7. ASSUME NEW x \in Headers \ {h, b}
      PROVE  OpenTo(K, x) = OpenTo(H, x)
  <2>1. \A l \in LinksTo(H, x) : LinkAt(K, l) = LinkAt(H, l)
    BY <1>1, <1>2, <1>3 DEF LinksTo
  <2>2. QED
    BY <1>6, <2>1 DEF OpenTo
<1>8. OpenTo(K, h) = OpenTo(H, h) \ M
  <2>1. \A l \in LinksTo(H, h) \ M : LinkAt(K, l) = LinkAt(H, l)
    BY <1>1, <1>2, <1>3 DEF LinksTo
  <2>2. QED
    BY <1>4, <2>1 DEF OpenTo
<1>9. OpenTo(K, b) = {<<h, 1>>} \cup M \cup OpenTo(H, b)
  <2>1. \A l \in LinksTo(H, b) : LinkAt(K, l) = LinkAt(H, l)
    BY <1>1, <1>2, <1>3 DEF LinksTo
  <2>2. QED
    BY <1>2, <1>5, <2>1 DEF OpenTo
<1>10. LinksTo(H, b) \cap M = {} /\ <<h, 1>> \notin LinksTo(H, b) \cup M /\ M \subseteq LinksTo(H, h)
  BY <1>1, <1>2, <1>3 DEF LinksTo
<1>11. QED
  BY <1>4, <1>5, <1>6, <1>7, <1>8, <1>9, <1>10 DEF M, Relinked

\* Turning h into a proxy leaves every header in a legal state: its proxies now proxy b, which is no
\* proxy.
LEMMA ProxifyHeader ==
  ASSUME NEW H, NEW X, NEW h, NEW b, Standing(H, X, h, b), NEW K \in Heaps, Proxify(H, K, h, b), NEW d \in Headers
  PROVE  HeaderOK(K, d, Nil)
<1>1. HeapOK(H, X, h) /\ h \in Headers /\ H \in Heaps /\ Unready(H, h) /\ b \in Headers \ {h} /\ Allocated(H, b)
  BY HeapHeader DEF Standing
<1>2. d # Nil /\ 1 <= MaxArgs
  BY Constants
<1>3. CASE d = h \/ <<d, 1>> \in Movers(H, h)
  <2>1. K[d].body = "proxy" /\ K[d].status = StatusProxying /\ K[d].deps = <<[dep |-> b, linked |-> TRUE]>>
    <3>1. CASE d = h
      BY <3>1 DEF Proxify
    <3>2. CASE d # h
      <4>1. H[d].body = "proxy" /\ H[d].status = StatusProxying
        BY <1>1, <1>3, <3>2, MoverFacts
      <4>2. QED
        BY <1>3, <3>2, <4>1 DEF Proxify
    <3>3. QED
      BY <3>1, <3>2
  <2>2. Unready(H, d)
    <3>1. CASE d = h
      BY <1>1, <3>1
    <3>2. CASE d # h
      BY <1>1, <1>3, <3>2, MoverFacts
    <3>3. QED
      BY <3>1, <3>2
  <2>3. Unready(K, d) /\ ~ Proxying(K, b)
    BY <2>2, ProxifyShape
  <2>4. H[d].result = Nil
    BY <1>1, <2>2, KindFacts
  <2>5. K[d].result = Nil
    BY <2>4 DEF Proxify
  <2>6. BodyOK(K, d)
    <3>1. Len(K[d].deps) = 1 /\ DOMAIN K[d].deps = {1} /\ K[d].deps[1].linked /\ K[d].deps[1].dep = b
      BY <2>1
    <3>2. QED
      BY <1>2, <2>1, <2>3, <3>1 DEF BodyOK, Proxied
  <2>7. QED
    BY <1>2, <2>3, <2>5, <2>6 DEF HeaderOK, Unready
<1>4. CASE d # h /\ <<d, 1>> \notin Movers(H, h)
  <2>1. /\ K[d].kind = H[d].kind /\ K[d].status = H[d].status /\ K[d].result = H[d].result /\ K[d].ref = H[d].ref
        /\ K[d].body = H[d].body /\ K[d].deps = H[d].deps /\ K[d].countdown = H[d].countdown
        /\ (d # b => K[d].sucs = H[d].sucs)
    BY <1>4 DEF Proxify
  <2>2. HeaderOK(H, d, h) /\ (d = Nil <=> d = h)
    BY <1>1, <1>2, <1>4, HeapHeader
  <2>3. ~ Allocated(H, d) => K[d] = H[d]
    <3>1. SUFFICES ASSUME ~ Allocated(H, d) PROVE K[d] = H[d]
      OBVIOUS
    <3>2. d # b
      BY <1>1, <3>1
    <3>3. K[d] \in HeaderType /\ H[d] \in HeaderType
      BY <1>1 DEF Heaps
    <3>4. QED
      BY <2>1, <3>2, <3>3, SameFields
  <2>4. \A x \in Headers : IsResult(H, x) => IsResult(K, x)
    BY ProxifyShape
  <2>5. \A k \in DOMAIN H[d].deps : H[d].deps[k].dep \in Headers
    BY <1>1, FieldTypes
  <2>6. ASSUME Unready(H, d), d # h, H[d].status = StatusProxying, ~ Proxying(H, Proxied(H, d))
        PROVE  ~ Proxying(K, Proxied(H, d))
    <3>1. Proxying(H, d)
      BY <2>6 DEF Proxying
    <3>2. Proxied(H, d) \in Headers /\ <<d, 1>> \in OpenTo(H, Proxied(H, d))
      BY <1>1, <2>6, <3>1, ProxiedFacts
    <3>3. Proxied(H, d) # h
      BY <1>4, <2>6, <3>2 DEF Movers
    <3>4. QED
      BY <2>6, <3>2, <3>3, ProxifyShape
  <2>7. QED
    <3>1. \A k \in DOMAIN H[d].deps : IsResult(H, H[d].deps[k].dep) => IsResult(K, H[d].deps[k].dep)
      BY <2>4, <2>5
    <3>2. H[d].result \in Headers \ {d} /\ IsResult(H, H[d].result) => IsResult(K, H[d].result)
      BY <2>4
    <3>3. Unready(H, d) /\ d # h /\ H[d].status = StatusProxying /\ ~ Proxying(H, Proxied(H, d))
           => ~ Proxying(K, Proxied(H, d))
      BY <2>6
    <3>4. QED
      BY <1>1, <2>1, <2>2, <2>3, <3>1, <3>2, <3>3, HeaderFrame
<1>5. QED
  BY <1>3, <1>4

\* The references h gave up with its proxies, and the one it carries again.
ProxifyTally(H, X, h, b) ==
  [x \in Headers |-> X[x] + (IF x = h THEN Cardinality(Movers(H, h)) - 1 ELSE 0)
                          - (IF x = b THEN Cardinality(Movers(H, h)) + 1 ELSE 0)]

\* The references that h and b owe each other while the list is split.
LEMMA ProxifyTallyFacts ==
  ASSUME NEW H, NEW X \in Tallies, NEW h, NEW b, Standing(H, X, h, b)
  PROVE  LET m == Cardinality(Movers(H, h))
             Y == ProxifyTally(H, X, h, b)
         IN  /\ m \in Nat /\ IsFiniteSet(Movers(H, h)) /\ Y \in Tallies /\ h \in Headers /\ b \in Headers
             /\ Y[h] = X[h] + m - 1 /\ Y[b] = X[b] - m - 1 /\ \A x \in Headers \ {h, b} : Y[x] = X[x]
<1> DEFINE m == Cardinality(Movers(H, h))
<1>1. IsFiniteSet(Movers(H, h)) /\ m \in Nat
  <2>1. Movers(H, h) \subseteq OpenTo(H, h) /\ IsFiniteSet(OpenTo(H, h))
    BY FiniteCounts DEF Movers
  <2>2. QED
    BY <2>1, FS_Subset, FS_CardinalityType
<1>2. b # h /\ b \in Headers /\ h \in Headers
  BY DEF Standing
<1>3. \A x \in Headers : X[x] \in Int
  BY DEF Tallies
<1>4. QED
  BY <1>1, <1>2, <1>3 DEF ProxifyTally, Tallies

\* The reference counts, but for these.
LEMMA ProxifyCount ==
  ASSUME NEW H, NEW X \in Tallies, NEW h, NEW b, Standing(H, X, h, b), NEW K \in Heaps, Proxify(H, K, h, b),
         NEW x \in Headers \ {Always}
  PROVE  CountOK(K, ProxifyTally(H, X, h, b), Nil, x)
<1> DEFINE M == Movers(H, h)
           m == Cardinality(M)
           Y == ProxifyTally(H, X, h, b)
<1>1. HeapOK(H, X, h) /\ h \in Headers /\ Unready(H, h) /\ b \in Headers \ {h} /\ H \in Heaps
  BY HeapHeader DEF Standing
<1>2. m \in Nat /\ IsFiniteSet(M) /\ Y[h] = X[h] + m - 1 /\ Y[b] = X[b] - m - 1 /\ \A y \in Headers \ {h, b} : Y[y] = X[y]
  BY ProxifyTallyFacts
<1>3. X[x] \in Int
  BY DEF Tallies
<1>5. CountOK(H, X, h, x) /\ K[x].ref = H[x].ref /\ ResultFor(K, x) = ResultFor(H, x) /\ (Unready(K, x) <=> Unready(H, x))
      /\ (Allocated(K, x) <=> Allocated(H, x))
  BY <1>1, HeapHeader, ProxifyShape
<1>4. Relinked(H, K, h, b)
  BY ProxifyLinks
<1>6. /\ LinksTo(K, h) = LinksTo(H, h) \ M
      /\ LinksTo(K, b) = LinksTo(H, b) \cup (M \cup {<<h, 1>>})
      /\ \A y \in Headers \ {h, b} : LinksTo(K, y) = LinksTo(H, y)
      /\ LinksTo(H, b) \cap M = {} /\ <<h, 1>> \notin LinksTo(H, b) \cup M
      /\ M \subseteq LinksTo(H, h)
  BY <1>4 DEF Relinked
<1> HIDE DEF M
<1>7. /\ IsFiniteSet(LinksTo(H, x)) /\ Cardinality(LinksTo(H, x)) \in Nat
      /\ Cardinality(ResultFor(H, x)) \in Nat
  BY FiniteCounts
<1>8. x # Nil
  BY Constants
<1> HIDE DEF m, Y
<1>9. CASE x = h
  <2>1. Cardinality(LinksTo(K, x)) = Cardinality(LinksTo(H, x)) - m
    <3>1. M \cap LinksTo(H, x) = M
      BY <1>6, <1>9
    <3>2. Cardinality(LinksTo(H, x) \ M) = Cardinality(LinksTo(H, x)) - Cardinality(LinksTo(H, x) \cap M)
      BY <1>7, FS_Difference
    <3>3. LinksTo(H, x) \cap M = M /\ LinksTo(K, x) = LinksTo(H, x) \ M
      BY <1>6, <1>9, <3>1
    <3>4. QED
      BY <3>2, <3>3 DEF m
  <2>2. Own(H, x, h) = 0 /\ Own(K, x, Nil) = 1
    BY <1>1, <1>5, <1>8, <1>9 DEF Own
  <2>3. Y[x] = X[x] + m - 1
    BY <1>2, <1>9
  <2>4. K[x].ref = Y[x] + Cardinality(LinksTo(K, x)) + Cardinality(ResultFor(K, x)) + Own(K, x, Nil)
    <3>1. H[x].ref = X[x] + Cardinality(LinksTo(H, x)) + Cardinality(ResultFor(H, x)) + 0
      BY <1>5, <2>2 DEF CountOK
    <3>2. QED
      BY <1>2, <1>3, <1>5, <1>7, <2>1, <2>2, <2>3, <3>1
  <2>5. QED
    BY <1>5, <2>4 DEF CountOK, Y
<1>10. CASE x = b
  <2>1. Cardinality(LinksTo(K, x)) = Cardinality(LinksTo(H, x)) + m + 1
    <3>1. IsFiniteSet(M \cup {<<h, 1>>}) /\ Cardinality(M \cup {<<h, 1>>}) = m + 1
      <4>1. <<h, 1>> \notin M
        BY <1>6
      <4>2. QED
        BY <1>2, <4>1, FS_AddElement DEF m
    <3>2. LinksTo(H, x) \cap (M \cup {<<h, 1>>}) = {}
      BY <1>6, <1>10
    <3>3. Cardinality(LinksTo(H, x) \cup (M \cup {<<h, 1>>}))
            = Cardinality(LinksTo(H, x)) + Cardinality(M \cup {<<h, 1>>}) - Cardinality({})
      BY <1>7, <3>1, <3>2, FS_Union
    <3>4. LinksTo(K, x) = LinksTo(H, x) \cup (M \cup {<<h, 1>>})
      BY <1>6, <1>10
    <3>5. Cardinality({}) = 0
      BY FS_EmptySet
    <3>6. QED
      BY <1>2, <1>7, <3>1, <3>3, <3>4, <3>5
  <2>2. Own(H, x, h) = Own(K, x, Nil) /\ Own(H, x, h) \in Nat
    BY <1>1, <1>5, <1>8, <1>10 DEF Own
  <2>3. Y[x] = X[x] - m - 1
    BY <1>2, <1>10
  <2>4. K[x].ref = Y[x] + Cardinality(LinksTo(K, x)) + Cardinality(ResultFor(K, x)) + Own(K, x, Nil)
    <3>1. H[x].ref = X[x] + Cardinality(LinksTo(H, x)) + Cardinality(ResultFor(H, x)) + Own(H, x, h)
      BY <1>5 DEF CountOK
    <3>2. QED
      BY <1>2, <1>3, <1>5, <1>7, <2>1, <2>2, <2>3, <3>1
  <2>5. QED
    BY <1>5, <2>4 DEF CountOK, Y
<1>11. CASE x \notin {h, b}
  <2>1. LinksTo(K, x) = LinksTo(H, x) /\ Y[x] = X[x]
    BY <1>2, <1>6, <1>11
  <2>2. Own(H, x, h) = Own(K, x, Nil)
    BY <1>5, <1>8, <1>11 DEF Own
  <2>3. QED
    BY <1>5, <2>1, <2>2 DEF CountOK, Y
<1>12. QED
  BY <1>9, <1>10, <1>11 DEF Y

\* Turning h into a proxy keeps the heap whole, but for these references.
LEMMA ProxifyOK ==
  ASSUME NEW H, NEW X \in Tallies, NEW h, NEW b, Standing(H, X, h, b), NEW K \in Heaps, Proxify(H, K, h, b)
  PROVE  HeapOK(K, ProxifyTally(H, X, h, b), Nil)
<1>1. HeapOK(H, X, h) /\ h \in Headers \ {Always} /\ Unready(H, h) /\ b \in Headers \ {h} /\ H \in Heaps /\ ~ Ready(H, b)
  BY HeapHeader DEF Standing
<1>2. H[Always] = ResultHeader(Always, -1) /\ Always \in Headers
  BY <1>1, Constants DEF HeapOK
<1>3. K[Always] = H[Always]
  <2>1. IsResult(H, Always) /\ ~ Unready(H, Always)
    BY <1>1, <1>2, HeapHeader, KindFacts
  <2>2. Always # b /\ <<Always, 1>> \notin Movers(H, h)
    <3>1. Always # b
      BY <1>1, <2>1 DEF IsResult
    <3>2. ASSUME <<Always, 1>> \in Movers(H, h) PROVE FALSE
      <4>1. Unready(H, <<Always, 1>>[1])
        BY <1>1, <3>2, MoverFacts
      <4>2. QED
        BY <2>1, <4>1
    <3>3. QED
      BY <3>1, <3>2
  <2>3. K[Always] \in HeaderType /\ H[Always] \in HeaderType
    BY <1>1, <1>2 DEF Heaps
  <2>4. /\ K[Always].kind = H[Always].kind /\ K[Always].ref = H[Always].ref /\ K[Always].countdown = H[Always].countdown
        /\ K[Always].result = H[Always].result /\ K[Always].body = H[Always].body /\ K[Always].status = H[Always].status
        /\ K[Always].deps = H[Always].deps /\ K[Always].sucs = H[Always].sucs
    BY <1>1, <1>2, <2>2 DEF Proxify
  <2>5. QED
    BY <2>3, <2>4, SameFields
<1>4. \A x \in Headers : HeaderOK(K, x, Nil)
  BY ProxifyHeader
<1>5. \A x \in Headers \ {Always} : CountOK(K, ProxifyTally(H, X, h, b), Nil, x)
  BY ProxifyCount
<1>9. Relinked(H, K, h, b)
  BY ProxifyLinks
<1>6. ASSUME NEW x \in Headers
      PROVE  SuccessorsOK(K, x)
  <2>1. SuccessorsOK(H, x) /\ (Ready(K, x) <=> Ready(H, x))
    BY <1>1, HeapHeader, ProxifyShape
  <2>2. CASE x = h
    <3>1. ~ Ready(K, x) /\ OpenTo(K, x) = OpenTo(H, h) \ Movers(H, h)
      BY <1>1, <2>1, <2>2, <1>9 DEF Unready, Relinked
    <3>2. Lists!IsInjective(K[x].sucs) /\ Lists!ToSet(K[x].sucs) = OpenTo(H, h) \ Movers(H, h)
      BY <2>2 DEF Proxify
    <3>3. QED
      BY <3>1, <3>2 DEF SuccessorsOK
  <2>3. CASE x = b
    <3>1. ~ Ready(K, x) /\ OpenTo(K, x) = {<<h, 1>>} \cup Movers(H, h) \cup OpenTo(H, b)
      BY <1>1, <2>1, <2>3, <1>9 DEF Relinked
    <3>2. Lists!IsInjective(K[x].sucs) /\ Lists!ToSet(K[x].sucs) = {<<h, 1>>} \cup Movers(H, h) \cup OpenTo(H, b)
      BY <2>3 DEF Proxify
    <3>3. QED
      BY <3>1, <3>2 DEF SuccessorsOK
  <2>4. CASE x \notin {h, b}
    <3>1. OpenTo(K, x) = OpenTo(H, x)
      BY <2>4, <1>9 DEF Relinked
    <3>2. K[x].sucs = H[x].sucs
      BY <2>4 DEF Proxify
    <3>3. QED
      BY <2>1, <3>1, <3>2 DEF SuccessorsOK
  <2>5. QED
    BY <2>2, <2>3, <2>4
<1>7. K \in [Headers -> HeaderType]
  BY DEF Heaps
<1>8. QED
  BY <1>2, <1>3, <1>4, <1>5, <1>6, <1>7 DEF HeapOK

\* The places of the successors of h that stay with it.
Stay(H, h) ==
  {i \in DOMAIN H[h].sucs : \A j \in DOMAIN Bypass(H, h) : Bypass(H, h)[j] # H[h].sucs[i]}

\* The split of the successor list of h: the links of its proxies, and the rest.
LEMMA BypassFacts ==
  ASSUME NEW H, NEW X, NEW z, HeapOK(H, X, z), NEW h \in Headers
  PROVE  LET mv == Bypass(H, h)
             st == PickAt(H[h].sucs, Stay(H, h))
         IN  /\ mv \in Seq(Pairs) /\ Lists!IsInjective(mv) /\ Lists!ToSet(mv) = Movers(H, h)
             /\ Len(mv) = Cardinality(Movers(H, h)) /\ Len(mv) \in Nat
             /\ st \in Seq(Pairs) /\ Lists!IsInjective(st) /\ Lists!ToSet(st) = OpenTo(H, h) \ Movers(H, h)
             /\ \A d \in Headers : (\E i \in DOMAIN mv : mv[i][1] = d) <=> <<d, 1>> \in Movers(H, h)
<1> DEFINE s == H[h].sucs
           W == {i \in DOMAIN s : H[s[i][1]].status = StatusProxying}
           S == Stay(H, h)
           mv == Bypass(H, h)
           st == PickAt(s, S)
<1>1. H \in Heaps /\ SuccessorsOK(H, h)
  BY HeapHeader
<1>2. s \in Seq(Pairs) /\ Lists!IsInjective(s) /\ Lists!ToSet(s) = OpenTo(H, h)
  BY <1>1, FieldTypes DEF SuccessorsOK
<1>3. mv = PickAt(s, W)
  BY Zenon DEF Bypass
<1>4. W \in SUBSET DOMAIN s /\ S \in SUBSET DOMAIN s
  BY DEF Stay
<1>5. {s[i] : i \in W} = Movers(H, h)
  BY <1>2 DEF Movers, Lists!ToSet
<1>5a. S = {i \in DOMAIN s : \A j \in DOMAIN mv : mv[j] # s[i]}
  BY Zenon DEF Stay
<1> HIDE DEF W, mv, S, s
<1>6. mv \in Seq(Pairs) /\ Lists!IsInjective(mv) /\ Lists!ToSet(mv) = Movers(H, h)
  <2>1. PickAt(s, W) \in Seq(Pairs) /\ Lists!IsInjective(PickAt(s, W)) /\ Lists!ToSet(PickAt(s, W)) = {s[i] : i \in W}
    BY <1>2, <1>4, PickInjective
  <2>2. QED
    BY <1>3, <1>5, <2>1
<1>7. Len(mv) = Cardinality(Movers(H, h)) /\ Len(mv) \in Nat
  <2>1. Cardinality(Lists!ToSet(mv)) = Len(mv)
    BY <1>6, SeqCount
  <2>2. QED
    BY <1>6, <2>1, LenProperties
<1>8. {s[i] : i \in S} = OpenTo(H, h) \ Movers(H, h)
  <2>1. \A i \in DOMAIN s : i \in S <=> s[i] \notin Movers(H, h)
    BY <1>5a, <1>6 DEF Lists!ToSet
  <2>2. \A l : l \in OpenTo(H, h) <=> \E i \in DOMAIN s : s[i] = l
    BY <1>2 DEF Lists!ToSet
  <2>3. QED
    BY <1>4, <2>1, <2>2
<1>9. st \in Seq(Pairs) /\ Lists!IsInjective(st) /\ Lists!ToSet(st) = OpenTo(H, h) \ Movers(H, h)
  <2>1. Lists!ToSet(st) = {s[i] : i \in S} /\ st \in Seq(Pairs) /\ Lists!IsInjective(st)
    BY <1>2, <1>4, PickInjective
  <2> HIDE DEF st
  <2>2. QED
    BY <1>8, <2>1
<1>10. ASSUME NEW d \in Headers
       PROVE  (\E i \in DOMAIN mv : mv[i][1] = d) <=> <<d, 1>> \in Movers(H, h)
  <2>1. \A l \in Movers(H, h) : l = <<l[1], 1>>
    BY MoverFacts
  <2>2. \A l : l \in Movers(H, h) <=> \E i \in DOMAIN mv : mv[i] = l
    BY <1>6 DEF Lists!ToSet
  <2>3. QED
    BY <2>1, <2>2
<1>11. QED
  BY <1>6, <1>7, <1>9, <1>10 DEF mv, st, s, S

\* Assigning deps of a header changes nothing else.
LEMMA SetOne ==
  ASSUME NEW a \in HeaderType, NEW e \in DepLists, NEW b, b = [a EXCEPT !.deps = e]
  PROVE  /\ b.kind = a.kind /\ b.ref = a.ref /\ b.status = a.status /\ b.sucs = a.sucs /\ b.result = a.result
         /\ b.body = a.body /\ b.deps = e /\ b.countdown = a.countdown /\ b \in HeaderType
BY DEF HeaderType, DepLists

\* The heap of ProxyOnto before references are handed over: its definition, in steps.
Redirect(H, h, e) ==
  [d \in Headers |-> IF \E i \in DOMAIN Bypass(H, h) : Bypass(H, h)[i][1] = d
                     THEN [H[d] EXCEPT !.deps = e] ELSE H[d]]
Onto(G, h, b, e, S, mv) ==
  [G EXCEPT ![h].status = StatusProxying, ![h].body = "proxy", ![h].deps = e, ![h].sucs = PickAt(@, S),
            ![b].sucs = << <<h, 1>> >> \o Lists!Reverse(mv) \o @]

\* ProxyOnto moves the proxies of h, makes h a proxy and pays the references.
LEMMA ProxyOntoParts ==
  ASSUME NEW H, NEW h, NEW b
  PROVE  LET e == <<[dep |-> b, linked |-> TRUE]>>
             K == Onto(Redirect(H, h, e), h, b, e, Stay(H, h), Bypass(H, h))
         IN  ProxyOnto(H, h, b) = AddRef(AddRef(K, b, Len(Bypass(H, h))), h, - Len(Bypass(H, h)))
BY Zenon DEF ProxyOnto, Onto, Redirect, Stay

\* Moving the proxies of h changes their dependency and nothing else.
LEMMA RedirectFields ==
  ASSUME NEW H, NEW X, NEW z, HeapOK(H, X, z), NEW h \in Headers, NEW e \in DepLists
  PROVE  LET G == Redirect(H, h, e)
         IN  /\ G \in Heaps
             /\ \A d \in Headers :
                  /\ G[d].kind = H[d].kind /\ G[d].ref = H[d].ref /\ G[d].countdown = H[d].countdown
                  /\ G[d].result = H[d].result /\ G[d].body = H[d].body /\ G[d].status = H[d].status
                  /\ G[d].sucs = H[d].sucs
                  /\ G[d].deps = IF <<d, 1>> \in Movers(H, h) THEN e ELSE H[d].deps
<1> DEFINE G == Redirect(H, h, e)
<1>1. H \in Heaps
  BY HeapHeader
<1>2. ASSUME NEW d \in Headers
      PROVE  G[d] = IF <<d, 1>> \in Movers(H, h) THEN [H[d] EXCEPT !.deps = e] ELSE H[d]
  <2>1. (\E i \in DOMAIN Bypass(H, h) : Bypass(H, h)[i][1] = d) <=> <<d, 1>> \in Movers(H, h)
    BY BypassFacts
  <2>2. QED
    BY <2>1 DEF Redirect
<1>3. G = [x \in Headers |-> G[x]]
  BY DEF Redirect
<1> HIDE DEF G
<1>4. ASSUME NEW d \in Headers
      PROVE  /\ G[d].kind = H[d].kind /\ G[d].ref = H[d].ref /\ G[d].countdown = H[d].countdown
             /\ G[d].result = H[d].result /\ G[d].body = H[d].body /\ G[d].status = H[d].status
             /\ G[d].sucs = H[d].sucs /\ G[d] \in HeaderType
             /\ G[d].deps = IF <<d, 1>> \in Movers(H, h) THEN e ELSE H[d].deps
  <2> DEFINE a == H[d]
             g == G[d]
  <2>1. a \in HeaderType
    BY <1>1 DEF Heaps
  <2>2. CASE <<d, 1>> \in Movers(H, h)
    <3>1. g = [a EXCEPT !.deps = e]
      BY <1>2, <2>2
    <3> HIDE DEF a, g
    <3>2. /\ g.kind = a.kind /\ g.ref = a.ref /\ g.status = a.status /\ g.sucs = a.sucs /\ g.result = a.result
          /\ g.body = a.body /\ g.deps = e /\ g.countdown = a.countdown /\ g \in HeaderType
      BY <2>1, <3>1, SetOne
    <3>3. QED
      BY <2>2, <3>2 DEF a, g
  <2>3. CASE <<d, 1>> \notin Movers(H, h)
    BY <1>2, <2>1, <2>3
  <2>4. QED
    BY <2>2, <2>3
<1>5. G \in Heaps
  BY <1>3, <1>4 DEF Heaps
<1>6. QED
  BY <1>4, <1>5 DEF G

\* The heap in which h is a proxy of b.
LEMMA OntoFields ==
  ASSUME NEW H, NEW X, NEW h, NEW b, Standing(H, X, h, b)
  PROVE  LET e == <<[dep |-> b, linked |-> TRUE]>>
             K == Onto(Redirect(H, h, e), h, b, e, Stay(H, h), Bypass(H, h))
         IN  K \in Heaps /\ Proxify(H, K, h, b)
<1> DEFINE t == [dep |-> b, linked |-> TRUE]
           e == <<t>>
           mv == Bypass(H, h)
           st == PickAt(H[h].sucs, Stay(H, h))
           rv == Lists!Reverse(mv)
           on == << <<h, 1>> >> \o rv
           q == on \o H[b].sucs
           G == Redirect(H, h, e)
           K1 == [G EXCEPT ![h].status = StatusProxying]
           K2 == [K1 EXCEPT ![h].body = "proxy"]
           K3 == [K2 EXCEPT ![h].deps = e]
           K4 == [K3 EXCEPT ![h].sucs = st]
           K5 == [K4 EXCEPT ![b].sucs = q]
<1>1. HeapOK(H, X, h) /\ h \in Headers /\ b \in Headers \ {h} /\ H \in Heaps /\ Unready(H, h)
  BY HeapHeader DEF Standing
<1>2. /\ mv \in Seq(Pairs) /\ Lists!IsInjective(mv) /\ Lists!ToSet(mv) = Movers(H, h)
      /\ st \in Seq(Pairs) /\ Lists!IsInjective(st) /\ Lists!ToSet(st) = OpenTo(H, h) \ Movers(H, h)
  BY <1>1, BypassFacts
<1>3. rv \in Seq(Pairs) /\ Lists!IsInjective(rv) /\ Lists!ToSet(rv) = Movers(H, h)
  <2> HIDE DEF mv
  <2>1. Lists!Reverse(mv) \in Seq(Pairs) /\ Lists!IsInjective(Lists!Reverse(mv)) /\ Lists!ToSet(Lists!Reverse(mv)) = Lists!ToSet(mv)
    BY <1>2, ReverseFacts
  <2>2. QED
    BY <1>2, <2>1
<1> HIDE DEF mv, st, rv
<1>4. e \in DepLists
  <2>1. t \in [dep : Headers, linked : BOOLEAN]
    BY <1>1
  <2> HIDE DEF t
  <2>2. QED
    BY <2>1, SingletonSeq DEF DepLists
<1>5. <<h, 1>> \in Pairs
  BY <1>1, Constants DEF Pairs
<1>6. <<h, 1>> \notin Movers(H, h) /\ <<h, 1>> \notin OpenTo(H, b) /\ Movers(H, h) \cap OpenTo(H, b) = {}
  <2>1. \A l \in Links(H) : l[1] # h
    BY <1>1, LinkFacts
  <2>2. \A l \in Movers(H, h) : l \in Links(H) /\ LinkAt(H, l).dep = h
    BY DEF Movers, OpenTo, LinksTo
  <2>3. \A l \in OpenTo(H, b) : l \in Links(H) /\ LinkAt(H, l).dep = b
    BY DEF OpenTo, LinksTo
  <2>4. QED
    BY <1>1, <2>1, <2>2, <2>3
<1>7. H[b].sucs \in Seq(Pairs) /\ Lists!IsInjective(H[b].sucs) /\ Lists!ToSet(H[b].sucs) = OpenTo(H, b)
  BY <1>1, HeapHeader, FieldTypes DEF SuccessorsOK
<1>8. on \in Seq(Pairs) /\ Lists!IsInjective(on) /\ Lists!ToSet(on) = {<<h, 1>>} \cup Movers(H, h)
  <2> DEFINE f == <<h, 1>>
             o == <<f>>
  <2>1. f \in Pairs /\ {f} \cap Lists!ToSet(rv) = {}
    BY <1>3, <1>5, <1>6
  <2> HIDE DEF f
  <2>2. o \in Seq(Pairs) /\ Lists!ToSet(o) = {f} /\ Lists!IsInjective(o)
    BY <2>1, SingletonSeq
  <2> HIDE DEF o
  <2>3. o \o rv \in Seq(Pairs) /\ Lists!ToSet(o \o rv) = Lists!ToSet(o) \cup Lists!ToSet(rv)
        /\ Lists!IsInjective(o \o rv)
    BY <1>3, <2>1, <2>2, ConcatFacts
  <2>4. QED
    BY <1>3, <2>2, <2>3 DEF f, o
<1> HIDE DEF on
<1>9. q \in Seq(Pairs) /\ Lists!IsInjective(q) /\ Lists!ToSet(q) = {<<h, 1>>} \cup Movers(H, h) \cup OpenTo(H, b)
  <2> DEFINE w == H[b].sucs
  <2>1. w \in Seq(Pairs) /\ Lists!IsInjective(w) /\ Lists!ToSet(w) = OpenTo(H, b) /\ Lists!ToSet(on) \cap Lists!ToSet(w) = {}
    BY <1>6, <1>7, <1>8
  <2> HIDE DEF w
  <2>2. on \o w \in Seq(Pairs) /\ Lists!ToSet(on \o w) = Lists!ToSet(on) \cup Lists!ToSet(w) /\ Lists!IsInjective(on \o w)
    BY <1>8, <2>1, ConcatFacts
  <2>3. QED
    BY <1>8, <2>1, <2>2 DEF w
<1> HIDE DEF e
<1>10. /\ G \in Heaps
       /\ \A d \in Headers :
            /\ G[d].kind = H[d].kind /\ G[d].ref = H[d].ref /\ G[d].countdown = H[d].countdown
            /\ G[d].result = H[d].result /\ G[d].body = H[d].body /\ G[d].status = H[d].status
            /\ G[d].sucs = H[d].sucs
            /\ G[d].deps = IF <<d, 1>> \in Movers(H, h) THEN e ELSE H[d].deps
  BY <1>1, <1>4, RedirectFields
<1> HIDE DEF G
<1>11. /\ K1 \in Heaps /\ (\A y \in Headers \ {h} : K1[y] = G[y]) /\ K1[h].status = StatusProxying
       /\ K1[h].kind = G[h].kind /\ K1[h].ref = G[h].ref /\ K1[h].result = G[h].result
       /\ K1[h].sucs = G[h].sucs /\ K1[h].countdown = G[h].countdown
  <2> DEFINE v == StatusProxying
             L == [G EXCEPT ![h].status = v]
  <2>1. v \in -3 .. MaxArgs
    BY Constants DEF StatusProxying
  <2> HIDE DEF v
  <2>2. /\ L \in Heaps /\ (\A y \in Headers \ {h} : L[y] = G[y]) /\ L[h].status = v
        /\ L[h].kind = G[h].kind /\ L[h].ref = G[h].ref /\ L[h].deps = G[h].deps /\ L[h].result = G[h].result
        /\ L[h].body = G[h].body /\ L[h].sucs = G[h].sucs /\ L[h].countdown = G[h].countdown
    BY <1>1, <1>10, <2>1, SetStatus
  <2>3. QED
    BY <2>2 DEF v
<1> HIDE DEF K1
<1>12. /\ K2 \in Heaps /\ (\A y \in Headers \ {h} : K2[y] = K1[y]) /\ K2[h].status = K1[h].status
       /\ K2[h].kind = K1[h].kind /\ K2[h].ref = K1[h].ref /\ K2[h].result = K1[h].result
       /\ K2[h].sucs = K1[h].sucs /\ K2[h].countdown = K1[h].countdown /\ K2[h].body = "proxy"
  <2> DEFINE v == "proxy"
             L == [K1 EXCEPT ![h].body = v]
  <2>1. v \in Bodies
    BY DEF Bodies
  <2> HIDE DEF v
  <2>2. /\ L \in Heaps /\ (\A y \in Headers \ {h} : L[y] = K1[y]) /\ L[h].body = v
        /\ L[h].kind = K1[h].kind /\ L[h].ref = K1[h].ref /\ L[h].deps = K1[h].deps /\ L[h].result = K1[h].result
        /\ L[h].status = K1[h].status /\ L[h].sucs = K1[h].sucs /\ L[h].countdown = K1[h].countdown
    BY <1>1, <1>11, <2>1, SetBody
  <2>3. QED
    BY <2>2 DEF v
<1> HIDE DEF K2
<1>13. /\ K3 \in Heaps /\ (\A y \in Headers \ {h} : K3[y] = K2[y]) /\ K3[h].deps = e
       /\ K3[h].kind = K2[h].kind /\ K3[h].ref = K2[h].ref /\ K3[h].status = K2[h].status
       /\ K3[h].result = K2[h].result /\ K3[h].body = K2[h].body /\ K3[h].sucs = K2[h].sucs
       /\ K3[h].countdown = K2[h].countdown
  BY <1>1, <1>4, <1>12, SetDeps
<1> HIDE DEF K3
<1>14. /\ K4 \in Heaps /\ (\A y \in Headers \ {h} : K4[y] = K3[y]) /\ K4[h].sucs = st
       /\ K4[h].kind = K3[h].kind /\ K4[h].ref = K3[h].ref /\ K4[h].status = K3[h].status
       /\ K4[h].result = K3[h].result /\ K4[h].body = K3[h].body /\ K4[h].deps = K3[h].deps
       /\ K4[h].countdown = K3[h].countdown
  <2>1. K3 \in Heaps /\ h \in Headers /\ st \in Seq(Pairs)
    BY <1>1, <1>2, <1>13
  <2>2. QED
    BY <2>1, SetSucs
<1> HIDE DEF K4, q
<1>15. /\ K5 \in Heaps /\ (\A y \in Headers \ {b} : K5[y] = K4[y]) /\ K5[b].sucs = q
       /\ K5[b].kind = K4[b].kind /\ K5[b].ref = K4[b].ref /\ K5[b].status = K4[b].status
       /\ K5[b].result = K4[b].result /\ K5[b].body = K4[b].body /\ K5[b].deps = K4[b].deps
       /\ K5[b].countdown = K4[b].countdown
  BY <1>1, <1>9, <1>14, SetSucs
<1> HIDE DEF K5
<1>16. Onto(G, h, b, e, Stay(H, h), mv) = K5
  <2>1. G[h].sucs = H[h].sucs /\ G[b].sucs = H[b].sucs
    BY <1>1, <1>10
  <2>2. Onto(G, h, b, e, Stay(H, h), mv) =
          [[K3 EXCEPT ![h].sucs = PickAt(G[h].sucs, Stay(H, h))] EXCEPT ![b].sucs = on \o G[b].sucs]
    BY Zenon DEF Onto, K3, K2, K1, on, rv
  <2>3. [K3 EXCEPT ![h].sucs = PickAt(G[h].sucs, Stay(H, h))] = K4
    BY <2>1 DEF K4, st
  <2>4. [K4 EXCEPT ![b].sucs = on \o G[b].sucs] = K5
    BY <2>1 DEF K5, q
  <2>5. QED
    BY <2>2, <2>3, <2>4
<1>17. Proxify(H, K5, h, b)
  <2>1. h # b /\ K5[h] = K4[h] /\ h \in Headers
    BY <1>1, <1>15
  <2>2. /\ K5[h].kind = H[h].kind /\ K5[h].ref = H[h].ref /\ K5[h].countdown = H[h].countdown
        /\ K5[h].result = H[h].result
        /\ K5[h].status = StatusProxying /\ K5[h].body = "proxy" /\ K5[h].deps = e /\ K5[h].sucs = st
    BY <1>10, <1>11, <1>12, <1>13, <1>14, <2>1, ZenonT(60)
  <2>3. ASSUME NEW d \in Headers \ {h}
        PROVE  /\ K5[d].kind = H[d].kind /\ K5[d].ref = H[d].ref /\ K5[d].countdown = H[d].countdown
               /\ K5[d].result = H[d].result /\ K5[d].body = H[d].body /\ K5[d].status = H[d].status
               /\ K5[d].deps = IF <<d, 1>> \in Movers(H, h) THEN e ELSE H[d].deps
               /\ d # b => K5[d].sucs = H[d].sucs
    <3>1. K4[d] = G[d]
      BY <1>11, <1>12, <1>13, <1>14
    <3>2. /\ K5[d].kind = G[d].kind /\ K5[d].ref = G[d].ref /\ K5[d].countdown = G[d].countdown
          /\ K5[d].result = G[d].result /\ K5[d].body = G[d].body /\ K5[d].status = G[d].status
          /\ K5[d].deps = G[d].deps /\ (d # b => K5[d].sucs = G[d].sucs)
      BY <1>15, <3>1
    <3>3. QED
      BY <1>10, <3>2
  <2>4. QED
    BY <1>2, <1>9, <1>15, <2>2, <2>3 DEF Proxify, e, t
<1>18. QED
  BY <1>15, <1>16, <1>17 DEF G, e, t, mv

\* A step that keeps the dependents, before one that moves h.
LEMMA KeepsMoves ==
  ASSUME NEW H, NEW K, NEW L, NEW h \in Headers, Keeps(H, K), Moves(K, L, h)
  PROVE  Moves(H, L, h)
<1>1. Due(K) = Due(H) /\ \A x \in Headers : Unready(K, x) <=> Unready(H, x)
  BY KeepsFacts
<1>2. IsFree(L) = IsFree(H)
  BY DEF Keeps, Moves
<1>3. ASSUME NEW x \in Headers \ {h}
      PROVE  /\ Unready(L, x) <=> Unready(H, x)
             /\ Unready(H, x) => L[x].body = H[x].body
             /\ x \in Due(H) => x \in Due(L) /\ L[x].status = H[x].status
  <2>1. /\ Unready(L, x) <=> Unready(K, x)
        /\ Unready(K, x) => L[x].body = K[x].body
        /\ x \in Due(K) => x \in Due(L) /\ L[x].status = K[x].status
    BY DEF Moves
  <2>2. Unready(H, x) => K[x].body = H[x].body /\ K[x].status = H[x].status
    BY DEF Keeps, Alike
  <2>3. x \in Due(H) => Unready(H, x)
    BY DEF Due
  <2>4. QED
    BY <1>1, <2>1, <2>2, <2>3
<1>4. QED
  BY <1>2, <1>3 DEF Moves

\* A body that is destroyed already.
LEMMA ClearedSame ==
  ASSUME NEW H \in Heaps, NEW h \in Headers, Bodiless(H, h)
  PROVE  Cleared(H, h) = H
<1> DEFINE C == Cleared(H, h)
<1>1. /\ C \in Heaps
      /\ \A x \in Headers \ {h} : C[x] = H[x]
      /\ C[h].body = "none" /\ C[h].deps = <<>>
      /\ C[h].kind = H[h].kind /\ C[h].ref = H[h].ref
      /\ C[h].status = H[h].status /\ C[h].sucs = H[h].sucs
      /\ C[h].result = H[h].result /\ C[h].countdown = H[h].countdown
  BY ClearedFields
<1> HIDE DEF C
<1>2. C[h] \in HeaderType /\ H[h] \in HeaderType
  BY <1>1 DEF Heaps
<1>3. C[h] = H[h]
  BY <1>1, <1>2, SameFields DEF Bodiless
<1>4. \A x \in Headers : C[x] = H[x]
  BY <1>1, <1>3
<1>5. C \in [Headers -> HeaderType] /\ H \in [Headers -> HeaderType]
  BY <1>1 DEF Heaps
<1>6. C = H
  BY <1>4, <1>5
<1>7. QED
  BY <1>6 DEF C

\* h proxies b: the references that h and its proxies had are where they belong.
LEMMA ProxyOntoOK ==
  ASSUME NEW H, NEW X \in Tallies, NEW h, NEW b, Standing(H, X, h, b), X[h] >= 1
  PROVE  LET P == ProxyOnto(H, h, b)
             Y == Give(Give(X, h, -1), b, -1)
         IN  /\ HeapOK(P, Y, Nil) /\ Y \in Tallies /\ Due(P) = Due(H) \ {h}
             /\ Moves(H, P, h) /\ Unready(P, h) /\ h \notin Alls(P)
<1> DEFINE e == <<[dep |-> b, linked |-> TRUE]>>
           K == Onto(Redirect(H, h, e), h, b, e, Stay(H, h), Bypass(H, h))
           m == Len(Bypass(H, h))
           T == ProxifyTally(H, X, h, b)
           K1 == AddRef(K, b, m)
           T1 == Give(T, b, m)
           P == AddRef(K1, h, - m)
           T2 == Give(T1, h, - m)
           Z == Give(X, h, -1)
           Y == Give(Z, b, -1)
<1>0. HeapOK(H, X, h) /\ h \in Headers \ {Always} /\ Unready(H, h) /\ b \in Headers \ {h} /\ Allocated(H, b) /\ H \in Heaps
  BY HeapHeader DEF Standing
<1>1. ProxyOnto(H, h, b) = P
  BY ProxyOntoParts
<1>2. K \in Heaps /\ Proxify(H, K, h, b)
  BY OntoFields
<1> HIDE DEF K
<1>3. HeapOK(K, T, Nil)
  BY <1>2, ProxifyOK
<1>4. m = Cardinality(Movers(H, h)) /\ m \in Nat
  BY <1>0, BypassFacts
<1>5. T \in Tallies /\ T[h] = X[h] + m - 1 /\ T[b] = X[b] - m - 1 /\ \A x \in Headers \ {h, b} : T[x] = X[x]
  <2>1. LET k == Cardinality(Movers(H, h))
        IN  T \in Tallies /\ T[h] = X[h] + k - 1 /\ T[b] = X[b] - k - 1 /\ \A x \in Headers \ {h, b} : T[x] = X[x]
    BY ProxifyTallyFacts
  <2> HIDE DEF m, T
  <2>2. QED
    BY <1>4, <2>1
<1> HIDE DEF m, T
<1>6. /\ \A x \in Headers : Unready(K, x) <=> Unready(H, x)
      /\ Allocated(K, b) /\ Allocated(K, h) /\ K[h].ref = H[h].ref
  <2>1. \A x \in Headers : (Unready(K, x) <=> Unready(H, x)) /\ (Allocated(K, x) <=> Allocated(H, x)) /\ K[x].ref = H[x].ref
    BY <1>2, ProxifyShape
  <2>2. Allocated(H, h)
    BY <1>0, KindFacts
  <2>3. QED
    BY <1>0, <2>1, <2>2
<1>7. HeapOK(K1, T1, Nil) /\ Keeps(K, K1) /\ K1[h] = K[h]
  <2>1. b # Always => K[b].ref > 0 /\ K[b].ref \in Nat
    BY <1>0, <1>3, <1>6, KindFacts
  <2>2. b # Always => K[b].ref + m > 0
    BY <1>4, <2>1
  <2>3. m \in Int
    BY <1>4
  <2>4. QED
    BY <1>0, <1>3, <1>5, <1>6, <2>2, <2>3, AddRefOK
<1>8. T1 \in Tallies /\ T1[b] = T[b] + m /\ \A x \in Headers \ {b} : T1[x] = T[x]
  <2>1. m \in Int /\ T \in Tallies /\ b \in Headers
    BY <1>0, <1>4, <1>5
  <2>2. QED
    BY <2>1, GiveFacts
<1> HIDE DEF K1, T1
<1>9. H[h].ref >= 1 + m /\ H[h].ref \in Nat
  <2>1. CountOK(H, X, h, h) /\ X[h] \in Int
    BY <1>0, HeapHeader DEF Tallies
  <2>2. Cardinality(LinksTo(H, h)) \in Nat /\ Cardinality(ResultFor(H, h)) \in Nat /\ IsFiniteSet(LinksTo(H, h))
    BY FiniteCounts
  <2>3. m <= Cardinality(LinksTo(H, h))
    <3>1. Movers(H, h) \subseteq LinksTo(H, h)
      BY DEF Movers, OpenTo
    <3>2. QED
      BY <1>4, <2>2, <3>1, FS_Subset
  <2>4. Own(H, h, h) = 0
    BY DEF Own
  <2>5. H[h].ref = X[h] + Cardinality(LinksTo(H, h)) + Cardinality(ResultFor(H, h)) + 0 /\ H[h].ref \in Nat
    BY <2>1, <2>4 DEF CountOK
  <2>6. QED
    BY <1>4, <2>1, <2>2, <2>3, <2>5
<1>10. HeapOK(P, T2, Nil) /\ Keeps(K1, P)
  <2>1. h # Always => K1[h].ref + (- m) > 0
    BY <1>4, <1>6, <1>7, <1>9
  <2>2. - m \in Int
    BY <1>4
  <2>3. Allocated(K1, h)
    BY <1>6, <1>7 DEF Allocated
  <2>4. QED
    BY <1>0, <1>7, <1>8, <2>1, <2>2, <2>3, AddRefOK
<1>11. Y \in Tallies /\ \A x \in Headers : Y[x] = T2[x]
  <2>1. -1 \in Int /\ - m \in Int
    BY <1>4
  <2>2. Z \in Tallies /\ Z[h] = X[h] + (-1) /\ \A x \in Headers \ {h} : Z[x] = X[x]
    BY <1>0, <2>1, GiveFacts
  <2> HIDE DEF Z
  <2>3. Y \in Tallies /\ Y[b] = Z[b] + (-1) /\ \A x \in Headers \ {b} : Y[x] = Z[x]
    BY <1>0, <2>1, <2>2, GiveFacts
  <2> HIDE DEF Y
  <2>4. T2[h] = T1[h] + (- m) /\ \A x \in Headers \ {h} : T2[x] = T1[x]
    BY <1>0, <1>8, <2>1, GiveFacts
  <2> HIDE DEF T2
  <2>5. \A x \in Headers : X[x] \in Int
    BY DEF Tallies
  <2>6. T2[h] = Y[h]
    BY <1>0, <1>4, <1>5, <1>8, <2>2, <2>3, <2>4, <2>5
  <2>7. T2[b] = Y[b]
    BY <1>0, <1>4, <1>5, <1>8, <2>2, <2>3, <2>4, <2>5
  <2>8. \A x \in Headers \ {h, b} : T2[x] = Y[x]
    BY <1>0, <1>5, <1>8, <2>2, <2>3, <2>4
  <2>9. QED
    BY <2>3, <2>6, <2>7, <2>8
<1>12. HeapOK(P, Y, Nil)
  <2> HIDE DEF P, Y, T2
  <2>1. QED
    BY <1>10, <1>11, HeapTally
<1>13. Keeps(K, P)
  BY <1>7, <1>10, KeepsFacts
<1> HIDE DEF P, Y
<1>14. Due(P) = Due(K) /\ \A x \in Headers : Unready(P, x) <=> Unready(K, x)
  BY <1>13, KeepsFacts
<1>15. \A x \in Headers \ {h} : K[x].status = H[x].status /\ K[x].body = H[x].body /\ K[x].kind = H[x].kind
  BY <1>2 DEF Proxify
<1>16. IsFree(K) = IsFree(H)
  <2>1. K[h].kind = H[h].kind
    BY <1>2 DEF Proxify
  <2>2. QED
    BY <1>15, <2>1 DEF IsFree
<1>17. Due(K) = Due(H) \ {h}
  <2>1. K[h].status = StatusProxying
    BY <1>2 DEF Proxify
  <2>2. h \notin Due(K)
    BY <2>1 DEF Due, StatusProxying, StatusActive, StatusProxyingActive
  <2>3. QED
    BY <1>6, <1>15, <2>2 DEF Due
<1>18. Moves(K, P, h)
  <2>1. Moves(K, K, h)
    BY DEF Moves
  <2>2. IsFree(P) = IsFree(K)
    BY <1>13 DEF Keeps
  <2>3. \A x \in Headers : Unready(K, x) => P[x].body = K[x].body /\ P[x].status = K[x].status
    BY <1>13 DEF Keeps, Alike
  <2>4. \A x \in Due(K) : Unready(K, x)
    BY DEF Due
  <2>5. QED
    BY <1>14, <2>2, <2>3, <2>4 DEF Moves
<1>19. Moves(H, P, h)
  BY <1>6, <1>14, <1>15, <1>16, <1>17, <1>18 DEF Moves, Due
<1>21. h \notin Alls(P)
  <2>1. K[h].body = "proxy"
    BY <1>2 DEF Proxify
  <2>2. P[h].body = K[h].body
    BY <1>0, <1>6, <1>13 DEF Keeps, Alike
  <2>3. QED
    BY <2>1, <2>2 DEF Alls
<1>20. QED
  BY <1>1, <1>0, <1>21, <1>6, <1>11, <1>12, <1>14, <1>17, <1>19 DEF Y, Z

-----------------------------------------------------------------------------
(* Entering the proxying state                                             *)

\* What the header that a callback returned stands for, and the reference to it.
Target(H, p)     == IF Proxying(H, p) THEN Proxied(H, p) ELSE p
TargetHeap(H, p) == IF Proxying(H, p) THEN DropForProxied(H, p) ELSE H

\* EnterProxying by the target of the proxy: its result at once, or a link to it.
LEMMA EnterProxyingParts ==
  ASSUME NEW H, NEW q, NEW h, NEW p
  PROVE  LET b == Target(H, p)
             J == TargetHeap(H, p)
         IN  EnterProxying(H, q, h, p) =
               IF Ready(J, b)
               THEN EnterReady(DropForResult(AddRef(J, h, -1), b), q, h, J[b].result)
               ELSE [heap |-> ProxyOnto(J, h, b), queue |-> q]
BY Zenon DEF EnterProxying, Target, TargetHeap

\* Following the proxy that a callback returned exchanges the reference to it for one to what it
\* proxies.
LEMMA TargetOK ==
  ASSUME NEW H, NEW X \in Tallies, NEW h \in Headers, HeapOK(H, X, h),
         NEW p \in Headers \ {h}, p # Always => X[p] >= 1, \A x \in Headers \ {Always} : X[x] >= 0,
         Target(H, p) # h
  PROVE  \E Y \in Tallies :
           /\ HeapOK(TargetHeap(H, p), Y, h) /\ Keeps(H, TargetHeap(H, p))
           /\ Target(H, p) \in Headers \ {h} /\ (Target(H, p) # Always => Y[Target(H, p)] >= 1)
           /\ ~ Proxying(TargetHeap(H, p), Target(H, p)) /\ Y[h] = X[h] /\ TargetHeap(H, p)[h].ref = H[h].ref
           /\ \A x \in Headers : Give(Y, Target(H, p), -1)[x] = Give(X, p, -1)[x]
<1>1. CASE ~ Proxying(H, p)
  <2>1. Target(H, p) = p /\ TargetHeap(H, p) = H
    BY <1>1 DEF Target, TargetHeap
  <2>2. QED
    BY <1>1, <2>1, KeepsSame
<1>2. CASE Proxying(H, p)
  <2> DEFINE b == Proxied(H, p)
             J == DropForProxied(H, p)
             Z == Give(X, p, -1)
             Y == Give(Z, b, 1)
  <2>1. Target(H, p) = b /\ TargetHeap(H, p) = J
    BY <1>2 DEF Target, TargetHeap
  <2>2. b \in Headers \ {p} /\ p \in Headers \ {Always} /\ ~ Proxying(H, b)
    BY <1>2, ProxiedFacts
  <2>3. b \in Headers \ {p, h} /\ p \in Headers /\ X[p] >= 1 /\ p # h
    BY <2>1, <2>2
  <2>4. Y \in Tallies /\ HeapOK(J, Y, h) /\ Keeps(H, J) /\ (\A x \in Headers : Alike(J[x], H[x])) /\ \A x \in Headers \ {p, b} : J[x] = H[x]
    BY <1>2, <2>3, DropForProxiedOK
  <2>5. -1 \in Int /\ 1 \in Int
    OBVIOUS
  <2>6. Z \in Tallies /\ Z[p] = X[p] + (-1) /\ \A x \in Headers \ {p} : Z[x] = X[x]
    BY <2>3, <2>5, GiveFacts
  <2> HIDE DEF b, J, Z
  <2>7. Y[b] = Z[b] + 1 /\ \A x \in Headers \ {b} : Y[x] = Z[x]
    BY <2>3, <2>5, <2>6, GiveFacts
  <2>8. \A x \in Headers : Give(Y, b, -1)[x] = Z[x]
    BY <2>3, GiveBack DEF Z
  <2> HIDE DEF Y
  <2>9. X[b] \in Int /\ (b # Always => X[b] >= 0)
    BY <2>3 DEF Tallies
  <2>10. b # Always => Y[b] >= 1
    BY <2>3, <2>6, <2>7, <2>9
  <2>11. Y[h] = X[h] /\ J[h] = H[h]
    BY <2>3, <2>4, <2>6, <2>7
  <2>12. ~ Proxying(J, b)
    BY <2>2, <2>3, <2>4 DEF Alike, Proxying, b
  <2>13. QED
    BY <2>1, <2>3, <2>4, <2>8, <2>10, <2>11, <2>12 DEF Z
<1>3. QED
  BY <1>1, <1>2

\* The way h leaves the active state: as a ready header or as a proxy.
Left(H, q, h, E, Y) ==
  /\ HeapOK(E.heap, Y, Nil)
  /\ E.queue \in Seq(Headers) /\ Lists!IsInjective(E.queue)
  /\ Lists!ToSet(E.queue) = Lists!ToSet(q) \cup (Due(E.heap) \ Due(H))
  /\ Moves(H, E.heap, h) /\ h \notin Due(E.heap) /\ h \notin Alls(E.heap)

\* A dependent whose body is destroyed becomes ready.
LEMMA EnterReadyLeft ==
  ASSUME NEW H, NEW X \in Tallies, NEW h \in Headers \ {Always}, HeapOK(H, X, h), Unready(H, h), X[h] >= 0,
         NEW r \in Headers, IsResult(H, r),
         NEW q \in Seq(Headers), Lists!IsInjective(q), Lists!ToSet(q) \subseteq Due(H)
  PROVE  Left(H, q, h, EnterReady(H, q, h, r), Give(X, r, -1))
<1> DEFINE E == EnterReady(H, q, h, r)
<1>1. H \in Heaps /\ Bodiless(H, h) /\ h \in Headers
  BY HeapHeader, KindFacts
<1>2. Cleared(H, h) = H
  BY <1>1, ClearedSame
<1>3. r # h
  BY KindFacts
<1>4. Readied(Cleared(H, h), X, h, h, r)
  BY <1>2, <1>3 DEF Readied
<1>5. Lists!ToSet(q) \subseteq Due(Cleared(H, h))
  BY <1>2
<1>6. LET C == Cleared(H, h)
      IN  /\ HeapOK(E.heap, Give(X, r, -1), Nil)
          /\ E.queue \in Seq(Headers) /\ Lists!IsInjective(E.queue)
          /\ Lists!ToSet(E.queue) = Lists!ToSet(q) \cup (Due(E.heap) \ Due(C))
          /\ Moves(C, E.heap, h) /\ ~ Unready(E.heap, h)
  BY <1>1, <1>3, <1>4, <1>5, EnterReadyOK
<1> HIDE DEF E
<1>7. h \notin Due(E.heap) /\ h \notin Alls(E.heap)
  <2>1. Bodiless(E.heap, h)
    BY <1>1, <1>6, KindFacts
  <2>2. QED
    BY <1>6, <2>1 DEF Due, Alls, Bodiless
<1>8. QED
  BY <1>2, <1>6, <1>7 DEF Left, E

\* Tallies that agree can be exchanged.
LEMMA LeftTally ==
  ASSUME NEW H, NEW q, NEW h, NEW E, NEW X, NEW Y, Left(H, q, h, E, X), \A x \in Headers \ {Always} : Y[x] = X[x]
  PROVE  Left(H, q, h, E, Y)
BY HeapTally DEF Left

\* A step that keeps the dependents, before h leaves its state.
LEMMA LeftKeeps ==
  ASSUME NEW H, NEW K, NEW q, NEW h \in Headers, NEW E, NEW Y, Keeps(H, K), Left(K, q, h, E, Y)
  PROVE  Left(H, q, h, E, Y)
<1>1. Due(K) = Due(H)
  BY KeepsFacts
<1>2. Moves(H, E.heap, h)
  BY KeepsMoves DEF Left
<1>3. QED
  BY <1>1, <1>2 DEF Left

\* Giving two references away, of which one was exchanged for another.
LEMMA GiveTwice ==
  ASSUME NEW X \in Tallies, NEW Z \in Tallies, NEW h \in Headers, NEW p \in Headers, NEW b \in Headers,
         \A x \in Headers : Give(Z, b, -1)[x] = Give(X, p, -1)[x]
  PROVE  \A x \in Headers : Give(Give(Z, h, -1), b, -1)[x] = Give(Give(X, h, -1), p, -1)[x]
<1>1. -1 \in Int
  OBVIOUS
<1> DEFINE Zb == Give(Z, b, -1)
           Xp == Give(X, p, -1)
           Zh == Give(Z, h, -1)
           Xh == Give(X, h, -1)
           A == Give(Zh, b, -1)
           B == Give(Xh, p, -1)
<1>2. Zb[b] = Z[b] + (-1) /\ (\A x \in Headers \ {b} : Zb[x] = Z[x]) /\ \A x \in Headers : Z[x] \in Int
  BY <1>1, GiveFacts
<1>3. Xp[p] = X[p] + (-1) /\ (\A x \in Headers \ {p} : Xp[x] = X[x]) /\ \A x \in Headers : X[x] \in Int
  BY <1>1, GiveFacts
<1>4. Zh \in Tallies /\ Zh[h] = Z[h] + (-1) /\ \A x \in Headers \ {h} : Zh[x] = Z[x]
  BY <1>1, GiveFacts
<1>5. Xh \in Tallies /\ Xh[h] = X[h] + (-1) /\ \A x \in Headers \ {h} : Xh[x] = X[x]
  BY <1>1, GiveFacts
<1>6. \A x \in Headers : Zb[x] = Xp[x]
  OBVIOUS
<1> HIDE DEF Zb, Xp, Zh, Xh
<1>7. A[b] = Zh[b] + (-1) /\ \A x \in Headers \ {b} : A[x] = Zh[x]
  BY <1>1, <1>4, GiveFacts
<1>8. B[p] = Xh[p] + (-1) /\ \A x \in Headers \ {p} : B[x] = Xh[x]
  BY <1>1, <1>5, GiveFacts
<1> HIDE DEF A, B
<1>9. ASSUME NEW x \in Headers
      PROVE  A[x] = B[x]
  <2>1. A[x] = Zb[x] + (IF x = h THEN -1 ELSE 0)
    BY <1>2, <1>4, <1>7
  <2>2. B[x] = Xp[x] + (IF x = h THEN -1 ELSE 0)
    BY <1>3, <1>5, <1>8
  <2>3. QED
    BY <1>6, <2>1, <2>2
<1>10. QED
  BY <1>9 DEF A, B, Zh, Xh

\* enter_proxying keeps the heap whole: h becomes ready or a proxy, at the cost of its own reference
\* and the one to the returned future.
LEMMA EnterProxyingOK ==
  ASSUME NEW H, NEW X \in Tallies, NEW h \in Headers \ {Always}, HeapOK(H, X, h), Unready(H, h), X[h] >= 1,
         H[h].ref # 1, NEW p \in Headers \ {h}, p # Always => X[p] >= 1,
         \A x \in Headers \ {Always} : X[x] >= 0, Target(H, p) # h,
         NEW q \in Seq(Headers), Lists!IsInjective(q), Lists!ToSet(q) \subseteq Due(H)
  PROVE  Left(H, q, h, EnterProxying(H, q, h, p), Give(Give(X, h, -1), p, -1))
<1> DEFINE b == Target(H, p)
           J == TargetHeap(H, p)
           G == Give(Give(X, h, -1), p, -1)
           E == EnterProxying(H, q, h, p)
<1>0. \E Z \in Tallies :
        /\ HeapOK(J, Z, h) /\ Keeps(H, J) /\ b \in Headers \ {h} /\ (b # Always => Z[b] >= 1)
        /\ ~ Proxying(J, b) /\ Z[h] = X[h] /\ J[h].ref = H[h].ref
        /\ \A x \in Headers : Give(Z, b, -1)[x] = Give(X, p, -1)[x]
  BY TargetOK
<1>1. PICK Z \in Tallies :
        /\ HeapOK(J, Z, h) /\ Keeps(H, J) /\ b \in Headers \ {h} /\ (b # Always => Z[b] >= 1)
        /\ ~ Proxying(J, b) /\ Z[h] = X[h] /\ J[h].ref = H[h].ref
        /\ \A x \in Headers : Give(Z, b, -1)[x] = Give(X, p, -1)[x]
  BY <1>0
<1>2. E = IF Ready(J, b) THEN EnterReady(DropForResult(AddRef(J, h, -1), b), q, h, J[b].result)
          ELSE [heap |-> ProxyOnto(J, h, b), queue |-> q]
  BY EnterProxyingParts
<1> HIDE DEF b, J, E
<1> DEFINE Zh == Give(Z, h, -1)
           Zb == Give(Zh, b, -1)
<1>3. -1 \in Int /\ 1 \in Int
  OBVIOUS
<1>4. Zh \in Tallies /\ Zh[h] = Z[h] + (-1) /\ \A x \in Headers \ {h} : Zh[x] = Z[x]
  BY <1>3, GiveFacts
<1>5. \A x \in Headers : Zb[x] = G[x]
  <2>1. /\ b \in Headers /\ h \in Headers /\ p \in Headers
        /\ \A x \in Headers : Give(Z, b, -1)[x] = Give(X, p, -1)[x]
    BY <1>1
  <2>2. \A x \in Headers : Give(Give(Z, h, -1), b, -1)[x] = Give(Give(X, h, -1), p, -1)[x]
    BY <2>1, GiveTwice, SMTT(60)
  <2>3. QED
    BY <2>2
<1>6. Unready(J, h) /\ Due(J) = Due(H) /\ J \in Heaps
  BY <1>1, KeepsFacts, HeapHeader
<1>7. CASE Ready(J, b)
  <2> DEFINE A == AddRef(J, h, -1)
             r == J[b].result
             L == DropForResult(A, b)
             Y == Give(Zb, r, 1)
             W == Give(Y, r, -1)
  <2>1. HeapOK(A, Zh, h) /\ Keeps(J, A) /\ \A x \in Headers : Alike(A[x], J[x])
    <3>1. Allocated(J, h) /\ J[h].ref \in Nat /\ J[h].ref > 0
      BY <1>1, <1>6, KindFacts
    <3>2. h # Always => J[h].ref + (-1) > 0
      BY <1>1, <3>1
    <3>3. QED
      BY <1>1, <1>3, <3>1, <3>2, AddRefOK
  <2> HIDE DEF A, Zh
  <2>2. Ready(A, b) /\ A[b].result = r
    BY <1>1, <1>7, <2>1 DEF Alike, Ready
  <2>3. b # Always => Zh[b] >= 1
    BY <1>1, <1>4
  <2>4. r \in Headers /\ Y \in Tallies /\ HeapOK(L, Y, h) /\ Keeps(A, L) /\ IsResult(L, r)
    <3>1. LET c == A[b].result
              K == DropForResult(A, b)
              V == Give(Give(Zh, b, -1), c, 1)
          IN  /\ c \in Headers /\ V \in Tallies
              /\ HeapOK(K, V, h) /\ Keeps(A, K) /\ IsResult(K, c)
      BY <1>1, <1>4, <2>1, <2>2, <2>3, DropForResultOK
    <3>2. QED
      BY <2>2, <3>1
  <2>5. Keeps(H, L)
    BY <1>1, <2>1, <2>4, KeepsFacts
  <2>6. Unready(L, h) /\ Due(L) = Due(H)
    BY <2>5, KeepsFacts
  <2>7. Zb \in Tallies /\ Zb[b] = Zh[b] + (-1) /\ \A x \in Headers \ {b} : Zb[x] = Zh[x]
    BY <1>1, <1>3, <1>4, GiveFacts
  <2> HIDE DEF Zb, L, r
  <2>8. Y[r] = Zb[r] + 1 /\ \A x \in Headers \ {r} : Y[x] = Zb[x]
    BY <1>3, <2>4, <2>7, GiveFacts
  <2>9. r # h
    BY <2>4, <2>6, KindFacts
  <2>10. Y[h] >= 0
    <3>1. Y[h] = X[h] + (-1)
      BY <1>1, <1>4, <2>7, <2>8, <2>9
    <3>2. X[h] \in Int
      BY DEF Tallies
    <3>3. QED
      BY <3>1, <3>2
  <2> HIDE DEF Y
  <2>11. Left(L, q, h, EnterReady(L, q, h, r), W)
    BY <2>4, <2>6, <2>10, EnterReadyLeft
  <2>12. \A x \in Headers \ {Always} : G[x] = W[x]
    <3>0. -1 \in Int /\ r \in Headers /\ Y \in Tallies
      BY <1>3, <2>4
    <3>1. W[r] = Y[r] + (-1) /\ \A x \in Headers \ {r} : W[x] = Y[x]
      BY <3>0, GiveFacts
    <3>2. Zb[r] \in Int
      BY <2>4, <2>7 DEF Tallies
    <3> HIDE DEF W, G
    <3>3. \A x \in Headers : W[x] = Zb[x]
      BY <2>8, <3>1, <3>2
    <3>4. QED
      BY <1>5, <3>3
  <2>13. Left(L, q, h, EnterReady(L, q, h, r), G)
    <3> HIDE DEF W, G
    <3>1. QED
      BY <2>11, <2>12, LeftTally
  <2>14. E = EnterReady(L, q, h, r)
    BY <1>2, <1>7 DEF L, r, A
  <2>15. Left(H, q, h, E, G)
    BY <2>5, <2>13, <2>14, LeftKeeps
  <2>16. QED
    BY <2>15 DEF E
<1>8. CASE ~ Ready(J, b)
  <2> DEFINE P == ProxyOnto(J, h, b)
  <2>1. Standing(J, Z, h, b)
    <3>1. Allocated(J, b)
      BY <1>1, HeldAllocated
    <3>2. QED
      BY <1>1, <1>6, <1>8, <3>1 DEF Standing
  <2>2. HeapOK(P, Zb, Nil) /\ Due(P) = Due(J) \ {h} /\ Moves(J, P, h) /\ h \notin Alls(P)
    BY <1>1, <2>1, ProxyOntoOK
  <2> HIDE DEF P, Zb
  <2>3. E = [heap |-> P, queue |-> q]
    BY <1>2, <1>8 DEF P
  <2>4. E.heap = P /\ E.queue = q
    BY <2>3
  <2>5. Due(P) \ Due(J) = {} /\ h \notin Due(P)
    BY <2>2
  <2>6. Left(J, q, h, E, Zb)
    BY <2>2, <2>4, <2>5 DEF Left
  <2>7. Left(J, q, h, E, G)
    <3> HIDE DEF G
    <3>1. QED
      BY <1>5, <2>6, LeftTally
  <2>8. Left(H, q, h, E, G)
    BY <1>1, <2>7, LeftKeeps
  <2>9. QED
    BY <2>8 DEF E
<1>9. QED
  BY <1>7, <1>8

-----------------------------------------------------------------------------
(* What a header waits for                                                 *)

\* One more round of the headers waited for.
Grow(A) == A \cup UNION {WaitsOn(x) : x \in A}
UpRun(f, h, n) == f = [k \in 0 .. n |-> IF k = 0 THEN {h} ELSE Grow(f[k - 1])]

\* The stages of the search for the headers on which h waits exist.
LEMMA UpRunExists ==
  ASSUME NEW h
  PROVE  \A n \in Nat : \E f : UpRun(f, h, n)
<1> DEFINE Bad == {n \in Nat : ~ \E f : UpRun(f, h, n)}
<1> SUFFICES ASSUME Bad # {}
             PROVE  FALSE
  OBVIOUS
<1>1. PICK n \in Bad : \A k \in Bad : n <= k
  BY LeastNat
<1>2. n \in Nat /\ ~ \E f : UpRun(f, h, n)
  BY <1>1
<1>3. CASE n = 0
  <2> DEFINE f == [k \in 0 .. 0 |-> {h}]
  <2>1. \A k \in 0 .. 0 : k = 0
    OBVIOUS
  <2>2. UpRun(f, h, 0)
    BY <2>1 DEF UpRun
  <2>3. QED
    BY <2>2, <1>2, <1>3
<1>4. CASE n # 0
  <2>1. n - 1 \in Nat /\ n - 1 \notin Bad
    BY <1>1, <1>2, <1>4
  <2>2. PICK f : UpRun(f, h, n - 1)
    BY <2>1
  <2> DEFINE g == [k \in 0 .. n |-> IF k < n THEN f[k] ELSE Grow(f[n - 1])]
  <2>3. \A k \in 0 .. n - 1 : f[k] = IF k = 0 THEN {h} ELSE Grow(f[k - 1])
    BY <2>2 DEF UpRun
  <2>4. \A k \in 0 .. n - 1 : g[k] = f[k]
    BY <1>2
  <2>5. g[n] = Grow(f[n - 1])
    BY <1>2
  <2>6. DOMAIN g = 0 .. n /\ g = [k \in 0 .. n |-> g[k]]
    OBVIOUS
  <2> HIDE DEF g
  <2>7. ASSUME NEW k \in 0 .. n
        PROVE  g[k] = IF k = 0 THEN {h} ELSE Grow(g[k - 1])
    <3>1. CASE k = n
      <4>1. g[n - 1] = f[n - 1]
        BY <1>2, <2>1, <2>4
      <4>2. QED
        BY <1>4, <2>5, <3>1, <4>1
    <3>2. CASE k # n /\ k = 0
      BY <1>2, <2>1, <2>3, <2>4, <3>2
    <3>3. CASE k # n /\ k # 0
      <4>1. k \in 0 .. n - 1 /\ k - 1 \in 0 .. n - 1
        BY <1>2, <3>3
      <4>2. QED
        BY <2>3, <2>4, <3>3, <4>1
    <3>4. QED
      BY <3>1, <3>2, <3>3
  <2>8. UpRun(g, h, n)
    BY <2>6, <2>7 DEF UpRun
  <2>9. QED
    BY <2>8, <1>2
<1>5. QED
  BY <1>3, <1>4

\* A header is upstream of itself, and so is what it waits for.
LEMMA UpstreamFacts ==
  ASSUME NEW h
  PROVE  h \in Upstream(h) /\ WaitsOn(h) \subseteq Upstream(h)
<1> DEFINE M == MaxHeaders
           f == CHOOSE g : g = [k \in 0 .. M |-> IF k = 0 THEN {h} ELSE g[k - 1] \cup UNION {WaitsOn(x) : x \in g[k - 1]}]
<1>1. M \in Nat \ {0}
  BY Constants
<1>2. \E g : g = [k \in 0 .. M |-> IF k = 0 THEN {h} ELSE g[k - 1] \cup UNION {WaitsOn(x) : x \in g[k - 1]}]
  <2>1. PICK g : UpRun(g, h, M)
    BY <1>1, UpRunExists
  <2>2. QED
    BY <2>1 DEF UpRun, Grow
<1>3. f = [k \in 0 .. M |-> IF k = 0 THEN {h} ELSE f[k - 1] \cup UNION {WaitsOn(x) : x \in f[k - 1]}]
  BY <1>2
<1>4. Upstream(h) = f[M]
  BY DEF Upstream
<1> HIDE DEF f, M
<1>5. \A k \in 0 .. M : f[k] = IF k = 0 THEN {h} ELSE Grow(f[k - 1])
  BY <1>3 DEF Grow
<1>6. f[1] = {h} \cup WaitsOn(h)
  <2>1. 0 \in 0 .. M /\ 1 \in 0 .. M /\ 1 - 1 = 0
    BY <1>1
  <2>2. f[0] = {h}
    BY <1>5, <2>1
  <2>3. f[1] = Grow(f[0])
    BY <1>5, <2>1
  <2>4. QED
    BY <2>2, <2>3 DEF Grow
<1>7. \A k \in 1 .. M : f[1] \subseteq f[k]
  <2> DEFINE Bad == {k \in 1 .. M : ~ (f[1] \subseteq f[k])}
  <2> SUFFICES ASSUME Bad # {} PROVE FALSE
    OBVIOUS
  <2>1. Bad \in SUBSET Nat
    BY <1>1
  <2>2. PICK n \in Bad : \A k \in Bad : n <= k
    BY <2>1, LeastNat
  <2>3. n \in 1 .. M /\ n # 1 /\ ~ (f[1] \subseteq f[n])
    BY <2>2
  <2>4. n - 1 \in 1 .. M /\ n - 1 \notin Bad /\ n \in 0 .. M /\ n # 0
    BY <1>1, <2>2, <2>3
  <2>5. f[1] \subseteq f[n - 1]
    BY <2>4
  <2>6. f[n - 1] \subseteq f[n]
    BY <1>5, <2>4 DEF Grow
  <2>7. QED
    BY <2>3, <2>5, <2>6
<1>8. f[1] \subseteq f[M]
  BY <1>1, <1>7
<1>9. QED
  BY <1>4, <1>6, <1>8

=============================================================================
